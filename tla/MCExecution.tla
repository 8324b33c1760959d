------------------------------ MODULE MCExecution ------------------------------
(***************************************************************************)
(* What executes turns in one run of TLC: the life of the agent's process, *)
(* the connection that carries the runs, the execution of turns, their     *)
(* states on the way to the window, the commands of a session, the cached  *)
(* workspaces, the connection to an MCP server, and what the skills'       *)
(* command line shares between its processes.  A scenario runs one of them *)
(* while the others stay as they began, so the states are the sum of       *)
(* theirs and not the product.                                             *)
(***************************************************************************)
EXTENDS Integers

CONSTANTS s1, r1, r2, m1, m2, NoRun, boot, x1, x2, q1, f1, e1, e2, e3, w1, w2, t1, t2, t3,
          treeA, treeB, None

VARIABLES
    scenario,
    killsTrees, process, child, generation, state, stopping, manuallyStopped, incompatible,
    restartAttempt, restartTimer, treeTermination, termination, target, treeKilled, at,
    woken, launched, seen,
    connection, launches, turn, stop, stops, steering, steeredRun, calls, requeued,
    toAgent, toGateway, handle, aborted, inbox, batch, transcript,
    history, memory, point, step, attempt, forced, answer, incoming, cancelled, waiting,
    running, done, outcome, excused, turns, numbers, mishaps,
    actual, unknowable, unsaved, sequence, reconcile, online, work, unpublished, reading,
    snapshot, owner, wire, answers, rows, version, dbOwner, shown, incidents,
    exec, admission, victim, command, cause, entries, output, told, wait, lock, update, closing,
    files, skills, noticed, instances, recency, inst, timer, lessee,
    registry, enabled, server, tools, error, connecting, tries, link, switches,
    submissions, record, cooling, client, artifacts, kills,
    revision, challenges, images, epoch, saved, expired, authLock, logins, posted, lapses,
    browserState, complete, refreshLock, routes, ensured, losses, caller

processVars == <<killsTrees, process, child, generation, state, stopping, manuallyStopped,
                 incompatible, restartAttempt, restartTimer, treeTermination, termination,
                 target, treeKilled, at, woken, launched, seen>>
runVars == <<connection, launches, turn, stop, stops, steering, steeredRun, calls, requeued,
             toAgent, toGateway, handle, aborted, inbox, batch, transcript>>
turnVars == <<history, memory, point, step, attempt, forced, answer, incoming, cancelled,
              waiting, running, done, outcome, excused, turns, numbers, mishaps>>
resultVars == <<actual, unknowable, unsaved, sequence, reconcile, online, work, unpublished,
                reading, snapshot, owner, wire, answers, rows, version, dbOwner, shown,
                incidents>>
commandVars == <<exec, admission, victim, command, cause, entries, output, told, wait, lock,
                 update, closing>>
workspaceVars == <<files, skills, noticed, instances, recency, inst, timer, lessee>>
serverVars == <<registry, enabled, server, tools, error, connecting, tries, link, switches>>
exportVars == <<submissions, record, cooling, client, artifacts, kills>>
captchaVars == <<revision, challenges, images, epoch, saved, expired, authLock, logins, posted,
                 lapses>>
browserVars == <<browserState, complete, refreshLock, routes, ensured, losses, caller>>
vars == <<scenario, processVars, runVars, turnVars, resultVars, commandVars, workspaceVars,
          serverVars, exportVars, captchaVars, browserVars>>

RunsOf == [r \in {r1, r2} |-> s1]
TurnsOf == [t \in 1..2 |-> s1]
IncidentsWith == <<2, 1>>
TreesOf == [t \in {t1, t2, t3} |-> IF t = t3 THEN treeB ELSE treeA]
SwitchOf == [k \in {x1, x2, q1, f1, r1} |->
                CASE k = r1 -> "start" [] k \in {x1, x2} -> "enable" [] k = q1 -> "disable"
                  [] OTHER -> "stop"]
ExportsOf == [r \in {x1, x2, q1} |-> IF r = x1 THEN <<t1, t2>> ELSE <<t1>>]
ClearedKind == [c \in {e1, w1, w2, x1, q1} |->
                   CASE c = e1 -> "prepare" [] c \in {w1, w2} -> "submit"
                     [] c = x1 -> "clear" [] OTHER -> "status"]
RejectedKind == [c \in {e1, e2, w1, w2, q1} |->
                    CASE c \in {e1, e2} -> "prepare" [] c \in {w1, w2} -> "submit"
                      [] OTHER -> "export"]
\* Two stops of the lifecycle, a restart, a recovery and a failed connection that overlap;
\* with and without a way to kill process trees.
Process == INSTANCE AgentProcess_proofs WITH
    Boot <- boot, Stoppers <- {x1, x2}, Restarters <- {r1}, Recoveries <- {q1},
    Failures <- {f1}, MaxChildren <- 2, MaxAttempts <- 1
\* Two restarts, a recovery and a failed connection that overlap.
Recovery == INSTANCE AgentProcess_proofs WITH
    Boot <- boot, Stoppers <- {}, Restarters <- {r1, r2}, Recoveries <- {q1},
    Failures <- {f1}, MaxChildren <- 2, MaxAttempts <- 2
\* Two runs of one session, one steering message and one relaunch of the child.
Connection == INSTANCE AgentRuns_proofs WITH
    Runs <- {r1, r2}, SessionOf <- RunsOf, Messages <- {m1}, MaxStops <- 1,
    MaxLaunches <- 2
\* One run, two steering messages, a stop that may be tried again, and one child.
Steering == INSTANCE AgentRuns_proofs WITH
    Runs <- {r1}, SessionOf <- RunsOf, Messages <- {m1, m2}, MaxStops <- 2,
    MaxLaunches <- 1
\* Two turns of three steps, with three of: failures, crashes, cancels, compactions.
Execution == INSTANCE TurnExecution WITH
    MaxSteps <- 3, MaxAttempts <- 2, MaxCalls <- 2, MaxTurns <- 2, MaxNumbers <- 4,
    MaxIncidents <- 3, transcript <- history, messages <- memory, at <- point,
    inbox <- incoming, incidents <- mishaps
\* Two turns of one session; two incidents with the first of them, one with both.
Results == INSTANCE SessionStatus WITH
    MaxTurns <- 2, Sessions <- {s1}, SessionOf <- TurnsOf,
    MaxIncidents <- IncidentsWith, pending <- unsaved, ready <- online,
    revision <- snapshot
\* One command that writes twice, and two calls of wait; two commands where one record is
\* kept, and the two calls; three where two are kept and the last one is protected.
Command == INSTANCE CodingProcesses WITH
    Execs <- {e1}, Waits <- {w1, w2}, MaxRecords <- 1, ProtectedRecent <- 0, MaxChunks <- 2,
    Watched <- TRUE, NoExec <- None, child <- command
Eviction == INSTANCE CodingProcesses WITH
    Execs <- {e1, e2}, Waits <- {w1, w2}, MaxRecords <- 1, ProtectedRecent <- 0,
    MaxChunks <- 0, Watched <- FALSE, NoExec <- None, child <- command
Capacity == INSTANCE CodingProcesses WITH
    Execs <- {e1, e2, e3}, Waits <- {}, MaxRecords <- 2, ProtectedRecent <- 1,
    MaxChunks <- 0, Watched <- FALSE, NoExec <- None, child <- command
\* Two turns of a worktree whose instructions change twice; three turns of two worktrees
\* of which one is kept, and a change of the skills.
Worktree == INSTANCE WorkspaceInstances_proofs WITH
    Turns <- {t1, t2}, Worktrees <- {treeA}, WorktreeOf <- TreesOf, MaxInstances <- 1,
    MaxChanges <- 2, MaxRevisions <- 0, MaxObjects <- 2, NoInstance <- None,
    map <- instances, older <- recency, turn <- lessee
Worktrees == INSTANCE WorkspaceInstances_proofs WITH
    Turns <- {t1, t2, t3}, Worktrees <- {treeA, treeB}, WorktreeOf <- TreesOf,
    MaxInstances <- 1, MaxChanges <- 0, MaxRevisions <- 1, MaxObjects <- 4,
    NoInstance <- None, map <- instances, older <- recency, turn <- lessee
\* A start, two calls that switch the server on, one that switches it off, and a stop; two
\* exports and a refresh by hand, with three losses of a login.
Outside == INSTANCE Outside_proofs WITH
    Calls <- {x1, x2, q1, f1, r1}, KindOf <- SwitchOf, MaxAttempts <- 3,
    connection <- server, attempt <- tries, call <- switches,
    Callers <- {x1, x2, r1}, Refreshers <- {r1}, MaxLosses <- 3,
    file <- browserState, lock <- refreshLock

\* Three runs of which one exports two reports, with two of: kills and requests that fail;
\* and two runs while a person exports on the platform.
Exports == INSTANCE WarehouseExports WITH
    Runs <- {x1, x2, q1}, Keys <- {t1, t2}, TasksOf <- ExportsOf, MaxForeign <- 0,
    MaxFaults <- 2, faults <- kills
Foreign == INSTANCE WarehouseExports WITH
    Runs <- {x1, q1}, Keys <- {t1, t2}, TasksOf <- [r \in {x1, q1} |-> ExportsOf[r]],
    MaxForeign <- 1, MaxFaults <- 1, faults <- kills

\* A captcha, two submissions of it, a clear and a status; two captchas, two submissions and
\* an export; each with a change of the settings and a kill.
Cleared == INSTANCE ShangmanLogin WITH
    Calls <- {e1, w1, w2, x1, q1}, KindOf <- ClearedKind, MaxRevisions <- 1, MaxFaults <- 1,
    lock <- authLock, call <- logins, faults <- lapses
Refused == INSTANCE ShangmanLogin WITH
    Calls <- {e1, e2, w1, w2, q1}, KindOf <- RejectedKind, MaxRevisions <- 1, MaxFaults <- 1,
    lock <- authLock, call <- logins, faults <- lapses

\* What the parts assume of their constants.
ASSUME PartsAssumption ==
       /\ Process!AgentProcessAssumption /\ Recovery!AgentProcessAssumption
       /\ Connection!AgentRunsAssumption /\ Steering!AgentRunsAssumption
       /\ Worktree!WorkspaceInstancesAssumption /\ Worktrees!WorkspaceInstancesAssumption
       /\ Outside!McpServersAssumption
       /\ Exports!WarehouseExportsAssumption /\ Foreign!WarehouseExportsAssumption
       /\ Cleared!ShangmanLoginAssumption /\ Refused!ShangmanLoginAssumption
       /\ Outside!Browser!MabangLoginAssumption

Init ==
    /\ scenario \in {"process", "recovery", "runs", "steering", "turn", "results", "command",
                    "eviction", "capacity", "worktree", "worktrees", "server", "exports",
                    "foreign", "cleared", "refused", "browser"}
    /\ IF scenario = "recovery" THEN Recovery!Init
       ELSE Process!Init /\ (scenario # "process" => ~killsTrees)
    /\ IF scenario = "steering" THEN Steering!Init ELSE Connection!Init
    /\ Execution!Init /\ Results!Init
    /\ CASE scenario = "eviction" -> Eviction!Init
         [] scenario = "capacity" -> Capacity!Init
         [] OTHER -> Command!Init
    /\ IF scenario = "worktrees" THEN Worktrees!Init ELSE Worktree!Init
    /\ Outside!Init /\ (scenario # "server" => ~enabled)
    /\ IF scenario = "foreign" THEN Foreign!Init ELSE Exports!Init
    /\ IF scenario = "refused" THEN Refused!Init ELSE Cleared!Init
    /\ Outside!Browser!Init

\* A step of the part whose variables are named, in a scenario of its own.
Others(own) ==
    /\ UNCHANGED scenario
    /\ own # "process" => UNCHANGED processVars
    /\ own # "runs" => UNCHANGED runVars
    /\ own # "turn" => UNCHANGED turnVars
    /\ own # "results" => UNCHANGED resultVars
    /\ own # "command" => UNCHANGED commandVars
    /\ own # "workspace" => UNCHANGED workspaceVars
    /\ own # "server" => UNCHANGED serverVars
    /\ own # "exports" => UNCHANGED exportVars
    /\ own # "captcha" => UNCHANGED captchaVars
    /\ own # "browser" => UNCHANGED browserVars

ProcessStep ==
    /\ \/ scenario = "process" /\ Process!Next
       \/ scenario = "recovery" /\ Recovery!Next
    /\ Others("process")

RunStep ==
    /\ \/ scenario = "runs" /\ Connection!Next
       \/ scenario = "steering" /\ Steering!Next
    /\ Others("runs")

TurnStep == scenario = "turn" /\ Execution!Next /\ Others("turn")

ResultStep == scenario = "results" /\ Results!Next /\ Others("results")

CommandStep ==
    /\ \/ scenario = "command" /\ Command!Next
       \/ scenario = "eviction" /\ Eviction!Next
       \/ scenario = "capacity" /\ Capacity!Next
    /\ Others("command")

WorkspaceStep ==
    /\ \/ scenario = "worktree" /\ Worktree!Next
       \/ scenario = "worktrees" /\ Worktrees!Next
    /\ Others("workspace")

ServerStep == scenario = "server" /\ Outside!Next /\ Others("server")

ExportStep ==
    /\ \/ scenario = "exports" /\ Exports!Next
       \/ scenario = "foreign" /\ Foreign!Next
    /\ Others("exports")

CaptchaStep ==
    /\ \/ scenario = "cleared" /\ Cleared!Next
       \/ scenario = "refused" /\ Refused!Next
    /\ Others("captcha")

BrowserStep == scenario = "browser" /\ Outside!Browser!Next /\ Others("browser")

Next ==
    \/ ProcessStep \/ RunStep \/ TurnStep \/ ResultStep \/ CommandStep \/ WorkspaceStep
    \/ ServerStep \/ ExportStep \/ CaptchaStep \/ BrowserStep

Spec == Init /\ [][Next]_vars

-----------------------------------------------------------------------------
\* AgentProcess: whatever calls overlap, a child that lives is owned, and a request that
\* waits for initialize belongs to the owned child; when stop() had the last word none is
\* left alive but one that outlived the signals it was sent; and an agent is spawned only
\* when no other lives and every tree that was killed is known to be gone.
AgentIsOwned ==
    /\ [](scenario = "process" =>
            Process!AgentProcessInv /\ Process!NoOrphans /\ Process!StoppedMeansGone)
    /\ [][scenario = "process" => Process!AloneWhenSpawned]_vars

\* AgentProcess: an agent that went down by itself is brought back while attempts are left.
RecoveryHolds == scenario = "recovery" => Recovery!RecoveryScheduled

\* AgentRuns: callers and pending requests agree, a stop reported as done has reached the
\* run, and the agent never holds two runs of a session, whatever happens to the connection
\* between them.
RunsHold ==
    scenario = "runs" =>
        /\ Connection!AgentRunsInv /\ Connection!AcknowledgedStopAborts
        /\ Connection!SessionRunsAlone

\* AgentRuns: a steering message is handled once: it is in the history, or put back into
\* the queue, or its sender learns that it was not taken; and a run that completed has
\* written all the steering it accepted.
SteeringHolds ==
    /\ scenario = "runs" =>
          Connection!SteeringHandledOnce /\ Connection!CompletedRunsKeepSteering
    /\ scenario = "steering" =>
          Steering!SteeringHandledOnce /\ Steering!CompletedRunsKeepSteering

\* TurnExecution: the provider is asked with what the transcript replays to, every call
\* answered, and answers are made up only where a crash or a failure lost them; what was
\* written is told on, or covered by a summary, and steering that a turn takes is written.
TurnsAreRecorded ==
    /\ [](scenario = "turn" => Execution!TurnInv)
    /\ [][scenario = "turn" => Execution!NothingForgotten]_vars

\* SessionStatus: at rest the store says of each turn what the scheduler knows, and the
\* window shows what the store has; a result stays what it is, and only what was shown
\* becomes read.
ResultsHold ==
    /\ [](scenario = "results" =>
            Results!TypeOK /\ Results!StoreAgrees /\ Results!WindowAgrees)
    /\ [][scenario = "results" => Results!ResultsStand]_vars

\* CodingProcesses: a command that runs is on record, and none runs once its session or
\* the runtime was closed; its end is told once, with all the output or a warning, and a
\* window at rest was sent it.
CommandsHold ==
    /\ [](/\ scenario = "command" =>
                /\ Command!TypeOK /\ Command!Owned
                /\ Command!EndsAreComplete /\ Command!UpdatesSettle
          /\ scenario = "eviction" => Eviction!TypeOK /\ Eviction!Owned
          /\ scenario = "capacity" => Capacity!TypeOK /\ Capacity!Owned)
    /\ [][/\ scenario = "command" => Command!EndsAreToldOnce
         /\ scenario = "eviction" => Eviction!EndsAreToldOnce]_vars

\* WorkspaceInstances: a turn uses the changes that were known when it asked, also when it
\* joins a reload, and a stale view is known to be, or its event is to come.
WorkspacesAreCurrent ==
    /\ scenario = "worktree" => Worktree!WorkspacesInv
    /\ scenario = "worktrees" => Worktrees!WorkspacesInv

\* McpServers: registered tools call a connection that is open, none is left open behind, and
\* a server that is on is connected in the end, or says why not.
ServersHold == scenario = "server" => Outside!ServersInv

\* WarehouseExports: a request of which a report may still come is on record, so it is not
\* made twice, a report is delivered once and is the one that was asked for, and nothing is
\* submitted while the account was told to wait.
ExportsHold ==
    /\ [](/\ scenario = "exports" => Exports!ExportsInv
          /\ scenario = "foreign" => Foreign!ExportsInv)
    /\ [][/\ scenario = "exports" => Exports!WaitsWhenTold
         /\ scenario = "foreign" => Foreign!WaitsWhenTold]_vars

\* ShangmanLogin: a captcha is submitted once, a login that was cleared does not come back, a
\* process with older settings, or with a token that was rejected, does not remove a newer
\* login, and a captcha stays until it is used.
LoginsHold ==
    /\ [](/\ scenario = "cleared" => Cleared!LoginInv
          /\ scenario = "refused" => Refused!LoginInv)
    /\ [][/\ scenario = "cleared" => Cleared!NewerLoginsStay /\ Cleared!CaptchasAreKept
         /\ scenario = "refused" => Refused!NewerLoginsStay /\ Refused!CaptchasAreKept]_vars

\* MabangLogin: commands that find no login make one between them, the last login stands, a
\* retry is not made with the one that was rejected, and one that was promised is there.
BrowserLoginsHold == scenario = "browser" => Outside!Browser!MabangInv
=============================================================================
