----------------------------- MODULE Automations -----------------------------
(***************************************************************************)
(* The desktop's AutomationService: plans ("automations") kept in SQLite,  *)
(* a tick that turns due plans into agent turns, manual runs, edits from   *)
(* several callers, background naming, and reconciliation after a crash.   *)
(*                                                                         *)
(* The code between two awaits is one action.  An operation that awaits is *)
(* a record of what it remembers across the await: dispatching[t] for      *)
(* dispatch(), edits[c] for a save() or a resume of caller c, due for the  *)
(* list a tick works through.  A crash loses these and keeps tasks and     *)
(* runs.  What the agent did with a turn is the field turn of its run.     *)
(*                                                                         *)
(* Whether the agent is ready and whether the scheduler is fenced for an    *)
(* update changes at any moment: there is no variable for either, and each *)
(* step that asks is allowed with both answers.                            *)
(*                                                                         *)
(* One unit of time is the 60 s that separate two automatic starts and     *)
(* that a recheck waits for.                                               *)
(***************************************************************************)
EXTENDS Integers, FiniteSets, Sequences, FiniteSetsExt

CONSTANTS
    Tasks,          \* automation ids
    Definitions,    \* schedule and target of a task, see DefinitionType
    Callers,        \* callers that may save or resume at the same time
    BatchSize,      \* due tasks one tick may start
    MaxTime,        \* bound: the clock
    MaxVersion,     \* bound: the version of a task
    MaxRuns         \* bound: dispatch records

\* kind "interval" uses every; "once" and "rrule" use times, the nominal times the
\* rule has; jitter is the deterministic offset of an rrule.
DefinitionType == [kind : {"once", "interval", "rrule"}, target : {"new", "reuse"},
                   every : Nat, times : SUBSET Nat, jitter : Int]

AutomationsAssumption ==
    /\ Definitions \subseteq DefinitionType
    /\ \A d \in Definitions :
        /\ d.kind = "interval" => d.every > 0
        /\ d.kind = "once" => Cardinality(d.times) = 1
        /\ d.kind # "rrule" => d.jitter = 0
    /\ BatchSize \in Nat \ {0}
    /\ MaxTime \in Nat /\ MaxVersion \in Nat /\ MaxRuns \in Nat

VARIABLES
    now,
    tasks,          \* table automations
    runs,           \* table automation_runs, in the order of insertion
    service,        \* "down", "running" or "stopping"
    ticking,        \* "idle", "recovering", "found", "missing" or "starting"
    recovered,
    unconfirmed,    \* prepared runs that this recovery still has to look up
    due,            \* the tasks this tick still has to start
    dispatching,    \* the dispatch() of each task
    edits,          \* the save() or setStatus("active") of each caller
    naming          \* tasks whose present version waits for a generated name

volatile == <<ticking, recovered, unconfirmed, due, dispatching, edits, naming>>
vars == <<now, tasks, runs, service, volatile>>

-----------------------------------------------------------------------------
(* Times and plans *)

NoTime == -1
Times == Nat \cup {NoTime}

Task == [status : {"none", "active", "paused", "finished", "deleted"},
         version : Nat, definition : Definitions, anchor : Nat,
         nominal : Times, due : Times, recheck : Nat, last : Times]

\* The row of a task that was never saved.
NoTask == [status |-> "none", version |-> 0, definition |-> CHOOSE d \in Definitions : TRUE,
           anchor |-> 0, nominal |-> NoTime, due |-> NoTime, recheck |-> 0, last |-> NoTime]

Exists(t) == tasks[t].status \notin {"none", "deleted"}

NextNominal(d, after, anchor) ==
    IF d.kind = "interval"
    THEN IF d.target = "reuse"
         THEN after + d.every
         ELSE anchor + ((after - anchor) \div d.every + 1) * d.every
    ELSE LET later == {x \in d.times : x > after}
         IN IF later = {} THEN NoTime ELSE Min(later)

\* nextTime(): the nominal time and the time the task falls due.
NextTime(d, after, anchor) ==
    LET nominal == NextNominal(d, after, anchor)
    IN [nominal |-> nominal,
        due |-> IF nominal = NoTime THEN NoTime ELSE Max({after, nominal + d.jitter})]

Elapsed(d, time) == d.kind = "once" /\ \A x \in d.times : x <= time

Run == [task : Tasks, version : Nat, definition : Definitions, trigger : {"scheduled", "manual"}, nominal : Nat,
        at : Nat, state : {"prepared", "accepted", "failed", "unknown"},
        turn : {"none", "queued", "lost"}]

Idle == [pc |-> "idle"]
Dispatch ==
    {Idle} \cup
    [pc : {"blockReason"}, trigger : {"scheduled", "manual"}, listed : Nat, task : Task] \cup
    [pc : {"clock"}, trigger : {"scheduled", "manual"}, listed : Nat, task : Task, at : Nat] \cup
    [pc : {"submit", "queued"}, trigger : {"scheduled", "manual"}, task : Task, run : Nat]

Edit ==
    {Idle} \cup
    [pc : {"save"}, task : Tasks, version : Nat, definition : Definitions, at : Nat] \cup
    [pc : {"resume"}, task : Tasks, version : Nat, at : Nat]

TypeOK ==
    /\ now \in Nat
    /\ tasks \in [Tasks -> Task]
    /\ runs \in Seq(Run)
    /\ service \in {"down", "running", "stopping"}
    /\ ticking \in {"idle", "recovering", "found", "missing", "starting"}
    /\ recovered \in BOOLEAN
    /\ unconfirmed \subseteq DOMAIN runs
    /\ due \subseteq [task : Tasks, due : Nat, version : Nat]
    /\ dispatching \in [Tasks -> Dispatch]
    /\ edits \in [Callers -> Edit]
    /\ naming \subseteq Tasks

Init ==
    /\ now = 0
    /\ tasks = [t \in Tasks |-> NoTask]
    /\ runs = <<>>
    /\ service = "down"
    /\ ticking = "idle" /\ recovered = FALSE
    /\ unconfirmed = {} /\ due = {}
    /\ dispatching = [t \in Tasks |-> Idle]
    /\ edits = [c \in Callers |-> Idle]
    /\ naming = {}

-----------------------------------------------------------------------------
(* Edits.  The first step of an edit stands for the call and its first await  *)
(* (validate): what is checked before is checked again by the last step.      *)

Stored == UNCHANGED <<now, service>>
TickStays == UNCHANGED <<ticking, recovered, unconfirmed, due>>
OthersStay == Stored /\ TickStays

\* store.save() of a new version.  A name asked for an older version will be dropped;
\* autoName asks for one.
Save(t, task, autoName) ==
    /\ task.version <= MaxVersion
    /\ tasks' = [tasks EXCEPT ![t] = task]
    /\ naming' = IF autoName THEN naming \cup {t} ELSE naming \ {t}

BeginSave(c, t, d) ==
    /\ service = "running"
    /\ edits[c] = Idle
    /\ tasks[t].status # "deleted"
    /\ ~Elapsed(d, now)
    /\ edits' = [edits EXCEPT ![c] =
            [pc |-> "save", task |-> t, version |-> tasks[t].version, definition |-> d, at |-> now]]
    /\ UNCHANGED <<tasks, runs, dispatching, naming>> /\ OthersStay

\* The end of save(); autoName starts a generateName() in the background.
EndSave(c) ==
    LET e == edits[c]
        old == tasks[e.task]
        time == NextTime(e.definition, e.at, e.at)
    IN
    /\ e.pc = "save"
    /\ service = "running"
    /\ old.status # "deleted" /\ old.version = e.version
    /\ ~Elapsed(e.definition, now)
    /\ time.nominal # NoTime
    /\ \E autoName \in BOOLEAN :
        Save(e.task, [status |-> IF old.status = "paused" THEN "paused" ELSE "active",
                      version |-> old.version + 1, definition |-> e.definition,
                      anchor |-> e.at, nominal |-> time.nominal, due |-> time.due,
                      recheck |-> 0, last |-> old.last], autoName)
    /\ edits' = [edits EXCEPT ![c] = Idle]
    /\ UNCHANGED <<runs, dispatching>> /\ OthersStay

BeginResume(c, t) ==
    /\ service = "running"
    /\ edits[c] = Idle
    /\ Exists(t) /\ tasks[t].status # "finished"
    /\ edits' = [edits EXCEPT ![c] =
            [pc |-> "resume", task |-> t, version |-> tasks[t].version, at |-> now]]
    /\ UNCHANGED <<tasks, runs, dispatching, naming>> /\ OthersStay

\* A one-shot keeps its time and does not await the clock, so it reads the time now.
EndResume(c) ==
    LET e == edits[c]
        old == tasks[e.task]
        once == old.definition.kind = "once"
        at == IF once THEN now ELSE e.at
        time == NextTime(old.definition, at, at)
    IN
    /\ e.pc = "resume"
    /\ service = "running"
    /\ Exists(e.task) /\ old.version = e.version
    /\ ~Elapsed(old.definition, now)
    /\ Save(e.task, [old EXCEPT !.status = IF time.nominal = NoTime THEN "finished" ELSE "active",
                                !.version = @ + 1, !.anchor = at, !.nominal = time.nominal,
                                !.due = time.due, !.recheck = 0], FALSE)
    /\ edits' = [edits EXCEPT ![c] = Idle]
    /\ UNCHANGED <<runs, dispatching>> /\ OthersStay

\* A changed version, an elapsed one-shot, a failed validation, a cancelled caller,
\* a clock that failed or was closed.
FailEdit(c) ==
    /\ edits[c] # Idle
    /\ edits' = [edits EXCEPT ![c] = Idle]
    /\ UNCHANGED <<tasks, runs, dispatching, naming>> /\ OthersStay

Pause(t) ==
    /\ service = "running"
    /\ Exists(t)
    /\ Save(t, [tasks[t] EXCEPT !.status = "paused", !.version = @ + 1, !.recheck = 0], FALSE)
    /\ UNCHANGED <<runs, dispatching, edits>> /\ OthersStay

Delete(t) ==
    /\ service = "running"
    /\ Exists(t)
    /\ Save(t, [tasks[t] EXCEPT !.status = "deleted", !.version = @ + 1], FALSE)
    /\ UNCHANGED <<runs, dispatching, edits>> /\ OthersStay

\* The conversation the task is bound to was deleted; each task has its own here.
PauseSession(t) ==
    /\ service = "running"
    /\ tasks[t].status = "active" /\ tasks[t].definition.target = "reuse"
    /\ Save(t, [tasks[t] EXCEPT !.status = "paused", !.version = @ + 1], FALSE)
    /\ UNCHANGED <<runs, dispatching, edits>> /\ OthersStay

\* The answer of titles.generate: a new name, or nothing if it failed or a dispatch is
\* under way.
GenerateName(t) ==
    /\ t \in naming
    /\ \/ /\ dispatching[t] = Idle
          /\ Save(t, [tasks[t] EXCEPT !.version = @ + 1], FALSE)
       \/ /\ naming' = naming \ {t}
          /\ UNCHANGED tasks
    /\ UNCHANGED <<runs, dispatching, edits>> /\ OthersStay

-----------------------------------------------------------------------------
(* dispatch(): check, claim, submit, settle *)

\* The claims that are under way count against the bound on dispatch records.
Unclaimed == {t \in Tasks : dispatching[t].pc \in {"blockReason", "clock"}}
RoomForRun == Len(runs) + Cardinality(Unclaimed) < MaxRuns

BeginDispatch(t, trigger, listed) ==
    /\ RoomForRun
    /\ dispatching' = [dispatching EXCEPT ![t] =
            [pc |-> "blockReason", trigger |-> trigger, listed |-> listed, task |-> tasks[t]]]

RunNow(t) ==
    /\ service = "running"
    /\ dispatching[t] = Idle
    /\ Exists(t)
    /\ ~(tasks[t].definition.kind = "once" /\ tasks[t].status = "finished")
    /\ BeginDispatch(t, "manual", 0)
    /\ UNCHANGED <<tasks, runs, edits, naming>> /\ OthersStay

\* What tickOnce() does with a task whose dispatch() threw.
Postponed(t, listed) ==
    IF tasks[t].version = listed /\ tasks[t].status = "active"
    THEN [tasks EXCEPT ![t].recheck = now + 1]
    ELSE tasks

\* A busy or missing target, an error, a change since the call, a failed clock:
\* dispatch() throws before it has claimed anything.
DispatchThrows(t) ==
    LET d == dispatching[t] IN
    /\ t \in Unclaimed
    /\ dispatching' = [dispatching EXCEPT ![t] = Idle]
    /\ \/ /\ d.trigger = "manual"
          /\ UNCHANGED <<tasks, naming>>
       \/ /\ d.trigger = "scheduled"
          /\ tasks' = Postponed(t, d.listed)
          /\ UNCHANGED naming
       \/ /\ d.trigger = "scheduled" /\ d.pc = "blockReason"    \* the target is missing
          /\ tasks[t].version = d.listed /\ tasks[t].status = "active"
          /\ Save(t, [tasks[t] EXCEPT !.recheck = now + 1, !.status = "paused", !.version = @ + 1],
                  FALSE)
    /\ UNCHANGED <<runs, edits>> /\ OthersStay

\* Fault: a calendar moves on from the present, though it may start before its time.
AfterNow(task, at) == at

\* The time a claimed plan moves on from.
After(task, at) ==
    IF task.definition.kind = "interval" THEN at ELSE Max({at, task.nominal})

\* claim(): one transaction moves the plan on and records the run, provided the
\* stored row is still the one that was read.
Claim(t, at) ==
    LET d == dispatching[t]
        task == d.task
        def == task.definition
        time == IF def.kind = "once" THEN [nominal |-> NoTime, due |-> NoTime]
                ELSE NextTime(def, After(task, at), task.anchor)
        touched == [task EXCEPT !.recheck = 0, !.last = at]
        advance == d.trigger = "scheduled" \/ def.target = "reuse" \/ def.kind = "once"
    IN
    /\ service = "running"
    /\ tasks[t] = task
    /\ tasks' = [tasks EXCEPT ![t] =
            IF advance
            THEN [touched EXCEPT !.nominal = time.nominal, !.due = time.due,
                                 !.status = IF time.nominal = NoTime THEN "finished" ELSE @]
            ELSE touched]
    /\ runs' = Append(runs, [task |-> t, version |-> task.version, definition |-> def,
                             trigger |-> d.trigger,
                             nominal |-> IF d.trigger = "scheduled" THEN task.nominal ELSE at,
                             at |-> at, state |-> "prepared", turn |-> "none"])
    /\ dispatching' = [dispatching EXCEPT ![t] =
            [pc |-> "submit", trigger |-> d.trigger, task |-> task, run |-> Len(runs) + 1]]

\* blockReason() found nothing.  Only a recurring plan that moves on awaits the clock.
PassBlockReason(t) ==
    LET d == dispatching[t] IN
    /\ d.pc = "blockReason"
    /\ tasks[t].version = d.task.version
    /\ IF d.task.definition.kind # "once"
          /\ (d.trigger = "scheduled" \/ d.task.definition.target = "reuse")
       THEN /\ dispatching' = [dispatching EXCEPT ![t] =
                    [pc |-> "clock", trigger |-> d.trigger, listed |-> d.listed,
                     task |-> d.task, at |-> now]]
            /\ UNCHANGED <<tasks, runs>>
       ELSE Claim(t, now)
    /\ UNCHANGED <<edits, naming>> /\ OthersStay

ClockAnswers(t) ==
    /\ dispatching[t].pc = "clock"
    /\ Claim(t, dispatching[t].at)
    /\ UNCHANGED <<edits, naming>> /\ OthersStay

\* Fault: the plan is looked at without comparing versions.
CurrentUnversioned(t) ==
    /\ service = "running"
    /\ tasks[t].status # "deleted"
    /\ ~(dispatching[t].trigger = "scheduled" /\ tasks[t].status = "paused")

\* assertCurrent(), called again right before the job enters the queue.
Current(t) ==
    LET d == dispatching[t] IN
    /\ service = "running"
    /\ tasks[t].version = d.task.version
    /\ tasks[t].status # "deleted"
    /\ ~(d.trigger = "scheduled" /\ tasks[t].status = "paused")

\* The scheduler's enqueue() accepts the turn.
Admit(t) ==
    LET d == dispatching[t] IN
    /\ d.pc = "submit"
    /\ Current(t)
    /\ runs' = [runs EXCEPT ![d.run].turn = "queued"]
    /\ dispatching' = [dispatching EXCEPT ![t].pc = "queued"]
    /\ UNCHANGED <<tasks, edits, naming>> /\ OthersStay

Settle(t, state) ==
    /\ runs' = [runs EXCEPT ![dispatching[t].run].state = state]
    /\ dispatching' = [dispatching EXCEPT ![t] = Idle]

Accept(t) ==
    /\ dispatching[t].pc = "queued"
    /\ Settle(t, "accepted")
    /\ UNCHANGED <<tasks, edits, naming>> /\ OthersStay

\* An AutomationBlockedError: no turn; a scheduled opportunity is given back.
Refuse(t) ==
    LET d == dispatching[t] IN
    /\ d.pc = "submit"
    /\ tasks' = IF d.trigger = "scheduled" /\ tasks[t].version = d.task.version
                THEN [tasks EXCEPT ![t] = [d.task EXCEPT !.recheck = now + 1]]
                ELSE tasks
    /\ Settle(t, "failed")
    /\ UNCHANGED <<edits, naming>> /\ OthersStay

\* enqueue() throws for an update before it looks at onlyIfIdle: a plain error.
UpdateRefuses(t) ==
    /\ dispatching[t].pc = "submit"
    /\ Settle(t, "unknown")
    /\ UNCHANGED <<tasks, edits, naming>> /\ OthersStay

\* Any other error, before or after the turn was accepted.
SubmitFails(t) ==
    /\ dispatching[t].pc \in {"submit", "queued"}
    /\ Settle(t, "unknown")
    /\ UNCHANGED <<tasks, edits, naming>> /\ OthersStay

-----------------------------------------------------------------------------
(* tickOnce() *)

Prepared == {i \in DOMAIN runs : runs[i].state = "prepared"}

\* Fault: what a crash left behind is not looked at.
TickWithoutRecovery ==
    /\ service = "running"
    /\ ticking = "idle"
    /\ ticking' = "recovering"
    /\ UNCHANGED <<tasks, runs, recovered, unconfirmed, due, dispatching, edits, naming>> /\ Stored

Tick ==
    /\ service = "running"
    /\ ticking = "idle"
    /\ ticking' = "recovering"
    /\ unconfirmed' = IF recovered THEN {} ELSE Prepared
    /\ UNCHANGED <<tasks, runs, recovered, due, dispatching, edits, naming>> /\ Stored

\* observe() answers for the run that is reconciled next; a lookup may also fail.
LookUp ==
    /\ ticking = "recovering" /\ unconfirmed # {}
    /\ ticking' \in IF runs[Max(unconfirmed)].turn = "queued"
                    THEN {"found", "missing"} ELSE {"missing"}
    /\ UNCHANGED <<tasks, runs, recovered, unconfirmed, due, dispatching, edits, naming>>
    /\ Stored

Reconcile ==
    /\ ticking \in {"found", "missing"}
    /\ runs' = [runs EXCEPT ![Max(unconfirmed)].state =
            IF ticking = "found" THEN "accepted" ELSE "unknown"]
    /\ unconfirmed' = unconfirmed \ {Max(unconfirmed)}
    /\ ticking' = "recovering"
    /\ UNCHANGED <<tasks, recovered, due, dispatching, edits, naming>> /\ Stored

IsDue(t) ==
    /\ tasks[t].status = "active"
    /\ tasks[t].due # NoTime /\ tasks[t].due <= now
    /\ tasks[t].recheck <= now
    /\ tasks[t].last = NoTime \/ now - tasks[t].last >= 1
    /\ dispatching[t] = Idle

Starting == \E t \in Tasks : dispatching[t] # Idle /\ dispatching[t].trigger = "scheduled"

\* One round of the loop over the due tasks: the one that is due longest.
StartOne(list) ==
    /\ service = "running"
    /\ ticking' = "starting"
    /\ \E item \in list :
        /\ \A other \in list : item.due <= other.due
        /\ due' = list \ {item}
        /\ IF dispatching[item.task] = Idle /\ tasks[item.task].status = "active"
           THEN /\ BeginDispatch(item.task, "scheduled", item.version)
                /\ UNCHANGED tasks
           ELSE /\ tasks' = Postponed(item.task, item.version)
                /\ UNCHANGED dispatching

\* The list is done, or cut short by stop() or an agent that is not ready.
EndTick ==
    /\ ticking' = "idle"
    /\ due' = {}
    /\ UNCHANGED <<tasks, dispatching>>

\* At most BatchSize tasks, those that are due longest; among equals, any.
ListDue ==
    /\ ticking = "recovering" /\ unconfirmed = {}
    /\ recovered' = TRUE
    /\ \E batch \in SUBSET {t \in Tasks : IsDue(t)} :
        LET left == {t \in Tasks \ batch : IsDue(t)} IN
        /\ Cardinality(batch) <= BatchSize
        /\ left # {} => Cardinality(batch) = BatchSize
        /\ \A t \in batch, u \in left : tasks[t].due <= tasks[u].due
        /\ \/ StartOne({[task |-> t, due |-> tasks[t].due, version |-> tasks[t].version]
                            : t \in batch})
           \/ EndTick
    /\ UNCHANGED <<runs, unconfirmed, edits, naming>> /\ Stored

\* The task started before has been dispatched.
StartNext ==
    /\ ticking = "starting" /\ ~Starting
    /\ StartOne(due) \/ EndTick
    /\ UNCHANGED <<runs, recovered, unconfirmed, edits, naming>> /\ Stored

-----------------------------------------------------------------------------
(* The service and what surrounds it *)

Start ==
    /\ service = "down"
    /\ service' = "running"
    /\ UNCHANGED <<now, tasks, runs, volatile>>

\* stop(): the clock closes, late names are dropped; it awaits tick and dispatches.
Stop ==
    /\ service = "running"
    /\ service' = "stopping"
    /\ naming' = {}
    /\ UNCHANGED <<now, tasks, runs, dispatching, edits>> /\ TickStays

\* The process ends, or the service and all it remembers are replaced by a new one.
Down ==
    /\ service' = "down"
    /\ ticking' = "idle" /\ recovered' = FALSE
    /\ unconfirmed' = {} /\ due' = {}
    /\ dispatching' = [t \in Tasks |-> Idle]
    /\ edits' = [c \in Callers |-> Idle]
    /\ naming' = {}

Stopped ==
    /\ service = "stopping"
    /\ ticking = "idle" /\ \A t \in Tasks : dispatching[t] = Idle
    /\ Down
    /\ UNCHANGED <<now, tasks, runs>>

\* The application dies.  A turn the agent had not yet written down is lost with it.
Crash ==
    /\ service # "down"
    /\ Down
    /\ \E lost \in SUBSET {i \in Prepared : runs[i].turn = "queued"} :
        runs' = [i \in DOMAIN runs |->
                    IF i \in lost THEN [runs[i] EXCEPT !.turn = "lost"] ELSE runs[i]]
    /\ UNCHANGED <<now, tasks>>

Pass ==
    /\ now < MaxTime
    /\ now' = now + 1
    /\ UNCHANGED <<tasks, runs, service, volatile>>

DispatchStep(t) ==
    \/ PassBlockReason(t)
    \/ ClockAnswers(t)
    \/ DispatchThrows(t)
    \/ Admit(t)
    \/ Accept(t)
    \/ Refuse(t)
    \/ UpdateRefuses(t)
    \/ SubmitFails(t)

TickStep == Tick \/ LookUp \/ Reconcile \/ ListDue \/ StartNext

Next ==
    \/ \E c \in Callers, t \in Tasks, d \in Definitions : BeginSave(c, t, d)
    \/ \E c \in Callers, t \in Tasks : BeginResume(c, t)
    \/ \E c \in Callers : EndSave(c) \/ EndResume(c) \/ FailEdit(c)
    \/ \E t \in Tasks : Pause(t) \/ Delete(t) \/ PauseSession(t) \/ GenerateName(t)
    \/ \E t \in Tasks : RunNow(t) \/ DispatchStep(t)
    \/ TickStep
    \/ Start \/ Stop \/ Stopped \/ Crash
    \/ Pass

Spec == Init /\ [][Next]_vars

\* The awaited calls have timeouts and settle, and the interval timer keeps ticking.
Fairness ==
    /\ \A t \in Tasks : WF_vars(DispatchStep(t))
    /\ WF_vars(TickStep)
    /\ WF_vars(Stopped)

FairSpec == Spec /\ Fairness

-----------------------------------------------------------------------------
(* Properties *)

Scheduled == {i \in DOMAIN runs : runs[i].trigger = "scheduled"}
Started == {i \in Scheduled : runs[i].turn # "none"}
LastRun(i) == \A j \in DOMAIN runs : runs[j].task = runs[i].task => j <= i
Settled(i) == runs[i].state # "prepared"

\* Every variable has its type, the tick and the dispatches fit together: at most one
\* dispatch is the tick's, and each one that has claimed owns the record it will settle.
AutomationsInv ==
    /\ TypeOK
    /\ ticking # "starting" => due = {} /\ ~Starting
    /\ ticking \notin {"recovering", "found", "missing"} => unconfirmed = {}
    /\ \A t \in Tasks : dispatching[t].pc \in {"submit", "queued"} =>
        /\ dispatching[t].run \in DOMAIN runs
        /\ runs[dispatching[t].run].task = t
        /\ runs[dispatching[t].run].version = dispatching[t].task.version
    /\ \A t, u \in Tasks :
        /\ dispatching[t] # Idle /\ dispatching[t].trigger = "scheduled"
        /\ dispatching[u] # Idle /\ dispatching[u].trigger = "scheduled"
        => t = u

\* A calendar time of one version of a plan starts at most one scheduled turn: not
\* twice because the plan was not moved on, because an opportunity that was used is
\* given back, or because a crash fell between claim() and the answer of submit().
NoDoubleStart ==
    \A i, j \in Started :
        /\ i # j
        /\ runs[i].task = runs[j].task /\ runs[i].nominal = runs[j].nominal
        /\ runs[i].definition.kind # "interval"
        => runs[i].version # runs[j].version

\* Two turns a plan starts by itself are at least a minute apart, whatever is
\* edited, refused, given back or restarted in between.
StartsAreSpaced ==
    \A i, j \in Started :
        i < j /\ runs[i].task = runs[j].task => runs[j].at - runs[i].at >= 1

\* A record that says failed belongs to no turn, so its opportunity may be given
\* back; one that says accepted belongs to one, also after reconciliation.
RecordsAreTruthful ==
    \A i \in DOMAIN runs :
        /\ runs[i].state = "failed" => runs[i].turn = "none"
        /\ runs[i].state = "accepted" => runs[i].turn # "none"

\* A scheduled start that failed leaves the plan due for the same nominal time until
\* someone edits it or starts it again.
OpportunityKept ==
    \A i \in Scheduled :
        LET task == tasks[runs[i].task] IN
        runs[i].state = "failed" /\ LastRun(i) /\ task.version = runs[i].version
        => task.status = "active" /\ task.nominal = runs[i].nominal

\* A turn enters the scheduler's queue only while the service runs and the plan is
\* the one that was claimed: not edited, deleted or paused since, although submit()
\* awaits in between.
TurnsAreWanted ==
    [][\A i \in DOMAIN runs :
        runs[i].turn = "none" /\ runs'[i].turn = "queued"
        => /\ service = "running"
           /\ tasks[runs[i].task].version = runs[i].version
           /\ tasks[runs[i].task].status # "deleted"
           /\ runs[i].trigger = "scheduled" => tasks[runs[i].task].status # "paused"]_vars

\* No run stays prepared: as long as the service runs with an agent that answers, its
\* own dispatch or, after a crash, the reconciliation settles it.
RunsSettle ==
    \A i \in 1..MaxRuns :
        (i \in Prepared) ~> (i \notin Prepared \/ service = "down")

\* stop() ends: neither a clock that was closed under a dispatch nor a tick or a manual
\* run that is under way keeps the application from quitting.
StopEnds == (service = "stopping") ~> (service = "down")

\* The tick starts a plan only at or after the time it is due
\* (docs/desktop/automations.md: at its time the Gateway submits the prompt).
ScheduledWhenDue ==
    [][\A i \in DOMAIN runs' \ DOMAIN runs :
        runs'[i].trigger = "scheduled" => tasks[runs'[i].task].due <= now]_vars

\* A scheduled start that the scheduler turned down consumed no turn and leaves the
\* plan where it was (the comment in dispatch(): a failed admission retains the single
\* scheduled opportunity).
RefusalKeepsThePlan ==
    [][\A t \in Tasks :
        (Refuse(t) \/ UpdateRefuses(t)) /\ Current(t) /\ dispatching[t].trigger = "scheduled"
        => /\ tasks'[t].nominal = dispatching[t].task.nominal
           /\ tasks'[t].status = dispatching[t].task.status]_vars
=============================================================================
