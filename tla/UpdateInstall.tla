---------------------------- MODULE UpdateInstall ----------------------------
(***************************************************************************)
(* The update of the application: DesktopUpdateService with its single     *)
(* operation, prepareUpdate() with the user's confirmation and the fence   *)
(* around the scheduler, the cleanup before the installer is launched and  *)
(* the recovery when it is not.  Tasks are admitted, steered, requeued and *)
(* end at any time; the server may publish, pause and refuse.              *)
(*                                                                         *)
(* A task has a session of its own.  The installer and the server answer   *)
(* as they like; what a file contains is whether its verification passes.  *)
(***************************************************************************)
EXTENDS Integers

CONSTANTS
    MaxTasks,       \* bound: tasks admitted or requeued
    MaxReleases     \* bound: releases published

UpdateAssumption == MaxTasks \in Nat /\ MaxReleases \in Nat \ {0}

Tasks == 1..MaxTasks
Releases == 1..MaxReleases

VARIABLES
    published,  \* the last release published
    paused,     \* the channel is paused
    phase,      \* value.phase of the service
    release,    \* value.release, 0 without one
    file,       \* the release of which a file is ready, 0 without one
    op,         \* the single operation: where it stands and what it was asked for
    installing,
    approved,   \* the tasks of the last snapshot the user confirmed
    fenced,     \* updateFenced
    task,       \* the scheduler's jobs
    origin,     \* the admitted job of which a requeued one carries on the steering
    steered,    \* jobs with steering that was accepted and not consumed
    discard,    \* discardSteeringAfterUpdate
    gateway     \* "up", "stopped", or "stuck" when its process may still run

server == <<published, paused>>
service == <<phase, release, file, op, installing, approved>>
scheduler == <<task, origin, steered, discard>>
vars == <<server, service, fenced, scheduler, gateway>>

-----------------------------------------------------------------------------
NoOp == [at |-> "none", target |-> 0]
At(step) == op.at = step
Step(step) == op' = [op EXCEPT !.at = step]

\* latest(): the release the server offers now.
Offered == IF paused THEN 0 ELSE published

Waiting == {t \in Tasks : task[t] = "queued"}
Running == {t \in Tasks : task[t] \in {"active", "stopping"}}
Admitting == {t \in Tasks : task[t] = "admitting"}

\* updateTasks(): what the scheduler reports, the jobs still being admitted excepted.
Snapshot == Waiting \cup Running

Init ==
    /\ published = 1 /\ paused = FALSE
    /\ phase = "idle" /\ release = 0 /\ file = 0
    /\ op = NoOp /\ installing = FALSE
    /\ approved = {} /\ fenced = FALSE
    /\ task = [t \in Tasks |-> "none"]
    /\ origin = [t \in Tasks |-> t]
    /\ steered = {} /\ discard = {}
    /\ gateway = "up"

-----------------------------------------------------------------------------
(* The server (external) *)

Publish ==
    /\ published < MaxReleases
    /\ published' = published + 1 /\ paused' = FALSE
    /\ UNCHANGED <<service, fenced, scheduler, gateway>>

Pause ==
    /\ ~paused /\ paused' = TRUE
    /\ UNCHANGED <<published, service, fenced, scheduler, gateway>>

-----------------------------------------------------------------------------
(* The scheduler, as far as an update touches it *)

Fresh(t) == task[t] = "none" /\ \A u \in 1..(t - 1) : task[u] # "none"
Set(t, state) == task' = [task EXCEPT ![t] = state]

Admit(t) ==
    /\ Fresh(t) /\ gateway = "up" /\ ~fenced
    /\ Set(t, "admitting")
    /\ UNCHANGED <<server, service, fenced, origin, steered, discard, gateway>>

\* A fence that goes up meanwhile stops only what asked for an idle session.
Admitted(t) ==
    /\ task[t] = "admitting"
    /\ Set(t, "queued") \/ Set(t, "refused")
    /\ UNCHANGED <<server, service, fenced, origin, steered, discard, gateway>>

Start(t) ==
    /\ task[t] = "queued" /\ gateway = "up" /\ ~fenced
    /\ Set(t, "active")
    /\ UNCHANGED <<server, service, fenced, origin, steered, discard, gateway>>

Steer(t) ==
    /\ task[t] = "active" /\ ~fenced /\ t \notin steered
    /\ steered' = steered \cup {t}
    /\ UNCHANGED <<server, service, fenced, task, origin, discard, gateway>>

Consume(t) ==
    /\ t \in steered
    /\ steered' = steered \ {t}
    /\ UNCHANGED <<server, service, fenced, task, origin, discard, gateway>>

\* A turn ends, cancelled or not.  Steering it did not consume comes back as a job of
\* its own, unless it was cancelled or an update has begun to cancel it.
End(t) ==
    /\ t \in Running
    /\ \/ /\ task[t] = "stopping" /\ Set(t, "cancelled")
          /\ UNCHANGED origin
       \/ /\ t \notin steered \/ t \in discard
          /\ Set(t, "done")
          /\ UNCHANGED origin
       \/ /\ t \in steered \ discard
          /\ \E u \in Tasks :
               /\ Fresh(u)
               /\ task' = [task EXCEPT ![t] = "done", ![u] = "queued"]
               /\ origin' = [origin EXCEPT ![u] = origin[t]]
    /\ steered' = steered \ {t} /\ discard' = discard \ {t}
    /\ UNCHANGED <<server, service, fenced, gateway>>

-----------------------------------------------------------------------------
(* DesktopUpdateService *)

\* run(): an operation that is asked for while another one runs is that other one.
MayBegin == op = NoOp /\ ~installing

OpEnds(p) == op' = NoOp /\ phase' = p

Check ==
    /\ MayBegin
    /\ op' = [at |-> "checking", target |-> 0] /\ phase' = "checking"
    /\ UNCHANGED <<server, release, file, installing, approved, fenced, scheduler, gateway>>

CheckAnswered ==
    /\ At("checking")
    /\ \/ OpEnds("error") /\ UNCHANGED <<release, file>>
       \/ /\ release' = Offered
          /\ file' = IF release' = 0 \/ release' # release THEN 0 ELSE file
          /\ OpEnds(IF release' = 0 THEN "idle" ELSE IF file' # 0 THEN "ready" ELSE "available")
    /\ UNCHANGED <<server, installing, approved, fenced, scheduler, gateway>>

\* download(): only what the user saw and the server still offers.
Download(target) ==
    /\ MayBegin
    /\ IF target = release THEN op' = [at |-> "downloading", target |-> target] /\ UNCHANGED <<phase, file>>
       ELSE OpEnds("error") /\ file' = 0
    /\ UNCHANGED <<server, release, installing, approved, fenced, scheduler, gateway>>

DownloadAnswered ==
    /\ At("downloading")
    /\ IF Offered # release THEN OpEnds("error") /\ file' = 0
       ELSE Step("fetching") /\ phase' = "downloading" /\ file' = 0
    /\ UNCHANGED <<server, release, installing, approved, fenced, scheduler, gateway>>

\* Two tickets at most, the download, and the verification of its file.
DownloadEnds ==
    /\ At("fetching")
    /\ \/ OpEnds("error") /\ file' = 0
       \/ OpEnds("ready") /\ file' = release
    /\ UNCHANGED <<server, release, installing, approved, fenced, scheduler, gateway>>

\* install(): up to the confirmation of the user.
Install(target) ==
    /\ MayBegin
    /\ IF target = release /\ file # 0
       THEN op' = [at |-> "authorizing", target |-> target] /\ phase' = "preparing"
       ELSE OpEnds("error")
    /\ UNCHANGED <<server, release, file, installing, approved, fenced, scheduler, gateway>>

Fails == OpEnds("error") /\ UNCHANGED <<installing, approved>>

\* The server offers the release and the file is verified: the user is asked.
Authorized ==
    /\ At("authorizing")
    /\ \/ Fails
       \/ Offered = release /\ Step("confirming") /\ approved' = Snapshot /\ UNCHANGED <<phase, installing>>
    /\ UNCHANGED <<server, release, file, fenced, scheduler, gateway>>

Declined ==
    /\ At("confirming")
    /\ OpEnds("ready")
    /\ UNCHANGED <<server, release, file, installing, approved, fenced, scheduler, gateway>>

\* The user agrees: the fence goes up, which fails when the runtime is not ready.
Confirmed ==
    /\ At("confirming")
    /\ \/ Fails /\ UNCHANGED fenced
       \/ Step("settling") /\ fenced' = TRUE /\ UNCHANGED <<phase, installing, approved>>
    /\ UNCHANGED <<server, release, file, scheduler, gateway>>

\* Fault: the second snapshot is not compared with what the user saw.
SettledUnseen ==
    /\ At("settling")
    /\ \/ Fails /\ fenced' = FALSE
       \/ /\ Admitting = {}
          /\ Step("reauthorizing") /\ UNCHANGED <<phase, installing, approved, fenced>>
    /\ UNCHANGED <<server, release, file, scheduler, gateway>>

\* settleUpdateAdmissions() and the second snapshot: what the user has not seen is
\* shown to him, behind a fence that is down.  Waiting for admissions has a deadline.
Settled ==
    /\ At("settling")
    /\ \/ Fails /\ fenced' = FALSE
       \/ /\ Admitting = {} /\ ~(Snapshot \subseteq approved)
          /\ fenced' = FALSE /\ approved' = Snapshot
          /\ Step("confirming") /\ UNCHANGED <<phase, installing>>
       \/ /\ Admitting = {} /\ Snapshot \subseteq approved
          /\ Step("reauthorizing") /\ UNCHANGED <<phase, installing, approved, fenced>>
    /\ UNCHANGED <<server, release, file, scheduler, gateway>>

\* The release is still offered after the dialog: cancelForUpdate() begins.
Reauthorized ==
    /\ At("reauthorizing")
    /\ \/ Fails /\ fenced' = FALSE /\ UNCHANGED <<task, discard>>
       \/ /\ Offered = release
          /\ Step("cancelling")
          /\ discard' = discard \cup Running
          /\ task' = [t \in Tasks |-> IF t \in Waiting THEN "cancelled"
                                      ELSE IF t \in Running THEN "stopping" ELSE task[t]]
          /\ UNCHANGED <<phase, installing, approved, fenced>>
    /\ UNCHANGED <<server, release, file, origin, steered, gateway>>

\* A failure of the cleanup or of the launch: the fence is lifted, and what was stopped
\* is started again unless its process may still run or it does not start.
Recovers ==
    /\ OpEnds("error") /\ installing' = FALSE /\ fenced' = FALSE
    /\ IF gateway = "stopped" THEN gateway' \in {"up", "stopped"} ELSE UNCHANGED gateway
    /\ UNCHANGED approved

\* cancelForUpdate() and the other services; cancellations may be refused, and those
\* turns run on.
Cancelled ==
    /\ At("cancelling")
    /\ \/ /\ Recovers
          /\ \E refused \in SUBSET Running :
               task' = [t \in Tasks |-> IF t \in refused THEN "active" ELSE task[t]]
          /\ UNCHANGED <<origin, steered, discard>>
       \/ /\ Step("stopping")
          /\ UNCHANGED <<phase, installing, approved, fenced, scheduler, gateway>>
    /\ UNCHANGED <<server, release, file>>

\* gateway.stop(true): it waits for the turns and ends the process.  What is queued
\* then is gone with the scheduler.
GatewayStops ==
    /\ At("stopping") /\ gateway = "up" /\ Running = {}
    /\ gateway' \in {"stopped", "stuck"}
    /\ task' = [t \in Tasks |-> IF task[t] \in {"queued", "admitting"} THEN "lost" ELSE task[t]]
    /\ UNCHANGED <<server, service, fenced, origin, steered, discard>>

\* The cleanup fails, strictly, or the installer is launched.
Stopped ==
    /\ At("stopping") /\ gateway # "up"
    /\ \/ Recovers /\ UNCHANGED scheduler
       \/ /\ gateway = "stopped"
          /\ Step("launching") /\ phase' = "installing" /\ installing' = TRUE
          /\ UNCHANGED <<approved, fenced, scheduler, gateway>>
    /\ UNCHANGED <<server, release, file>>

Launched ==
    /\ At("launching")
    /\ \/ Recovers /\ UNCHANGED scheduler
       \/ /\ OpEnds("installing")
          /\ UNCHANGED <<installing, approved, fenced, scheduler, gateway>>
    /\ UNCHANGED <<server, release, file>>

Next ==
    \/ Publish \/ Pause
    \/ \E t \in Tasks : Admit(t) \/ Admitted(t) \/ Start(t) \/ Steer(t) \/ Consume(t) \/ End(t)
    \/ Check \/ CheckAnswered
    \/ \E target \in Releases : Download(target) \/ Install(target)
    \/ DownloadAnswered \/ DownloadEnds
    \/ Authorized \/ Declined \/ Confirmed \/ Settled \/ Reauthorized
    \/ Cancelled \/ GatewayStops \/ Stopped \/ Launched

Spec == Init /\ [][Next]_vars

-----------------------------------------------------------------------------
TypeOK ==
    /\ published \in Releases /\ paused \in BOOLEAN
    /\ phase \in {"idle", "checking", "available", "downloading", "ready", "preparing",
                  "installing", "error"}
    /\ release \in 0..MaxReleases /\ file \in 0..MaxReleases
    /\ installing \in BOOLEAN /\ fenced \in BOOLEAN
    /\ task \in [Tasks -> {"none", "admitting", "refused", "queued", "active", "stopping",
                           "done", "cancelled", "lost"}]
    /\ origin \in [Tasks -> Tasks]
    /\ approved \subseteq Tasks /\ steered \subseteq Tasks /\ discard \subseteq Tasks
    /\ gateway \in {"up", "stopped", "stuck"}

\* The fence is up exactly while an installation needs it: a path that does not end in a
\* launched installer takes it down, however it fails, and the tasks go on.
FenceIsLifted ==
    fenced = (installing \/ op.at \in {"settling", "reauthorizing", "cancelling", "stopping"})

\* The installer runs on a machine at rest, with the file of the release the user
\* confirmed; no job is dropped silently with the scheduler.
InstallsAtRest ==
    /\ installing =>
         /\ gateway = "stopped" /\ Running \cup Waiting \cup Admitting = {}
         /\ file = release
         /\ At("launching") => op.target = release
    /\ \A t \in Tasks : task[t] # "lost"

\* An update cancels what the user confirmed, or steering of it that came back.
OnlyKnownWorkIsStopped ==
    op'.at = "cancelling" /\ op.at # "cancelling" =>
      \A t \in Tasks : task'[t] # task[t] => origin[t] \in {origin[u] : u \in approved}

\* Steering a turn accepted is not lost (session_scheduler_cancellation.md) where no
\* update is under way and no cancellation of the turn is: what the turn did not consume
\* comes back as a job.
SteeringIsKept ==
    \A t \in steered : task[t] = "active" /\ task'[t] = "done" /\ ~fenced =>
      \E u \in Tasks : task[u] = "none" /\ task'[u] = "queued" /\ origin'[u] = origin[t]

\* No step of the scheduler loses steering (scheduler.ts, handleRuntimeEvent and cancelForUpdate).
KeepsSteering == [][SteeringIsKept]_vars
=============================================================================
