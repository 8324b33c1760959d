--------------------------- MODULE CloudEnrollment ---------------------------
(***************************************************************************)
(* The company cloud of the desktop application: which device this machine *)
(* is enrolled as, what the device may do, and how both get to the agent.  *)
(* An enrolment that replaces another takes the permissions away, replaces *)
(* the tunnel, and is written down before and after, so that a crash in    *)
(* between leaves no half of either; checks of the permissions, a device   *)
(* the user has to confirm, a retry of the tunnel and a cleared cache of   *)
(* models come at any time.                                                *)
(*                                                                         *)
(* Permissions, credentials and tunnels are named by the device they       *)
(* belong to.  The service is single-threaded: a step goes from one await  *)
(* to the next.                                                            *)
(***************************************************************************)
EXTENDS Integers

CONSTANTS
    Devices,
    None,          \* no device
    Enrolled,      \* the device this machine is enrolled as to begin with, or None
    Imports,       \* enrolment files: [device, existing], existing ones have a tunnel already
    MaxFaults      \* bound: crashes and calls that fail

CloudEnrollmentAssumption ==
    /\ None \notin Devices /\ Enrolled \in Devices \cup {None}
    /\ Imports \subseteq [device : Devices, existing : BOOLEAN]
    /\ MaxFaults \in Nat

\* Who runs syncSkillPermission().
Owners == {"round", "confirmation", "activation"}

VARIABLES
    disk,          \* settings.json (dev, sw) and secrets.bin (the rest)
    tunnel,        \* the device of the tunnel the system has
    perm,          \* permissionSnapshot
    pending,       \* pendingDevice
    act,           \* activateOnce(): where it stands and what it works on
    sync,          \* sync[o]: where a check of the permissions stands
    reconnecting,  \* the tunnel that reconnect() is putting up
    stopped,
    agent,         \* the gateway's agent: allowedSkillTypes of its runtime, and what it has
    torn,          \* history: a crash has left the secrets of one device, the settings of another
    crossed,       \* history: a file was imported while a tunnel was being put up again, or
                   \* after a switch that could not be undone
    missed,        \* history: permissions changed while the agent was being initialised, or
                   \* an import with a tunnel of its own ended before the agent was told
    cleared,       \* history: the models were cleared, and nobody has asked for them since
    faults

vars == <<disk, tunnel, perm, pending, act, sync, reconnecting, stopped, agent, torn, crossed,
          missed, cleared, faults>>

Written(d, wg) == [dev |-> d, sw |-> FALSE, key |-> d, snap |-> None, seen |-> None,
                   llm |-> None, wg |-> wg]
Quiet == [at |-> "idle", dev |-> None, want |-> None, got |-> None, live |-> FALSE,
          fresh |-> FALSE]
Inactive == [at |-> "idle", dev |-> None, existing |-> FALSE, prev |-> None,
             switched |-> FALSE, awaits |-> "activation"]
Gone == [life |-> "none", allowed |-> None, has |-> None]

Init ==
    /\ disk = [Written(Enrolled, Enrolled) EXCEPT !.snap = Enrolled, !.seen = Enrolled,
                                                  !.llm = Enrolled]
    /\ tunnel = Enrolled /\ perm = Enrolled /\ pending = None
    /\ act = Inactive /\ sync = [o \in Owners |-> Quiet]
    /\ reconnecting = None /\ stopped = FALSE
    /\ agent = Gone
    /\ torn = FALSE /\ crossed = FALSE /\ missed = FALSE /\ cleared = FALSE
    /\ faults = 0

Fault == faults < MaxFaults /\ faults' = faults + 1
At(place) == act.at = place
To(place) == act' = [act EXCEPT !.at = place]
Syncs(o, place) == sync[o].at = place
SyncTo(o, place) == sync' = [sync EXCEPT ![o].at = place]

\* cancelContext(), which cancels what the models are asked as well.
Cancelled == [o \in Owners |-> [sync[o] EXCEPT !.live = FALSE, !.fresh = FALSE]]
Uncached == [o \in Owners |-> [sync[o] EXCEPT !.fresh = FALSE]]

-----------------------------------------------------------------------------
\* gateway.updateSkillPermissions(): the runtime remembers them and tells an agent that is
\* ready; one that is being initialised has been told the old ones.
Tell(d) ==
    /\ agent' = IF agent.life = "none" \/ agent.allowed = d THEN agent
                ELSE [agent EXCEPT !.allowed = d,
                                   !.has = IF agent.life = "ready" THEN d ELSE @]
    /\ missed' = (missed \/ (agent.life = "initializing" /\ agent.allowed # d))

Untold == UNCHANGED <<agent, missed>>

\* The answer does not come, and the agent cannot be started again either.
TellFails ==
    /\ Fault
    /\ agent' = [agent EXCEPT !.life = IF @ = "none" THEN @ ELSE "down"]
    /\ missed' = FALSE

\* The models are told next, and failing there leaves the agent as it is.
TellingModelsFails == Fault /\ UNCHANGED <<agent, missed>>

\* gateway.restart(): a new runtime is given the permissions of the moment.  One step, as
\* nothing changes them while an enrolment waits for it.
GatewayRestarts ==
    /\ agent' = [life |-> "ready", allowed |-> perm, has |-> perm]
    /\ missed' = FALSE
    /\ UNCHANGED faults

GatewayFails == Fault /\ agent' = Gone /\ missed' = FALSE

-----------------------------------------------------------------------------
\* syncSkillPermission() by o: it stays current until another one, a new enrolment, a
\* cleared cache or a stop cancels it.
Begins(o, want) ==
    /\ sync' = [Cancelled EXCEPT ![o] = [Quiet EXCEPT
                    !.at = "query", !.dev = disk.dev, !.want = want, !.live = TRUE]]
    /\ cleared' = FALSE
Asks == ~stopped /\ ~disk.sw
Current(o) == sync[o].live /\ ~stopped /\ ~disk.sw /\ disk.dev = sync[o].dev
Ends(o) == sync' = [sync EXCEPT ![o] = Quiet]

\* A check, by the timer or by the user: one at a time, and none during an enrolment.
Check ==
    /\ At("idle") /\ Syncs("confirmation", "idle") /\ Syncs("round", "idle") /\ Asks
    /\ Begins("round", None)
    /\ UNCHANGED <<disk, tunnel, perm, pending, act, reconnecting, stopped, agent, torn,
                   crossed, missed, faults>>

\* confirmDevice(): the user confirms the device that is shown, after the check that runs.
ConfirmDevice ==
    /\ Syncs("confirmation", "idle") /\ At("idle") /\ disk.dev = None /\ pending # None
    /\ sync' = [Cancelled EXCEPT !["confirmation"] = [Quiet EXCEPT
                    !.at = "waiting", !.want = pending]]
    /\ UNCHANGED <<disk, tunnel, perm, pending, act, reconnecting, stopped, agent, torn,
                   crossed, missed, cleared, faults>>

Confirms ==
    /\ Syncs("confirmation", "waiting") /\ Syncs("round", "idle")
    /\ IF At("idle") /\ disk.dev = None /\ Asks
       THEN Begins("confirmation", sync["confirmation"].want)
       ELSE Ends("confirmation") /\ UNCHANGED cleared
    /\ UNCHANGED <<disk, tunnel, perm, pending, act, reconnecting, stopped, agent, torn,
                   crossed, missed, faults>>

\* A device nobody has confirmed while another one is known, or is waiting to be.
Unconfirmed(o, d) ==
    /\ disk.dev = None /\ (pending # None \/ disk.seen \notin {None, d})
    /\ sync[o].want # d

\* native.failed() of a denial forgets the models as well.
Denied(o) == disk' = [disk EXCEPT !.llm = None]
             /\ sync' = [Uncached EXCEPT ![o].at = "denying"]

\* The server names the device this machine is: acceptPermission(), or a device to confirm.
Answer(o, d) ==
    /\ Syncs(o, "query")
    /\ disk.dev # None => d = disk.dev
    /\ IF ~Current(o)
       THEN Ends(o) /\ Untold /\ UNCHANGED <<disk, perm, pending>>
       ELSE IF Unconfirmed(o, d)
       THEN Denied(o) /\ pending' = d /\ Untold /\ UNCHANGED perm
       ELSE /\ disk' = [disk EXCEPT !.snap = d, !.seen = d]
            /\ perm' = d
            /\ sync' = [sync EXCEPT ![o].at = "accepting", ![o].got = d]
            /\ IF perm = d THEN Untold ELSE Tell(d)
            /\ UNCHANGED pending
    /\ UNCHANGED <<tunnel, act, reconnecting, stopped, torn, crossed, cleared, faults>>

\* It does not answer, which changes nothing, or it denies the device.
Unanswered(o) ==
    /\ Syncs(o, "query") /\ Ends(o)
    /\ UNCHANGED <<disk, tunnel, perm, pending, act, reconnecting, stopped, agent, torn,
                   crossed, missed, cleared, faults>>
Refused(o) ==
    /\ Syncs(o, "query") /\ Current(o) /\ Denied(o)
    /\ UNCHANGED <<tunnel, perm, pending, act, reconnecting, stopped, agent, torn, crossed,
                   missed, cleared, faults>>

\* The agent was told: on to the models, whose cache belongs to one device.
Accepted(o) ==
    /\ Syncs(o, "accepting")
    /\ pending' = None
    /\ IF Current(o)
       THEN /\ sync' = [Uncached EXCEPT ![o].at = "models", ![o].fresh = TRUE]
            /\ disk' = [disk EXCEPT !.llm = IF @ = sync[o].got THEN @ ELSE None]
       ELSE Ends(o) /\ UNCHANGED disk
    /\ UNCHANGED <<tunnel, perm, act, reconnecting, stopped, agent, torn, crossed, missed,
                   cleared, faults>>

\* The catch of syncSkillPermission(): the next check tries again.
AcceptingFails(o) ==
    /\ Syncs(o, "accepting") /\ agent.life # "none" /\ TellFails
    /\ Ends(o)
    /\ UNCHANGED <<disk, tunnel, perm, pending, act, reconnecting, stopped, torn, crossed,
                   cleared>>

\* NativeCloudAccess.sync(): an answer that is still wanted is saved.
Models(o) ==
    /\ Syncs(o, "models")
    /\ disk' = IF sync[o].fresh THEN [disk EXCEPT !.llm = sync[o].got] ELSE disk
    /\ Ends(o)
    /\ UNCHANGED <<tunnel, perm, pending, act, reconnecting, stopped, agent, torn, crossed,
                   missed, cleared, faults>>
NoModels(o) ==
    /\ Syncs(o, "models")
    /\ \/ Ends(o) /\ UNCHANGED disk
       \/ /\ sync[o].fresh
          /\ sync' = [Uncached EXCEPT ![o] = Quiet]
          /\ disk' = [disk EXCEPT !.llm = None]
       \/ sync[o].fresh /\ Denied(o)
    /\ UNCHANGED <<tunnel, perm, pending, act, reconnecting, stopped, agent, torn, crossed,
                   missed, cleared, faults>>

\* After a denial, unless it was cancelled meanwhile, the permissions go.
Denies(o) ==
    /\ Syncs(o, "denying")
    /\ IF Current(o)
       THEN /\ perm' = None /\ disk' = [disk EXCEPT !.snap = None]
            /\ Tell(None) /\ SyncTo(o, "revoking")
       ELSE Ends(o) /\ Untold /\ UNCHANGED <<perm, disk>>
    /\ UNCHANGED <<tunnel, pending, act, reconnecting, stopped, torn, crossed, cleared,
                   faults>>

Revoked(o) ==
    /\ Syncs(o, "revoking") /\ Ends(o)
    /\ UNCHANGED <<disk, tunnel, perm, pending, act, reconnecting, stopped, agent, torn,
                   crossed, missed, cleared, faults>>

\* The agent cannot be told of a denial: who asked for the check gets the error, and an
\* enrolment ends with it.
DenialFails(o) ==
    /\ \/ /\ Syncs(o, "denying") /\ Current(o) /\ Fault
          /\ missed' = (missed \/ (o = "activation" /\ act.existing))
          /\ UNCHANGED agent
       \/ Syncs(o, "revoking") /\ agent.life # "none" /\ TellFails
    /\ Ends(o)
    /\ act' = IF o = "activation" THEN Inactive ELSE act
    /\ UNCHANGED <<disk, tunnel, perm, pending, reconnecting, stopped, torn, crossed,
                   cleared>>

-----------------------------------------------------------------------------
\* activate(): it waits for the check or the confirmation that runs.
Activate(f) ==
    /\ At("idle")
    /\ act' = [Inactive EXCEPT !.at = "waiting", !.dev = f.device, !.existing = f.existing,
                 !.awaits = IF Syncs("confirmation", "idle") THEN "round" ELSE "confirmation"]
    /\ sync' = Cancelled /\ pending' = None
    /\ crossed' = (crossed \/ reconnecting # None)
    /\ UNCHANGED <<disk, tunnel, perm, reconnecting, stopped, agent, torn, missed, cleared,
                   faults>>

\* Fault: the switch is not written down.
SwitchUnwritten == disk

\* The switch is on the disk before anything is taken away.
SwitchBegun == [disk EXCEPT !.sw = TRUE]

Starts ==
    /\ At("waiting") /\ Syncs(act.awaits, "idle")
    /\ IF act.existing
       THEN To("claiming") /\ Untold /\ UNCHANGED <<disk, perm>>
       ELSE IF disk.dev = None
       THEN To("provisioning") /\ Untold /\ UNCHANGED <<disk, perm>>
       ELSE /\ disk' = SwitchBegun
            /\ perm' = None
            /\ act' = [act EXCEPT !.at = "emptying", !.prev = perm, !.switched = TRUE]
            /\ Tell(None)
    /\ crossed' = (crossed \/ disk.sw)
    /\ UNCHANGED <<tunnel, pending, sync, reconnecting, stopped, torn, cleared, faults>>

\* The catch of activateOnce(): a switch is undone as far as the tunnel is still there.
Fails(removed) ==
    act' = IF ~act.switched THEN Inactive
           ELSE [act EXCEPT !.at = IF removed THEN "clearing" ELSE "aborting"]

Emptied ==
    /\ At("emptying")
    /\ To("lowering")
    /\ UNCHANGED <<disk, tunnel, perm, pending, sync, reconnecting, stopped, agent, torn,
                   crossed, missed, cleared, faults>>
EmptyingFails ==
    /\ At("emptying") /\ agent.life # "none" /\ (TellFails \/ TellingModelsFails)
    /\ Fails(FALSE)
    /\ UNCHANGED <<disk, tunnel, perm, pending, sync, reconnecting, stopped, torn, crossed,
                   cleared>>
Lowered ==
    /\ At("lowering")
    /\ \/ GatewayRestarts /\ To("provisioning")
       \/ GatewayFails /\ Fails(FALSE)
    /\ UNCHANGED <<disk, tunnel, perm, pending, sync, reconnecting, stopped, torn, crossed,
                   cleared>>

\* provisioner.provision(), which says whether the old tunnel was removed when it fails.
Provisioned ==
    /\ At("provisioning")
    /\ tunnel' = act.dev /\ To("saving")
    /\ UNCHANGED <<disk, perm, pending, sync, reconnecting, stopped, agent, torn, crossed,
                   missed, cleared, faults>>
ProvisioningFails(removed) ==
    /\ At("provisioning") /\ Fault
    /\ tunnel' = IF removed THEN None ELSE tunnel
    /\ Fails(removed)
    /\ UNCHANGED <<disk, perm, pending, sync, reconnecting, stopped, agent, torn, crossed,
                   missed, cleared>>

\* activateExistingEnrollment(): the server says that the file is for this machine, or not.
Claimed ==
    /\ At("claiming")
    /\ \/ To("saving")
       \/ act' = Inactive
    /\ UNCHANGED <<disk, tunnel, perm, pending, sync, reconnecting, stopped, agent, torn,
                   crossed, missed, cleared, faults>>

Enrolment == Written(act.dev, IF ~act.existing \/ (act.dev = disk.dev /\ disk.wg = act.dev)
                              THEN act.dev ELSE None)

\* saveEnrollment(): from here on the new enrolment stands, whatever fails.
Saves ==
    /\ At("saving")
    /\ disk' = Enrolment /\ perm' = None /\ torn' = FALSE
    /\ IF act.existing \/ act.switched
       THEN Untold /\ To(IF act.existing THEN "syncing" ELSE "verifying")
       ELSE Tell(None) /\ To("withdrawing")
    /\ UNCHANGED <<tunnel, pending, sync, reconnecting, stopped, crossed, cleared, faults>>
SavingFails ==
    /\ At("saving") /\ Fault
    /\ Fails(act.switched)
    /\ UNCHANGED <<disk, tunnel, perm, pending, sync, reconnecting, stopped, agent, torn,
                   crossed, missed, cleared>>

Withdrawn ==
    /\ At("withdrawing")
    /\ \/ To("verifying") /\ UNCHANGED <<agent, missed, faults>>
       \/ agent.life # "none" /\ TellFails /\ To("syncing")
    /\ UNCHANGED <<disk, tunnel, perm, pending, sync, reconnecting, stopped, torn, crossed,
                   cleared>>

\* verifyActivation() tells the server and shows what it says.
Verified ==
    /\ At("verifying") /\ To("syncing")
    /\ UNCHANGED <<disk, tunnel, perm, pending, sync, reconnecting, stopped, agent, torn,
                   crossed, missed, cleared, faults>>

\* The finally of activateOnce(): a check, and a gateway with the new enrolment.
Finishes ==
    /\ At("syncing")
    /\ IF stopped
       THEN /\ act' = Inactive /\ missed' = (missed \/ act.existing)
            /\ UNCHANGED <<sync, cleared>>
       ELSE Begins("activation", None) /\ To("checking") /\ UNCHANGED missed
    /\ UNCHANGED <<disk, tunnel, perm, pending, reconnecting, stopped, agent, torn, crossed,
                   faults>>
Configured ==
    /\ At("checking") /\ Syncs("activation", "idle")
    /\ GatewayRestarts \/ GatewayFails
    /\ act' = Inactive
    /\ UNCHANGED <<disk, tunnel, perm, pending, sync, reconnecting, stopped, torn, crossed,
                   cleared>>

\* A wrong password, or a dependency that is missing.
Rejected ==
    /\ At("waiting") /\ Syncs(act.awaits, "idle")
    /\ act' = Inactive
    /\ UNCHANGED <<disk, tunnel, perm, pending, sync, reconnecting, stopped, agent, torn,
                   crossed, missed, cleared, faults>>

\* The catch of activateOnce(), before the tunnel was touched: the old enrolment stands.
AbortsSwitch ==
    /\ At("aborting")
    /\ disk' = [disk EXCEPT !.sw = FALSE]
    /\ perm' = act.prev /\ Tell(act.prev) /\ To("returning")
    /\ UNCHANGED <<tunnel, pending, sync, reconnecting, stopped, torn, crossed, cleared,
                   faults>>

\* And after it was removed: nothing stands.
ClearsEnrollment ==
    /\ At("clearing")
    /\ disk' = Written(None, None) /\ perm' = None /\ torn' = FALSE /\ To("returning")
    /\ UNCHANGED <<tunnel, pending, sync, reconnecting, stopped, agent, crossed, missed,
                   cleared, faults>>

RecoveryFails ==
    /\ act.at \in {"aborting", "clearing"} /\ Fault
    /\ act' = Inactive
    /\ UNCHANGED <<disk, tunnel, perm, pending, sync, reconnecting, stopped, agent, torn,
                   crossed, missed, cleared>>

Returned ==
    /\ At("returning")
    /\ \/ GatewayRestarts \/ GatewayFails
       \/ agent.life # "none" /\ (TellFails \/ TellingModelsFails)
    /\ act' = Inactive
    /\ UNCHANGED <<disk, tunnel, perm, pending, sync, reconnecting, stopped, torn, crossed,
                   cleared>>

-----------------------------------------------------------------------------
\* clearModelCache(), at any time.
ClearModels ==
    /\ sync' = Cancelled
    /\ disk' = [disk EXCEPT !.llm = None]
    /\ cleared' = TRUE
    /\ UNCHANGED <<tunnel, perm, pending, act, reconnecting, stopped, agent, torn, crossed,
                   missed, faults>>

\* stop(), for an update, and start() when the update is given up.
Stop ==
    /\ ~stopped /\ stopped' = TRUE
    /\ sync' = Cancelled
    /\ UNCHANGED <<disk, tunnel, perm, pending, act, reconnecting, agent, torn, crossed,
                   missed, cleared, faults>>

StartAgain ==
    /\ stopped /\ stopped' = FALSE
    /\ Syncs("round", "idle") /\ Syncs("confirmation", "idle")
    /\ UNCHANGED <<disk, tunnel, perm, pending, act, sync, reconnecting, agent, torn,
                   crossed, missed, cleared, faults>>

\* retry(): the tunnel of this enrolment is put up again, whatever is imported meanwhile.
Reconnect ==
    /\ At("idle") /\ reconnecting = None /\ disk.dev # None /\ disk.wg # None
    /\ reconnecting' = disk.wg
    /\ UNCHANGED <<disk, tunnel, perm, pending, act, sync, stopped, agent, torn, crossed,
                   missed, cleared, faults>>

Reconnected ==
    /\ reconnecting # None
    /\ tunnel' \in {tunnel, reconnecting} /\ reconnecting' = None
    /\ UNCHANGED <<disk, perm, pending, act, sync, stopped, agent, torn, crossed, missed,
                   cleared, faults>>

-----------------------------------------------------------------------------
\* The agent's process, of which this service hears nothing.
AgentChanges(next) == agent' = next /\ UNCHANGED <<disk, tunnel, perm, pending, act, sync,
                          reconnecting, stopped, torn, crossed, cleared, faults>>
AgentDies == agent.life = "ready" /\ AgentChanges([agent EXCEPT !.life = "down"])
             /\ UNCHANGED missed
AgentRelaunches ==
    /\ agent.life = "down" /\ missed' = (missed /\ agent.allowed # perm)
    /\ AgentChanges([agent EXCEPT !.life = "initializing", !.has = agent.allowed])
AgentReady == agent.life = "initializing" /\ AgentChanges([agent EXCEPT !.life = "ready"])
              /\ UNCHANGED missed
GatewayStarts ==
    /\ agent.life = "none" /\ missed' = FALSE
    /\ AgentChanges([life |-> "initializing", allowed |-> perm, has |-> perm])

-----------------------------------------------------------------------------
\* commit() replaces the secrets and then the settings: what a crash leaves of a save.
Halves ==
    IF At("saving") THEN {[Enrolment EXCEPT !.dev = disk.dev, !.sw = disk.sw]}
    ELSE IF At("clearing") THEN {[Written(None, None) EXCEPT !.dev = disk.dev, !.sw = TRUE]}
    ELSE {}

\* The constructor: an enrolment that was interrupted is cleared, and the permissions of
\* this device are read.
Recovered(d) == IF d.sw THEN Written(None, None) ELSE d
PermissionOf(d) == IF d.snap = d.seen /\ d.dev \in {None, d.snap} THEN d.snap ELSE None

Crash ==
    /\ Fault
    /\ \E d \in {disk} \cup Halves :
          /\ disk' = Recovered(d) /\ perm' = PermissionOf(Recovered(d))
          /\ torn' = (~d.sw /\ (torn \/ (d # disk /\ act.existing /\ disk.dev # None)))
    /\ tunnel' \in {tunnel} \cup (IF At("provisioning") THEN {None, act.dev} ELSE {})
                  \cup (IF reconnecting # None THEN {reconnecting} ELSE {})
    /\ pending' = None /\ act' = Inactive /\ sync' = [o \in Owners |-> Quiet]
    /\ reconnecting' = None /\ stopped' = FALSE
    /\ agent' = Gone /\ missed' = FALSE
    /\ UNCHANGED <<crossed, cleared>>

Next ==
    \/ Check \/ ConfirmDevice \/ Confirms
    \/ \E o \in Owners :
          \/ \E d \in Devices : Answer(o, d)
          \/ Unanswered(o) \/ Refused(o) \/ Accepted(o) \/ AcceptingFails(o)
          \/ Models(o) \/ NoModels(o) \/ Denies(o) \/ Revoked(o) \/ DenialFails(o)
    \/ \E f \in Imports : Activate(f)
    \/ Rejected \/ Starts \/ Emptied \/ EmptyingFails \/ Lowered
    \/ Provisioned \/ (\E removed \in BOOLEAN : ProvisioningFails(removed)) \/ Claimed
    \/ Saves \/ SavingFails \/ Withdrawn \/ Verified \/ Finishes \/ Configured
    \/ AbortsSwitch \/ ClearsEnrollment \/ RecoveryFails \/ Returned
    \/ ClearModels \/ Stop \/ StartAgain \/ Reconnect \/ Reconnected
    \/ AgentDies \/ AgentRelaunches \/ AgentReady \/ GatewayStarts
    \/ Crash

Spec == Init /\ [][Next]_vars

-----------------------------------------------------------------------------
Device == Devices \cup {None}

TypeOK ==
    /\ disk \in [dev : Device, sw : BOOLEAN, key : Device, snap : Device, seen : Device,
                 llm : Device, wg : Device]
    /\ {tunnel, perm, pending, reconnecting} \subseteq Device
    /\ act \in [at : {"idle", "waiting", "emptying", "lowering", "provisioning", "claiming",
                      "saving", "withdrawing", "verifying", "syncing", "checking",
                      "aborting", "clearing", "returning"},
                dev : Device, existing : BOOLEAN, prev : Device, switched : BOOLEAN,
                awaits : Owners]
    /\ sync \in [Owners -> [at : {"idle", "waiting", "query", "accepting", "models",
                                  "denying", "revoking"},
                            dev : Device, want : Device, got : Device,
                            live : BOOLEAN, fresh : BOOLEAN]]
    /\ agent \in [life : {"none", "initializing", "ready", "down"}, allowed : Device,
                  has : Device]
    /\ {stopped, torn, crossed, missed, cleared} \subseteq BOOLEAN
    /\ faults \in 0..MaxFaults

\* An enrolment that is shown is whole: credential, permissions, models and tunnel are those
\* of its device, wherever a crash or a failure came, but for a crash in an import that has
\* a tunnel of its own (torn); and for the tunnel, one that was being put up when a file
\* was imported, or was lost in a switch that could not be undone (crossed).
BindingIsWhole ==
    ~disk.sw /\ ~torn =>
        IF disk.dev = None THEN {disk.snap, disk.llm} \subseteq {None, disk.seen}
        ELSE /\ disk.key = disk.dev
             /\ {disk.snap, disk.seen, disk.llm} \subseteq {None, disk.dev}
             /\ disk.wg # None /\ ~crossed => tunnel = disk.wg

\* The permissions in force are the saved ones, and of the device this machine is.
PermissionsAreOurs ==
    perm # None => perm = disk.snap /\ disk.dev \in {None, perm} /\ ~disk.sw

\* While the tunnel is being replaced nobody has permissions, the agent included.
NoGrantsInSwitch ==
    At("provisioning") /\ act.switched =>
        perm = None /\ (agent.life = "ready" => agent.has = None)

\* When nothing is under way the agent has the permissions in force, unless they changed
\* while it was being initialised.
AgentFollows ==
    At("idle") /\ (\A o \in Owners : Syncs(o, "idle")) /\ ~missed /\ agent.life = "ready"
        => agent.has = perm

\* Models the user has cleared stay cleared until a check asks for them.
ClearedStays == cleared => disk.llm = None

EnrollmentInv == TypeOK /\ BindingIsWhole /\ PermissionsAreOurs /\ NoGrantsInSwitch
                 /\ AgentFollows /\ ClearedStays

\* A machine without an enrolment that knows a device becomes another one by a confirmation
\* of the user only, or by an enrolment.
ConfirmedOnly ==
    /\ disk.dev = None /\ disk'.dev = None
    /\ disk.seen # None /\ disk'.seen \notin {None, disk.seen}
    => Syncs("confirmation", "query") /\ sync["confirmation"].want = disk'.seen
=============================================================================
