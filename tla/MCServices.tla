------------------------------ MODULE MCServices ------------------------------
(***************************************************************************)
(* Nine parts in one run of TLC: the transcript of a session, approvals,  *)
(* the installation of an update, a streamed answer on its way to a        *)
(* window, the answers on their way to their cards, the messages and the   *)
(* deletion that bind a chat to its session, the start and the stop of a   *)
(* gateway, the gateways the application makes and gives up, and the       *)
(* company device it is enrolled as.  A scenario runs one of them while    *)
(* the others stay as they began, so the states are the sum of theirs and  *)
(* not the product.                                                        *)
(***************************************************************************)
EXTENDS Integers

CONSTANTS s1, s2, c1, c2, m1, m2, m3, k1, d1, v1, v2, NoDevice, NoData

VARIABLES
    scenario,
    file, tail, synced, row, indexed, cache, queue, phase, read, turn, title, acked, used,
    call, aborted, decision, audits, recorded, closed, forgetting, failures,
    published, paused, progress, release, installer, op, installing, approved, fenced, task,
    origin, steered, discard, gateway,
    parts, active, generation, detached, queued, scheduled, numbering, stage, cut, events,
    known, stream, completed, ipc, data, batches, asked,
    bindings, tables, made, switches, jobs, msg, del, refusals,
    speaker, sent, said, chain, head, resolving, unsettled, lane, pump, last, delivered,
    writer, route, cards, faults, hurt,
    start, halt, joined, flags, teardown, waits, stopping, errors, agent, manual, current,
    runs, hung, dispatch, heartbeat, registry, adapter, restart, conn, troubles,
    owned, tools, health, preparing, exited, gateways, request, composed, crossed, stray,
    mishaps, disk, tunnel, perm, candidate, act, sync, reconnecting, stopped, told, torn, displaced,
    missed, cleared, setbacks

transcriptVars == <<file, tail, synced, row, indexed, cache, queue, phase, read, turn, title,
                    acked, used>>
approvalVars == <<call, aborted, decision, audits, recorded, closed, forgetting, failures>>
updateVars == <<published, paused, progress, release, installer, op, installing, approved,
                fenced, task, origin, steered, discard, gateway>>
answerVars == <<parts, active, generation, detached, queued, scheduled, numbering, stage,
                cut, events, known, stream, completed, ipc, data, batches, asked>>
routingVars == <<bindings, tables, made, switches, jobs, msg, del, refusals>>
cardVars == <<speaker, sent, said, chain, head, resolving, unsettled, lane, pump, last,
              delivered, writer, route, cards, faults, hurt>>
lifeVars == <<start, halt, joined, flags, teardown, waits, stopping, errors, agent, manual,
              current, runs, hung, dispatch, heartbeat, registry, adapter, restart, conn,
              troubles>>
gatewayVars == <<owned, tools, health, preparing, exited, gateways, request, composed,
                 crossed, stray, mishaps>>
cloudVars == <<disk, tunnel, perm, candidate, act, sync, reconnecting, stopped, told, torn,
               displaced, missed, cleared, setbacks>>
vars == <<scenario, transcriptVars, approvalVars, updateVars, answerVars,
           routingVars, cardVars, lifeVars, gatewayVars, cloudVars>>

CallsOf == [c \in {c1, c2} |-> s1]
ChatOf == [m \in {m1, m2, m3} |-> k1]
KindsOf == [m \in {m1, m2, m3} |-> IF m = m3 THEN {"clear", "stop", "steer"} ELSE {"text"}]

\* Two messages and any two of: a replaced context, a selection, a rename, a crash; one
\* message and three of them.
Transcripts == INSTANCE TranscriptStore WITH
    MaxMessages <- 2, MaxOfAKind <- 1, MaxIncidents <- 2
Troubled == INSTANCE TranscriptStore WITH
    MaxMessages <- 1, MaxOfAKind <- 1, MaxIncidents <- 3
\* One part with one token, a change of the metrics, two batches, and an agent that is one
\* event ahead of the gateway, which is two ahead of the window.
Stream == INSTANCE LiveAnswer WITH
    MaxParts <- 1, MaxText <- 1, MaxMetrics <- 1, MaxBatches <- 2, MaxWire <- 1,
    MaxIpc <- 2, pending <- scheduled, sequence <- numbering,
    wire <- events, inbox <- batches, read <- asked
\* Two turns of one session whose calls to Feishu fail; three turns of two sessions behind
\* one chain, where frames and the child get lost as well.
Cards == INSTANCE CardDelivery WITH
    MaxEmits <- 2, Sessions <- {s1}, SessionOf <- <<s1, s1>>, MaxDeltas <- 2,
    Chained <- FALSE, Faults <- {"call", "closed", "reference", "patch"}, MaxFaults <- 2,
    MaxCards <- 4, turn <- speaker, stream <- lane, tail <- last, completed <- delivered
Delivery == INSTANCE CardDelivery WITH
    MaxEmits <- 3, Sessions <- {s1, s2}, SessionOf <- <<s1, s1, s2>>, MaxDeltas <- 1,
    Chained <- TRUE, Faults <- {"call", "closed", "patch", "lost", "crash", "clear"},
    MaxFaults <- 2, MaxCards <- 5,
    turn <- speaker, stream <- lane, tail <- last, completed <- delivered
\* Three gateways at most: everything but the agent's own calls and one failure; and the
\* agent's with two.  Of the start and the stop of one gateway: two runs, and three of:
\* failures, deadlines that pass, an agent or a connection that goes down.  Of an update: two
\* tasks, requeued ones among them, and a release that replaces another.  Of approvals: two
\* calls of one session, so that their records share its queue, and a failing record.  Of
\* routing: two texts and a command of one chat, a deletion, and one call of the agent that
\* fails.
Desktop == INSTANCE Services_proofs WITH
    Calls <- 1..4, KindOf <- <<"start", "restart", "update", "quit">>, MaxGateways <- 3,
    MaxFaults <- 1, own <- owned, gateway <- gateways, call <- request, made <- composed,
    faults <- mishaps, MaxRuns <- 2, MaxTroubles <- 3,
    MaxTasks <- 2, MaxReleases <- 2, process <- gateway,
    Requests <- {c1, c2}, Sessions <- {s1}, SessionOf <- CallsOf, MaxFailures <- 1,
    approval <- call,
    Messages <- {m1, m2, m3}, KeyOf <- ChatOf, KindsOf <- KindsOf, Deletions <- {d1},
    MaxSessions <- 3, MaxRefusals <- 1, numbered <- made
AgentCalls == INSTANCE Services_proofs WITH
    Calls <- 1..4, KindOf <- <<"start", "agent", "update", "grant">>, MaxGateways <- 3,
    MaxFaults <- 2, own <- owned, gateway <- gateways, call <- request, made <- composed,
    faults <- mishaps, MaxRuns <- 2, MaxTroubles <- 3,
    MaxTasks <- 2, MaxReleases <- 2, process <- gateway,
    Requests <- {c1, c2}, Sessions <- {s1}, SessionOf <- CallsOf, MaxFailures <- 1,
    approval <- call,
    Messages <- {m1, m2, m3}, KeyOf <- ChatOf, KindsOf <- KindsOf, Deletions <- {d1},
    MaxSessions <- 3, MaxRefusals <- 1, numbered <- made

\* A device that is replaced, with two failures or crashes; and a machine that is not
\* enrolled, which finds out its device and then imports two files, with one.
Switching == INSTANCE CloudEnrollment WITH
    Devices <- {v1, v2}, None <- NoDevice, Enrolled <- v1, MaxFaults <- 2,
    Imports <- {[device |-> v2, existing |-> FALSE]},
    pending <- candidate, agent <- told, crossed <- displaced, faults <- setbacks
Discovery == INSTANCE CloudEnrollment WITH
    Devices <- {v1, v2}, None <- NoDevice, Enrolled <- NoDevice, MaxFaults <- 1,
    Imports <- {[device |-> v1, existing |-> FALSE], [device |-> v2, existing |-> TRUE]},
    pending <- candidate, agent <- told, crossed <- displaced, faults <- setbacks

\* What the parts assume of their constants.
ASSUME PartsAssumption ==
       /\ Desktop!Routing!RoutingAssumption
       /\ Desktop!DesktopGatewayAssumption /\ AgentCalls!DesktopGatewayAssumption
       /\ Desktop!Life!GatewayLifecycleAssumption /\ Desktop!Update!UpdateAssumption
       /\ Desktop!Grants!ApprovalsAssumption
       /\ Switching!CloudEnrollmentAssumption /\ Discovery!CloudEnrollmentAssumption

Init ==
    /\ scenario \in {"transcript", "troubled", "approvals", "update", "answer",
                    "routing", "cards", "delivery", "lifecycle", "gateways", "agent",
                    "switching", "discovery"}
    /\ Transcripts!Init /\ Desktop!Grants!Init /\ Desktop!Update!Init
    /\ Stream!Init /\ (scenario # "answer" => data = NoData)
    /\ Desktop!Routing!Init
    /\ scenario # "routing" =>
          switches.steering = {} /\ msg[m3].kind = "clear"
    /\ IF scenario = "cards" THEN Cards!Init ELSE Delivery!Init
    /\ Desktop!Init /\ Desktop!Life!Init
    /\ IF scenario = "discovery" THEN Discovery!Init ELSE Switching!Init

\* A step of the part whose variables are named, in a scenario of its own.
Others(own) ==
    /\ UNCHANGED scenario
    /\ own # "transcript" => UNCHANGED transcriptVars
    /\ own # "approvals" => UNCHANGED approvalVars
    /\ own # "update" => UNCHANGED updateVars
    /\ own # "answer" => UNCHANGED answerVars
    /\ own # "routing" => UNCHANGED routingVars
    /\ own # "cards" => UNCHANGED cardVars
    /\ own # "lifecycle" => UNCHANGED lifeVars
    /\ own # "gateways" => UNCHANGED gatewayVars
    /\ own # "cloud" => UNCHANGED cloudVars

TranscriptStep ==
    /\ \/ scenario = "transcript" /\ Transcripts!Next
       \/ scenario = "troubled" /\ Troubled!Next
    /\ Others("transcript")

ApprovalStep == scenario = "approvals" /\ Desktop!Grants!Next /\ Others("approvals")
UpdateStep == scenario = "update" /\ Desktop!Update!Next /\ Others("update")
AnswerStep == scenario = "answer" /\ Stream!Next /\ Others("answer")
RoutingStep == scenario = "routing" /\ Desktop!Routing!Next /\ Others("routing")
LifecycleStep == scenario = "lifecycle" /\ Desktop!Life!Next /\ Others("lifecycle")

GatewayStep ==
    /\ \/ scenario = "gateways" /\ Desktop!Next
       \/ scenario = "agent" /\ AgentCalls!Next
    /\ Others("gateways")

CloudStep ==
    /\ \/ scenario = "switching" /\ Switching!Next
       \/ scenario = "discovery" /\ Discovery!Next
    /\ Others("cloud")

CardStep ==
    /\ \/ scenario = "cards" /\ Cards!Next
       \/ scenario = "delivery" /\ Delivery!Next
    /\ Others("cards")

Next ==
    \/ TranscriptStep \/ ApprovalStep \/ UpdateStep \/ AnswerStep
    \/ RoutingStep \/ CardStep \/ LifecycleStep \/ GatewayStep \/ CloudStep

Spec == Init /\ [][Next]_vars

-----------------------------------------------------------------------------
\* TranscriptStore: no transcript outlives its session, no selection a client was told of
\* is taken back by a crash, a valid cache and the context of a turn are what the file
\* replays to; and no step but a deletion or a power loss takes back what a load could show,
\* and a title keeps its place.
TranscriptHolds ==
    /\ [](/\ scenario = "transcript" =>
                Transcripts!TranscriptInv /\ Transcripts!ReplayIsTheTranscript
          /\ scenario = "troubled" =>
                Troubled!TranscriptInv /\ Troubled!ReplayIsTheTranscript)
    /\ [][/\ scenario = "transcript" =>
                Transcripts!NothingWithdrawn /\ Transcripts!TitleKeepsItsPlace
          /\ scenario = "troubled" =>
                Troubled!NothingWithdrawn /\ Troubled!TitleKeepsItsPlace]_vars

\* Approvals: a grant is live when it is given, and no call is left waiting.
ApprovalsHold ==
    /\ [](scenario = "approvals" => Desktop!Grants!TypeOK /\ Desktop!Grants!RequestsSettle)
    /\ [][scenario = "approvals" => Desktop!Grants!GrantsAreLive]_vars

\* UpdateInstall: the fence comes down on every path that installs nothing, the installer
\* runs at rest, and only what the user confirmed is stopped.
UpdateHolds ==
    /\ [](scenario = "update" =>
            /\ Desktop!Update!TypeOK
            /\ Desktop!Update!FenceIsLifted /\ Desktop!Update!InstallsAtRest)
    /\ [][scenario = "update" => Desktop!Update!OnlyKnownWorkIsStopped]_vars

\* LiveAnswer: once a closed answer has arrived the window shows it whole; what is shown
\* under a number is what the agent had when it cut it; and the window does not go back.
AnswerHolds ==
    /\ [](scenario = "answer" => Stream!AnswerArrives /\ Stream!StreamsAreTruthful)
    /\ [][scenario = "answer" => Stream!WindowGoesOn]_vars

\* SessionRouting: bindings lead to sessions that are not deleted, a deleted session comes
\* back only by a text that was under way, a deletion that failed puts the bindings back;
\* and no key is taken from a session with work.
RoutingHolds ==
    /\ [](scenario = "routing" => Desktop!Routing!RoutingInv)
    /\ [][scenario = "routing" => Desktop!Routing!KeysLeaveIdleSessions]_vars

\* CardDelivery: a failing call hurts the answer of its own turn only; no promise is left
\* without a pump that settles it; the turns of a session write one after the other; and a
\* card does not go back, nor change once it was closed.
CardsHold ==
    /\ [](/\ scenario = "cards" =>
                Cards!TypeOK /\ Cards!FailuresStayLocal /\ Cards!FramesAreHeld
                /\ Cards!OnePumpPerSession
          /\ scenario = "delivery" =>
                Delivery!TypeOK /\ Delivery!FramesAreHeld /\ Delivery!OnePumpPerSession)
    /\ [][/\ scenario = "cards" => Cards!CardsGoForward
         /\ scenario = "delivery" => Delivery!CardsGoForward]_vars

\* GatewayLifecycle: a stop without errors has left nothing up, wherever the start was; and
\* with them everything is down when the last call has ended, but for an agent whose run
\* does not end or whose process could not be killed.
LifecycleHolds ==
    scenario = "lifecycle" =>
        /\ Desktop!Life!TypeOK
        /\ Desktop!Life!CleanEndsAreDown /\ Desktop!Life!StopsInTheEnd

\* DesktopGateway: whatever calls overlap, nothing runs of a gateway that was given up, an
\* installer finds none running, and "stopped" is nothing at all, but for the gateways lost in
\* the two ways the history names; none is lost, and "ready" is true between calls, as long as
\* no calls but those about the agent ran beside each other.
GatewaysHold ==
    /\ scenario = "gateways" => /\ Desktop!TypeOK /\ Desktop!NoStrays
                                /\ Desktop!InstallsAtRest /\ Desktop!HealthTells
    /\ scenario = "agent" => /\ AgentCalls!TypeOK /\ AgentCalls!NoStrays
                             /\ AgentCalls!InstallsAtRest /\ AgentCalls!HealthTells

\* CloudEnrollment: what is saved of an enrolment is of one device, wherever it was broken
\* off; nobody has permissions while it is replaced, and the agent has those of the device
\* when nothing is under way; and a device becomes another one by a confirmation only.
EnrollmentHolds ==
    /\ [](/\ scenario = "switching" => Switching!EnrollmentInv
          /\ scenario = "discovery" => Discovery!EnrollmentInv)
    /\ [][/\ scenario = "switching" => Switching!ConfirmedOnly
         /\ scenario = "discovery" => Discovery!ConfirmedOnly]_vars
=============================================================================
