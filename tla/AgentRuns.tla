------------------------------ MODULE AgentRuns ------------------------------
(***************************************************************************)
(* Runs across the process boundary: the gateway's ProcessAgentRuntime     *)
(* sends run_turn, cancel_turn and steer_turn as JSON-RPC lines to one     *)
(* agent-cli child, whose AgentProtocolServer keeps a handle for each run  *)
(* and whose runtime takes the steering messages out of it.                *)
(*                                                                         *)
(* Of the scheduler only its promise is kept, one active run per session   *)
(* and none while the runtime is not ready; of the child's own life only   *)
(* whether it is there and initialised.  Lines to the child keep their     *)
(* order.  Answers are written when their call is done, so they may come   *)
(* back in any order; an answer nobody waits for is dropped.               *)
(***************************************************************************)
EXTENDS Integers, Sequences, SequencesExt

CONSTANTS
    Runs,           \* run ids, each the id of the job it runs
    SessionOf,      \* the session of a run
    Messages,       \* steering messages, each sent at most once
    NoRun,          \* the run of a message that was not sent
    MaxStops,       \* bound: cancel_turn calls per run
    MaxLaunches     \* bound: children spawned

AgentRunsAssumption ==
    /\ NoRun \notin Runs
    /\ MaxStops \in Nat
    /\ MaxLaunches \in Nat

VARIABLES
    \* the gateway
    connection,     \* "down", "starting", "ready", or "failed": child not usable
    launches,
    turn,           \* what the scheduler holds of each run
    stop,           \* cancelRequest / cancelRequested of the run's handle
    stops,          \* cancel_turn calls made for each run
    steering,       \* what the caller of steerActive() knows of its message
    steeredRun,     \* the run a message was sent to
    calls,          \* the pending map of requests
    requeued,       \* messages put back into the queue as a job
    \* the pipes
    toAgent, toGateway,
    \* the agent
    handle,         \* activeRuns, and the outcome once the turn is over
    aborted,
    inbox,          \* handle.steering
    batch,          \* messages drained and not yet written to the transcript
    transcript      \* messages in the session's history

gatewayVars == <<turn, stop, stops, steering, steeredRun, requeued>>
childVars   == <<connection, launches>>
wireVars    == <<calls, toAgent, toGateway>>
agentVars   == <<handle, aborted, inbox, batch, transcript>>
vars == <<gatewayVars, childVars, wireVars, agentVars>>

-----------------------------------------------------------------------------
RunCall(r) == <<"run", r>>
CancelCall(r, n) == <<"cancel", r, n>>
SteerCall(m) == <<"steer", m>>

Calls == {RunCall(r) : r \in Runs}
         \cup {CancelCall(r, n) : r \in Runs, n \in 1..MaxStops}
         \cup {SteerCall(m) : m \in Messages}

\* How a turn that returns may end; "threw" is a run_turn answered by an error.
Outcomes == {"completed", "cancelled", "error"}

\* An answer; only that of a run has an outcome and steering left over.
Answer(c, ok, outcome, rest) ==
    [call |-> c, ok |-> ok, outcome |-> outcome, rest |-> rest]

Said(c, ok) == Answer(c, ok, "", <<>>)

Answers ==
    [call : Calls, ok : BOOLEAN, outcome : Outcomes \cup {""}, rest : Seq(Messages)]

TypeOK ==
    /\ connection \in {"down", "starting", "ready", "failed"}
    /\ launches \in 0..MaxLaunches
    /\ turn \in [Runs -> {"waiting", "active", "failed"} \cup Outcomes]
    /\ stop \in [Runs -> {"none", "requested", "acknowledged"}]
    /\ stops \in [Runs -> 0..MaxStops]
    /\ steering \in [Messages -> {"new", "sent", "accepted", "declined", "failed"}]
    /\ steeredRun \in [Messages -> Runs \cup {NoRun}]
    /\ calls \subseteq Calls
    /\ requeued \subseteq Messages
    /\ toAgent \in Seq(Calls)
    /\ toGateway \subseteq Answers
    /\ handle \in [Runs -> {"none", "running", "threw"} \cup Outcomes]
    /\ aborted \subseteq Runs
    /\ inbox \in [Runs -> Seq(Messages)]
    /\ batch \in [Runs -> Seq(Messages)]
    /\ transcript \subseteq Messages

Init ==
    /\ connection = "down"
    /\ launches = 0
    /\ turn = [r \in Runs |-> "waiting"]
    /\ stop = [r \in Runs |-> "none"]
    /\ stops = [r \in Runs |-> 0]
    /\ steering = [m \in Messages |-> "new"]
    /\ steeredRun = [m \in Messages |-> NoRun]
    /\ calls = {}
    /\ requeued = {}
    /\ toAgent = <<>>
    /\ toGateway = {}
    /\ handle = [r \in Runs |-> "none"]
    /\ aborted = {}
    /\ inbox = [r \in Runs |-> <<>>]
    /\ batch = [r \in Runs |-> <<>>]
    /\ transcript = {}

-----------------------------------------------------------------------------
(* The gateway's calls *)

\* request(): remember the call and write its line.
Request(c) ==
    /\ calls' = calls \cup {c}
    /\ toAgent' = Append(toAgent, c)
    /\ UNCHANGED toGateway

\* The scheduler hands a run to the runtime: runTurn() waits without a timeout.
StartTurn(r) ==
    /\ connection = "ready"
    /\ turn[r] = "waiting"
    /\ \A q \in Runs : SessionOf[q] = SessionOf[r] => turn[q] # "active"
    /\ turn' = [turn EXCEPT ![r] = "active"]
    /\ Request(RunCall(r))
    /\ UNCHANGED <<stop, stops, steering, steeredRun, requeued, childVars, agentVars>>

\* requestStop() and cancelRun() for an active run.
RequestStop(r) ==
    /\ turn[r] = "active"
    /\ stop[r] = "none"
    /\ stops[r] < MaxStops
    /\ stop' = [stop EXCEPT ![r] = "requested"]
    /\ stops' = [stops EXCEPT ![r] = @ + 1]
    /\ Request(CancelCall(r, stops[r] + 1))
    /\ UNCHANGED <<turn, steering, steeredRun, requeued, childVars, agentVars>>

\* steerActive() while no stop of the run is pending or acknowledged.
SteerActive(m, r) ==
    /\ steering[m] = "new"
    /\ turn[r] = "active"
    /\ stop[r] = "none"
    /\ steering' = [steering EXCEPT ![m] = "sent"]
    /\ steeredRun' = [steeredRun EXCEPT ![m] = r]
    /\ Request(SteerCall(m))
    /\ UNCHANGED <<turn, stop, stops, requeued, childVars, agentVars>>

\* What the callers of the pending calls cs make of their rejection: the run is
\* completed as failed, or as cancelled when its stop was acknowledged, and
\* brings no steering back; a stop is open again; a message is an error.
Rejected(cs) ==
    /\ turn' = [r \in Runs |->
                  IF RunCall(r) \notin cs THEN turn[r]
                  ELSE IF stop[r] = "acknowledged" THEN "cancelled" ELSE "failed"]
    /\ stop' = [r \in Runs |->
                  IF \E n \in 1..MaxStops : CancelCall(r, n) \in cs THEN "none" ELSE stop[r]]
    /\ steering' = [m \in Messages |->
                  IF SteerCall(m) \in cs THEN "failed" ELSE steering[m]]
    /\ UNCHANGED <<stops, steeredRun, requeued>>

\* The timer of a cancel_turn or steer_turn call fires; its line stays sent.
TimeOut(c) ==
    /\ c \in calls
    /\ c \notin {RunCall(r) : r \in Runs}
    /\ calls' = calls \ {c}
    /\ Rejected({c})
    /\ UNCHANGED <<toAgent, toGateway, childVars, agentVars>>

-----------------------------------------------------------------------------
(* The child process *)

Launch ==
    /\ connection = "down"
    /\ launches < MaxLaunches
    /\ connection' = "starting"
    /\ launches' = launches + 1
    /\ UNCHANGED <<gatewayVars, wireVars, agentVars>>

Initialized ==
    /\ connection = "starting"
    /\ connection' = "ready"
    /\ UNCHANGED <<launches, gatewayVars, wireVars, agentVars>>

\* Fault: the connection still counts as ready.
FailConnectionStaysReady ==
    /\ connection \in {"starting", "ready"}
    /\ connection' = "ready"
    /\ calls' = {}
    /\ Rejected(calls)
    /\ UNCHANGED <<launches, toAgent, toGateway, agentVars>>

\* A line the gateway cannot use, or an error event of the live child: every
\* pending call is rejected at once.  The child is still there, still at work,
\* until it really exits.
FailConnection ==
    /\ connection \in {"starting", "ready"}
    /\ connection' = "failed"
    /\ calls' = {}
    /\ Rejected(calls)
    /\ UNCHANGED <<launches, toAgent, toGateway, agentVars>>

\* Nothing is left of the handles a child had.
ForgetRuns ==
    /\ handle' = [r \in Runs |-> "none"]
    /\ aborted' = {}
    /\ inbox' = [r \in Runs |-> <<>>]
    /\ batch' = [r \in Runs |-> <<>>]

\* Fault: the requests of the dead child are not rejected.
ExitWithoutRejecting ==
    /\ connection # "down"
    /\ connection' = "down"
    /\ toAgent' = <<>>
    /\ toGateway' = {}
    /\ ForgetRuns
    /\ UNCHANGED <<launches, transcript, calls, gatewayVars>>

\* The child exits, by a crash or because it was terminated: what it held and
\* what was in the pipes is gone, the transcript stays.
Exit ==
    /\ connection # "down"
    /\ connection' = "down"
    /\ calls' = {}
    /\ Rejected(calls)
    /\ toAgent' = <<>>
    /\ toGateway' = {}
    /\ ForgetRuns
    /\ UNCHANGED <<launches, transcript>>

-----------------------------------------------------------------------------
(* The agent: dispatch() of the next line *)

Receive(c) ==
    /\ toAgent # <<>>
    /\ c = Head(toAgent)
    /\ toAgent' = Tail(toAgent)
    /\ UNCHANGED <<calls, childVars, gatewayVars>>

ReceiveRun(r) ==
    /\ Receive(RunCall(r))
    /\ handle' = [handle EXCEPT ![r] = "running"]
    /\ UNCHANGED <<toGateway, aborted, inbox, batch, transcript>>

\* Fault: answers before looking whether there is anything to abort.
ReceiveCancelUnchecked(r, n) ==
    /\ Receive(CancelCall(r, n))
    /\ toGateway' = toGateway \cup {Said(CancelCall(r, n), TRUE)}
    /\ UNCHANGED <<aborted, handle, inbox, batch, transcript>>

\* cancel_turn aborts the handle if the run has one.
ReceiveCancel(r, n) ==
    LET found == handle[r] # "none" IN
    /\ Receive(CancelCall(r, n))
    /\ aborted' = IF found THEN aborted \cup {r} ELSE aborted
    /\ toGateway' = toGateway \cup {Said(CancelCall(r, n), found)}
    /\ UNCHANGED <<handle, inbox, batch, transcript>>

\* steer_turn pushes the message into the handle, unless it is gone or aborted.
ReceiveSteer(m) ==
    LET r == steeredRun[m]
        taken == handle[r] # "none" /\ r \notin aborted
    IN
    /\ Receive(SteerCall(m))
    /\ inbox' = IF taken THEN [inbox EXCEPT ![r] = Append(@, m)] ELSE inbox
    /\ toGateway' = toGateway \cup {Said(SteerCall(m), taken)}
    /\ UNCHANGED <<handle, aborted, batch, transcript>>

\* A change of the managed model's credential aborts every active run.
AbortActiveTurns ==
    LET held == {r \in Runs : handle[r] # "none"} IN
    /\ held \ aborted # {}
    /\ aborted' = aborted \cup held
    /\ UNCHANGED <<handle, inbox, batch, transcript, wireVars, childVars, gatewayVars>>

-----------------------------------------------------------------------------
(* The agent: the turn itself *)

\* Fault: the messages taken stay in the handle.
DrainSteeringKeepsInbox(r) ==
    /\ handle[r] = "running"
    /\ batch[r] = <<>>
    /\ inbox[r] # <<>>
    /\ batch' = [batch EXCEPT ![r] = inbox[r]]
    /\ UNCHANGED <<inbox, handle, aborted, transcript, wireVars, childVars, gatewayVars>>

\* drainSteering() before a model step, before a tool is dispatched or when the
\* model has no more calls: all messages are taken at once.
DrainSteering(r) ==
    /\ handle[r] = "running"
    /\ batch[r] = <<>>
    /\ inbox[r] # <<>>
    /\ batch' = [batch EXCEPT ![r] = inbox[r]]
    /\ inbox' = [inbox EXCEPT ![r] = <<>>]
    /\ UNCHANGED <<handle, aborted, transcript, wireVars, childVars, gatewayVars>>

\* appendSteering() writes the next message of the batch to the transcript.
AppendSteering(r) ==
    /\ batch[r] # <<>>
    /\ transcript' = transcript \cup {Head(batch[r])}
    /\ batch' = [batch EXCEPT ![r] = Tail(@)]
    /\ UNCHANGED <<handle, aborted, inbox, wireVars, childVars, gatewayVars>>

\* Loading the skills a message names, or writing it, throws: the turn ends as
\* an error, or as cancelled when it was aborted, and the batch is dropped.
AppendFails(r) ==
    /\ batch[r] # <<>>
    /\ batch' = [batch EXCEPT ![r] = <<>>]
    /\ handle' = [handle EXCEPT ![r] = IF r \in aborted THEN "cancelled" ELSE "error"]
    /\ UNCHANGED <<aborted, inbox, transcript, wireVars, childVars, gatewayVars>>

\* The turn is over, for the server not yet: it publishes the end first.  A run
\* aborted too late still completes; one that fails while aborted is cancelled.
TurnEnds(r, outcome) ==
    /\ handle[r] = "running"
    /\ batch[r] = <<>>
    /\ outcome = "cancelled" => r \in aborted
    /\ outcome = "error" => r \notin aborted
    /\ handle' = [handle EXCEPT ![r] = outcome]
    /\ UNCHANGED <<aborted, inbox, batch, transcript, wireVars, childVars, gatewayVars>>

\* The handle is dropped with what it still holds.
DropHandle(r) ==
    /\ handle' = [handle EXCEPT ![r] = "none"]
    /\ aborted' = aborted \ {r}
    /\ inbox' = [inbox EXCEPT ![r] = <<>>]
    /\ UNCHANGED <<batch, transcript, calls, toAgent, childVars, gatewayVars>>

\* The end is published: what is left of the steering is drained into the
\* answer and the handle is dropped, in one stretch.
TurnReturns(r) ==
    /\ handle[r] \in Outcomes
    /\ toGateway' = toGateway \cup {Answer(RunCall(r), TRUE, handle[r], inbox[r])}
    /\ DropHandle(r)

\* The runtime threw: the failure is published and the call answered by an error.
TurnThrows(r) ==
    /\ handle[r] = "threw"
    /\ toGateway' = toGateway \cup {Said(RunCall(r), FALSE)}
    /\ DropHandle(r)

-----------------------------------------------------------------------------
(* The gateway: handleResponse() *)

\* The answer a arrives; what follows is for a call that is still pending.
HandleResponse(a) ==
    /\ connection # "down"
    /\ a \in toGateway
    /\ toGateway' = toGateway \ {a}
    /\ calls' = calls \ {a.call}
    /\ UNCHANGED <<toAgent, childVars, agentVars>>

\* An answer to a call that timed out or was rejected is dropped.
Unmatched(a) ==
    /\ HandleResponse(a)
    /\ a.call \notin calls
    /\ UNCHANGED gatewayVars

\* The run settles; the completion puts its steering back unless it counts as
\* cancelled.  A run answered by an error is a rejected call.
RunAnswered(r, a) ==
    LET outcome == IF stop[r] = "acknowledged" THEN "cancelled" ELSE a.outcome IN
    /\ HandleResponse(a)
    /\ a.call = RunCall(r)
    /\ RunCall(r) \in calls
    /\ \/ /\ a.ok
          /\ turn' = [turn EXCEPT ![r] = outcome]
          /\ requeued' = IF outcome = "cancelled" THEN requeued
                         ELSE requeued \cup ToSet(a.rest)
          /\ UNCHANGED <<stop, stops, steering, steeredRun>>
       \/ /\ ~a.ok
          /\ Rejected({RunCall(r)})

\* The stop is acknowledged, or the agent did not find the run.
CancelAnswered(r, n, a) ==
    /\ HandleResponse(a)
    /\ a.call = CancelCall(r, n)
    /\ CancelCall(r, n) \in calls
    /\ stop' = [stop EXCEPT ![r] = IF a.ok THEN "acknowledged" ELSE "none"]
    /\ UNCHANGED <<turn, stops, steering, steeredRun, requeued>>

\* The message was taken, or steerActive() returns false and the router queues
\* it as a job of its own.
SteerAnswered(m, a) ==
    /\ HandleResponse(a)
    /\ a.call = SteerCall(m)
    /\ SteerCall(m) \in calls
    /\ steering' = [steering EXCEPT ![m] = IF a.ok THEN "accepted" ELSE "declined"]
    /\ UNCHANGED <<turn, stop, stops, steeredRun, requeued>>

Respond ==
    \E a \in toGateway :
       \/ Unmatched(a)
       \/ \E r \in Runs : RunAnswered(r, a)
       \/ \E r \in Runs, n \in 1..MaxStops : CancelAnswered(r, n, a)
       \/ \E m \in Messages : SteerAnswered(m, a)

Dispatch ==
    \/ \E r \in Runs : ReceiveRun(r)
    \/ \E r \in Runs, n \in 1..MaxStops : ReceiveCancel(r, n)
    \/ \E m \in Messages : ReceiveSteer(m)

Next ==
    \/ \E r \in Runs : StartTurn(r) \/ RequestStop(r)
    \/ \E m \in Messages, r \in Runs : SteerActive(m, r)
    \/ \E c \in Calls : TimeOut(c)
    \/ Launch \/ Initialized \/ FailConnection \/ Exit
    \/ Dispatch
    \/ AbortActiveTurns
    \/ \E r \in Runs : DrainSteering(r) \/ AppendSteering(r) \/ AppendFails(r)
    \/ \E r \in Runs, outcome \in Outcomes \cup {"threw"} : TurnEnds(r, outcome)
    \/ \E r \in Runs : TurnReturns(r) \/ TurnThrows(r)
    \/ Respond

Spec == Init /\ [][Next]_vars

-----------------------------------------------------------------------------
(* Safety *)

\* The scheduler's and the caller's view of every run, stop and message is
\* the pending map of requests: nobody waits for a call that was forgotten, and
\* no call is pending whose caller has moved on.
CallersMatchCalls ==
    /\ \A r \in Runs : turn[r] = "active" <=> RunCall(r) \in calls
    /\ \A r \in Runs :
          stop[r] = "requested" <=> \E n \in 1..MaxStops : CancelCall(r, n) \in calls
    /\ \A m \in Messages : steering[m] = "sent" <=> SteerCall(m) \in calls

\* Every variable in its range, and the bookkeeping above.
AgentRunsInv == TypeOK /\ CallersMatchCalls

\* The agent never holds two runs of one session, even when the gateway lost
\* the connection, gave the runs up and started the session's next one.
SessionRunsAlone ==
    \A r, q \in Runs :
       SessionOf[r] = SessionOf[q] /\ handle[r] # "none" /\ handle[q] # "none" => r = q

\* A message takes effect at most once: one the caller was told to queue as a
\* job of its own is in no handle and no transcript, and one a run consumed is
\* not put back by its completion.
SteeringHandledOnce ==
    \A m \in Messages :
       /\ m \in requeued => m \notin transcript /\ steering[m] # "declined"
       /\ steering[m] = "declined" =>
             m \notin transcript /\ \A r \in Runs : ~Contains(inbox[r] \o batch[r], m)

\* A message whose sender was told that the active run took it is not lost by
\* a run that completes, however late in the run it came: the run consumed it or
\* its completion queued it again.
CompletedRunsKeepSteering ==
    \A m \in Messages :
       steering[m] = "accepted" /\ turn[steeredRun[m]] = "completed" =>
          m \in transcript \cup requeued

\* A stop the gateway reported as done has reached the agent: while the run
\* still holds its session, it is aborted there or it has already ended.
AcknowledgedStopAborts ==
    \A r \in Runs :
       turn[r] = "active" /\ stop[r] = "acknowledged" /\ handle[r] = "running" =>
          r \in aborted

\* What the scheduler's documentation demands of a run that is not cancelled:
\* no message it took is lost.  It fails for a run that ends in an error while
\* it writes the messages it drained.
ErroredRunsKeepSteering ==
    \A m \in Messages :
       steering[m] = "accepted" /\ turn[steeredRun[m]] = "error" =>
          m \in transcript \cup requeued

-----------------------------------------------------------------------------
(* Liveness *)

\* A live child reads its input and answers, a turn it runs comes to an end, and
\* the gateway reads the answers.  Nothing is assumed of launches or exits.
Fairness ==
    /\ WF_vars(Dispatch)
    /\ WF_vars(Respond)
    /\ \A r \in Runs :
          /\ WF_vars(AppendSteering(r) \/ AppendFails(r))
          /\ WF_vars(\E outcome \in Outcomes \cup {"threw"} : TurnEnds(r, outcome))
          /\ WF_vars(TurnReturns(r) \/ TurnThrows(r))

FairSpec == Spec /\ Fairness

\* Every call settles, by its answer, its timer or the end of the connection:
\* no session stays occupied by a run nobody will complete.
CallsSettle == \A c \in Calls : c \in calls ~> c \notin calls

=============================================================================
