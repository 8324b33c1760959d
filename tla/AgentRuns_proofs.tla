--------------------------- MODULE AgentRuns_proofs ---------------------------
(***************************************************************************)
(* Proofs about AgentRuns, for any runs of any sessions, any messages and  *)
(* any number of stops and of children.                                    *)
(*                                                                         *)
(* The argument: a run enters the agent once, by the one line StartTurn    *)
(* writes, and while the connection is not lost it is active for as long   *)
(* as the agent has it; its answer is written when the agent has it no     *)
(* more.  A lost connection starts nothing before the child is gone, so    *)
(* what the gateway gave up never meets what it starts.                    *)
(* A steering message is in one place at a time, from the line that brings *)
(* it to the history or back into the queue; it is lost only with its run. *)
(***************************************************************************)
EXTENDS AgentRuns, TLAPS

\* The line of the run is on its way to the agent.
InLine(r) == \E i \in DOMAIN toAgent : toAgent[i] = RunCall(r)

\* The agent has the run, or will have it.
WithAgent(r) == handle[r] # "none" \/ InLine(r)

\* The run was started, and the agent has no more to do with it.
Over(r) == turn[r] # "waiting" /\ ~WithAgent(r)

\* A run enters the agent once.
RunsEnterOnce ==
    \A r \in Runs :
       /\ WithAgent(r) => turn[r] # "waiting"
       /\ InLine(r) => handle[r] = "none"
       /\ \A i, j \in DOMAIN toAgent :
             toAgent[i] = RunCall(r) /\ toAgent[j] = RunCall(r) => i = j

\* What the agent has is active, unless the connection was lost.
ActiveWhileHeld ==
    \A r \in Runs : WithAgent(r) => turn[r] = "active" \/ connection = "failed"

\* Of each session the agent has one run.
OneRunOfASession ==
    \A r, q \in Runs :
       SessionOf[r] = SessionOf[q] /\ WithAgent(r) /\ WithAgent(q) => r = q

\* The answer of a run comes when the agent has it no more, and has an outcome if it is one.
AnswersComeLast ==
    \A r \in Runs : \A a \in toGateway :
       a.call = RunCall(r) => Over(r) /\ (a.ok => a.outcome \in Outcomes)

\* One stop of a run is pending at a time.
OneStopPends ==
    \A r \in Runs : \A n, k \in 1..MaxStops :
       CancelCall(r, n) \in calls /\ CancelCall(r, k) \in calls => n = k

\* A stop that is reported as done, or about to be, has reached the run or came after it.
StopsReachTheRun ==
    /\ \A r \in Runs : stop[r] = "acknowledged" => r \in aborted \/ Over(r)
    /\ \A r \in Runs : \A n \in 1..MaxStops : \A a \in toGateway :
          a.call = CancelCall(r, n) /\ a.ok => r \in aborted \/ Over(r)

\* What is aborted, or has messages to write, is a run the agent has.
HeldInv ==
    \A r \in Runs : /\ r \in aborted => handle[r] # "none"
                    /\ batch[r] # <<>> => handle[r] = "running"

\* What the gateway's own bookkeeping rests on.
GatewayInv == CallersMatchCalls /\ OneStopPends

\* What the agent's runs rest on.
ChildInv ==
    RunsEnterOnce /\ ActiveWhileHeld /\ OneRunOfASession /\ AnswersComeLast /\ StopsReachTheRun

\* The inductive invariant.
RunsInv == TypeOK /\ GatewayInv /\ HeldInv /\ ChildInv

-----------------------------------------------------------------------------
\* A call is the call of one run, one stop or one message.
LEMMA CallsDiffer ==
    /\ \A r, q : RunCall(r) = RunCall(q) => r = q
    /\ \A m, k : SteerCall(m) = SteerCall(k) => m = k
    /\ \A r, q, n, k : CancelCall(r, n) = CancelCall(q, k) => r = q /\ n = k
    /\ \A r, q, n : RunCall(r) # CancelCall(q, n)
    /\ \A r, m : RunCall(r) # SteerCall(m)
    /\ \A r, n, m : CancelCall(r, n) # SteerCall(m)
BY DEF RunCall, CancelCall, SteerCall

\* Nothing has begun.
LEMMA InitRuns ==
    ASSUME AgentRunsAssumption, Init
    PROVE  RunsInv
<1>1. TypeOK
  BY DEF Init, TypeOK, AgentRunsAssumption
<1>2. GatewayInv
  BY DEF Init, GatewayInv, CallersMatchCalls, OneStopPends
<1>3. \A r \in Runs : ~WithAgent(r)
  BY DEF Init, WithAgent, InLine
<1>4. ChildInv
  BY <1>3 DEF Init, ChildInv, RunsEnterOnce, ActiveWhileHeld, OneRunOfASession,
     AnswersComeLast, StopsReachTheRun, InLine
<1>5. HeldInv
  BY DEF Init, HeldInv
<1> QED
  BY <1>1, <1>2, <1>4, <1>5 DEF RunsInv

-----------------------------------------------------------------------------
(* Types *)

\* What Rejected() leaves is in its range.
LEMMA RejectedTypes ==
    ASSUME TypeOK, NEW cs, Rejected(cs)
    PROVE  /\ turn' \in [Runs -> {"waiting", "active", "failed"} \cup Outcomes]
           /\ stop' \in [Runs -> {"none", "requested", "acknowledged"}]
           /\ steering' \in [Messages -> {"new", "sent", "accepted", "declined", "failed"}]
           /\ UNCHANGED <<stops, steeredRun, requeued>>
<1>1. /\ turn \in [Runs -> {"waiting", "active", "failed"} \cup Outcomes]
      /\ stop \in [Runs -> {"none", "requested", "acknowledged"}]
      /\ steering \in [Messages -> {"new", "sent", "accepted", "declined", "failed"}]
  BY DEF TypeOK
<1>2. turn' \in [Runs -> {"waiting", "active", "failed"} \cup Outcomes]
  BY <1>1 DEF Rejected, Outcomes
<1>3. stop' \in [Runs -> {"none", "requested", "acknowledged"}]
  BY <1>1 DEF Rejected
<1>4. steering' \in [Messages -> {"new", "sent", "accepted", "declined", "failed"}]
  BY <1>1 DEF Rejected
<1> QED
  BY <1>2, <1>3, <1>4 DEF Rejected

\* The gateway's calls keep the types.
LEMMA RequestTypes ==
    ASSUME TypeOK, AgentRunsAssumption,
           \/ \E r \in Runs : StartTurn(r) \/ RequestStop(r)
           \/ \E m \in Messages, r \in Runs : SteerActive(m, r)
    PROVE  TypeOK'
<1>1. ASSUME NEW r \in Runs, StartTurn(r) PROVE TypeOK'
  <2>1. RunCall(r) \in Calls
    BY DEF Calls
  <2>2. /\ turn' \in [Runs -> {"waiting", "active", "failed"} \cup Outcomes]
        /\ calls' \subseteq Calls /\ toAgent' \in Seq(Calls)
    BY <1>1, <2>1 DEF StartTurn, Request, TypeOK
  <2> QED
    BY <1>1, <2>2 DEF StartTurn, Request, TypeOK, childVars, agentVars
<1>2. ASSUME NEW r \in Runs, RequestStop(r) PROVE TypeOK'
  <2>1. stops[r] + 1 \in 1..MaxStops
    BY <1>2 DEF RequestStop, TypeOK, AgentRunsAssumption
  <2>2. CancelCall(r, stops[r] + 1) \in Calls
    BY <2>1 DEF Calls
  <2>3. /\ stop' \in [Runs -> {"none", "requested", "acknowledged"}]
        /\ stops' \in [Runs -> 0..MaxStops]
    BY <1>2, <2>1 DEF RequestStop, TypeOK, AgentRunsAssumption
  <2>4. calls' \subseteq Calls /\ toAgent' \in Seq(Calls)
    BY <1>2, <2>2 DEF RequestStop, Request, TypeOK
  <2> QED
    BY <1>2, <2>3, <2>4 DEF RequestStop, Request, TypeOK, childVars, agentVars
<1>3. ASSUME NEW m \in Messages, NEW r \in Runs, SteerActive(m, r) PROVE TypeOK'
  <2>1. SteerCall(m) \in Calls
    BY DEF Calls
  <2>2. /\ steering' \in [Messages -> {"new", "sent", "accepted", "declined", "failed"}]
        /\ steeredRun' \in [Messages -> Runs \cup {NoRun}]
        /\ calls' \subseteq Calls /\ toAgent' \in Seq(Calls)
    BY <1>3, <2>1 DEF SteerActive, Request, TypeOK
  <2> QED
    BY <1>3, <2>2 DEF SteerActive, Request, TypeOK, childVars, agentVars
<1> QED
  BY <1>1, <1>2, <1>3

\* A timer, and the life of the child, keep the types.
LEMMA LifeTypes ==
    ASSUME TypeOK, AgentRunsAssumption,
           (\E c \in Calls : TimeOut(c)) \/ Launch \/ Initialized \/ FailConnection \/ Exit
    PROVE  TypeOK'
<1>1. ASSUME NEW c \in Calls, TimeOut(c) PROVE TypeOK'
  <2>1. /\ Rejected({c}) /\ calls' \subseteq Calls
        /\ UNCHANGED <<toAgent, toGateway, childVars, agentVars>>
    BY <1>1 DEF TimeOut, TypeOK
  <2> QED
    BY <2>1, RejectedTypes DEF TypeOK, childVars, agentVars
<1>2. CASE Launch
  BY <1>2 DEF Launch, TypeOK, AgentRunsAssumption, gatewayVars, wireVars, agentVars
<1>3. CASE Initialized
  BY <1>3 DEF Initialized, TypeOK, gatewayVars, wireVars, agentVars
<1>4. CASE FailConnection
  <2>1. /\ Rejected(calls) /\ calls' = {} /\ connection' = "failed"
        /\ UNCHANGED <<launches, toAgent, toGateway, agentVars>>
    BY <1>4 DEF FailConnection
  <2> QED
    BY <2>1, RejectedTypes DEF TypeOK, agentVars
<1>5. CASE Exit
  <2>1. /\ Rejected(calls) /\ calls' = {} /\ connection' = "down" /\ toAgent' = <<>>
        /\ toGateway' = {} /\ ForgetRuns
        /\ UNCHANGED <<launches, transcript>>
    BY <1>5 DEF Exit
  <2>2. /\ handle' \in [Runs -> {"none", "running", "threw"} \cup Outcomes]
        /\ aborted' \subseteq Runs
        /\ inbox' \in [Runs -> Seq(Messages)] /\ batch' \in [Runs -> Seq(Messages)]
    BY <2>1 DEF ForgetRuns
  <2> QED
    BY <2>1, <2>2, RejectedTypes DEF TypeOK
<1> QED
  BY <1>1, <1>2, <1>3, <1>4, <1>5

\* The agent's lines keep the types.
LEMMA DispatchTypes ==
    ASSUME TypeOK, AgentRunsAssumption, Dispatch
    PROVE  TypeOK'
<1>1. ASSUME NEW c, Receive(c)
      PROVE  /\ c \in Calls /\ toAgent' \in Seq(Calls)
             /\ UNCHANGED <<calls, childVars, gatewayVars>>
  BY <1>1 DEF Receive, TypeOK
<1>2. ASSUME NEW c \in Calls, NEW ok \in BOOLEAN PROVE Said(c, ok) \in Answers
  BY <1>2 DEF Said, Answer, Answers
<1>3. ASSUME NEW r \in Runs, ReceiveRun(r) PROVE TypeOK'
  <2>1. handle' \in [Runs -> {"none", "running", "threw"} \cup Outcomes]
    BY <1>3 DEF ReceiveRun, TypeOK
  <2> QED
    BY <1>1, <1>3, <2>1 DEF ReceiveRun, TypeOK, childVars, gatewayVars
<1>4. ASSUME NEW r \in Runs, NEW n \in 1..MaxStops, ReceiveCancel(r, n) PROVE TypeOK'
  <2>1. Receive(CancelCall(r, n)) /\ UNCHANGED <<handle, inbox, batch, transcript>>
    BY <1>4 DEF ReceiveCancel
  <2>2. aborted' \subseteq Runs
    BY <1>4 DEF ReceiveCancel, TypeOK
  <2>3. toGateway' = toGateway \cup {Said(CancelCall(r, n), handle[r] # "none")}
    BY <1>4 DEF ReceiveCancel
  <2>4. toGateway' \subseteq Answers
    BY <1>1, <1>2, <2>1, <2>3 DEF TypeOK
  <2> QED
    BY <1>1, <2>1, <2>2, <2>4 DEF TypeOK, childVars, gatewayVars
<1>5. ASSUME NEW m \in Messages, ReceiveSteer(m) PROVE TypeOK'
  <2> DEFINE taken == handle[steeredRun[m]] # "none" /\ steeredRun[m] \notin aborted
  <2>1. Receive(SteerCall(m)) /\ UNCHANGED <<handle, aborted, batch, transcript>>
    BY <1>5 DEF ReceiveSteer
  <2>2. inbox' \in [Runs -> Seq(Messages)]
    <3>1. \/ inbox' = inbox
          \/ inbox' = [inbox EXCEPT ![steeredRun[m]] = Append(@, m)]
      BY <1>5 DEF ReceiveSteer
    <3>2. inbox \in [Runs -> Seq(Messages)]
      BY DEF TypeOK
    <3>3. ASSUME NEW q, inbox' = [inbox EXCEPT ![q] = Append(@, m)]
          PROVE  inbox' \in [Runs -> Seq(Messages)]
      <4>1. CASE q \in Runs
        <5>1. Append(inbox[q], m) \in Seq(Messages)
          BY <3>2, <4>1
        <5> QED
          BY <3>2, <3>3, <5>1
      <4>2. CASE q \notin Runs
        BY <3>2, <3>3, <4>2
      <4> QED
        BY <4>1, <4>2
    <3> QED
      BY <3>1, <3>2, <3>3
  <2>3. toGateway' = toGateway \cup {Said(SteerCall(m), taken)}
    BY <1>5 DEF ReceiveSteer
  <2>4. toGateway' \subseteq Answers
    BY <1>1, <1>2, <2>1, <2>3 DEF TypeOK
  <2> QED
    BY <1>1, <2>1, <2>2, <2>4 DEF TypeOK, childVars, gatewayVars
<1> QED
  BY <1>3, <1>4, <1>5 DEF Dispatch

\* The turn keeps the types.
LEMMA TurnTypes ==
    ASSUME TypeOK,
           \/ AbortActiveTurns
           \/ \E r \in Runs : \/ DrainSteering(r) \/ AppendSteering(r) \/ AppendFails(r)
                              \/ TurnReturns(r) \/ TurnThrows(r)
           \/ \E r \in Runs, outcome \in Outcomes \cup {"threw"} : TurnEnds(r, outcome)
    PROVE  TypeOK'
<1>1. CASE AbortActiveTurns
  BY <1>1 DEF AbortActiveTurns, TypeOK, wireVars, childVars, gatewayVars
<1>2. ASSUME NEW r \in Runs, DrainSteering(r) PROVE TypeOK'
  <2>1. inbox' \in [Runs -> Seq(Messages)] /\ batch' \in [Runs -> Seq(Messages)]
    BY <1>2 DEF DrainSteering, TypeOK
  <2> QED
    BY <1>2, <2>1 DEF DrainSteering, TypeOK, wireVars, childVars, gatewayVars
<1>3. ASSUME NEW r \in Runs, AppendSteering(r) PROVE TypeOK'
  <2>1. batch[r] \in Seq(Messages) /\ batch[r] # <<>>
    BY <1>3 DEF AppendSteering, TypeOK
  <2>2. Head(batch[r]) \in Messages /\ Tail(batch[r]) \in Seq(Messages)
    BY <2>1
  <2>3. transcript' \subseteq Messages /\ batch' \in [Runs -> Seq(Messages)]
    BY <1>3, <2>2 DEF AppendSteering, TypeOK
  <2> QED
    BY <1>3, <2>3 DEF AppendSteering, TypeOK, wireVars, childVars, gatewayVars
<1>4. ASSUME NEW r \in Runs, AppendFails(r) PROVE TypeOK'
  <2>1. /\ batch' \in [Runs -> Seq(Messages)]
        /\ handle' \in [Runs -> {"none", "running", "threw"} \cup Outcomes]
    BY <1>4 DEF AppendFails, TypeOK, Outcomes
  <2> QED
    BY <1>4, <2>1 DEF AppendFails, TypeOK, wireVars, childVars, gatewayVars
<1>5. ASSUME NEW r \in Runs, NEW outcome \in Outcomes \cup {"threw"}, TurnEnds(r, outcome)
      PROVE  TypeOK'
  <2>1. handle' \in [Runs -> {"none", "running", "threw"} \cup Outcomes]
    BY <1>5 DEF TurnEnds, TypeOK
  <2> QED
    BY <1>5, <2>1 DEF TurnEnds, TypeOK, wireVars, childVars, gatewayVars
<1>6. ASSUME NEW r \in Runs, TurnReturns(r) \/ TurnThrows(r) PROVE TypeOK'
  <2>1. DropHandle(r) /\ RunCall(r) \in Calls /\ inbox[r] \in Seq(Messages)
    <3>1. DropHandle(r)
      BY <1>6 DEF TurnReturns, TurnThrows
    <3>2. RunCall(r) \in Calls
      BY DEF Calls
    <3> QED
      BY <3>1, <3>2 DEF TypeOK
  <2>2. toGateway' \subseteq Answers
    <3>1. CASE TurnReturns(r)
      <4>1. Answer(RunCall(r), TRUE, handle[r], inbox[r]) \in Answers
        BY <2>1, <3>1 DEF TurnReturns, Answer, Answers
      <4> QED
        BY <3>1, <4>1 DEF TurnReturns, TypeOK
    <3>2. CASE TurnThrows(r)
      <4>1. Said(RunCall(r), FALSE) \in Answers
        BY <2>1 DEF Said, Answer, Answers
      <4> QED
        BY <3>2, <4>1 DEF TurnThrows, TypeOK
    <3> QED
      BY <1>6, <3>1, <3>2
  <2>3. /\ handle' \in [Runs -> {"none", "running", "threw"} \cup Outcomes]
        /\ aborted' \subseteq Runs /\ inbox' \in [Runs -> Seq(Messages)]
    BY <2>1 DEF DropHandle, TypeOK
  <2> QED
    BY <2>1, <2>2, <2>3 DEF DropHandle, TypeOK, childVars, gatewayVars
<1> QED
  BY <1>1, <1>2, <1>3, <1>4, <1>5, <1>6

\* An answer keeps the types.
LEMMA ResponseTypes ==
    ASSUME RunsInv, Respond
    PROVE  TypeOK'
<1> USE DEF RunsInv
<1>1. PICK a \in toGateway :
          \/ Unmatched(a)
          \/ \E r \in Runs : RunAnswered(r, a)
          \/ \E r \in Runs, n \in 1..MaxStops : CancelAnswered(r, n, a)
          \/ \E m \in Messages : SteerAnswered(m, a)
  BY DEF Respond
<1>2. HandleResponse(a) /\ a \in Answers
  BY <1>1 DEF Unmatched, RunAnswered, CancelAnswered, SteerAnswered, TypeOK
<1>3. /\ toGateway' \subseteq Answers /\ calls' \subseteq Calls
      /\ UNCHANGED <<toAgent, childVars, agentVars>>
  BY <1>2 DEF HandleResponse, TypeOK
<1>4. CASE Unmatched(a)
  BY <1>3, <1>4 DEF Unmatched, TypeOK, childVars, agentVars, gatewayVars
<1>5. ASSUME NEW r \in Runs, RunAnswered(r, a) PROVE TypeOK'
  <2>1. CASE a.ok /\ ~Rejected({RunCall(r)})
    <3>1. a.outcome \in Outcomes /\ ToSet(a.rest) \subseteq Messages
      <4>1. a.rest \in Seq(Messages)
        BY <1>2 DEF Answers
      <4> QED
        BY <1>5, <2>1, <4>1 DEF RunAnswered, ChildInv, AnswersComeLast, ToSet
    <3>2. /\ turn' \in [Runs -> {"waiting", "active", "failed"} \cup Outcomes]
          /\ requeued' \subseteq Messages
          /\ UNCHANGED <<stop, stops, steering, steeredRun>>
      BY <1>5, <2>1, <3>1 DEF RunAnswered, TypeOK, Outcomes
    <3> QED
      BY <1>3, <3>2 DEF TypeOK, childVars, agentVars
  <2>2. CASE Rejected({RunCall(r)})
    BY <1>3, <2>2, RejectedTypes DEF TypeOK, childVars, agentVars
  <2> QED
    BY <1>5, <2>1, <2>2 DEF RunAnswered
<1>6. ASSUME NEW r \in Runs, NEW n \in 1..MaxStops, CancelAnswered(r, n, a) PROVE TypeOK'
  <2>1. stop' \in [Runs -> {"none", "requested", "acknowledged"}]
    BY <1>6 DEF CancelAnswered, TypeOK
  <2> QED
    BY <1>3, <1>6, <2>1 DEF CancelAnswered, TypeOK, childVars, agentVars
<1>7. ASSUME NEW m \in Messages, SteerAnswered(m, a) PROVE TypeOK'
  <2>1. steering' \in [Messages -> {"new", "sent", "accepted", "declined", "failed"}]
    BY <1>7 DEF SteerAnswered, TypeOK
  <2> QED
    BY <1>3, <1>7, <2>1 DEF SteerAnswered, TypeOK, childVars, agentVars
<1> QED
  BY <1>1, <1>4, <1>5, <1>6, <1>7

\* Every step keeps the types.
LEMMA NextTypes ==
    ASSUME RunsInv, AgentRunsAssumption, [Next]_vars
    PROVE  TypeOK'
<1>1. TypeOK
  BY DEF RunsInv
<1>2. CASE UNCHANGED vars
  BY <1>1, <1>2 DEF vars, TypeOK, gatewayVars, childVars, wireVars, agentVars
<1>3. CASE Next
  BY <1>1, <1>3, RequestTypes, LifeTypes, DispatchTypes, TurnTypes, ResponseTypes DEF Next
<1> QED
  BY <1>2, <1>3

-----------------------------------------------------------------------------
(* The gateway's bookkeeping *)

\* Rejecting the calls cs, one stop of which is pending for a run, keeps what the callers
\* know and what is pending together.
LEMMA RejectionKeepsGateway ==
    ASSUME TypeOK, GatewayInv, NEW cs \in SUBSET calls, Rejected(cs), calls' = calls \ cs
    PROVE  GatewayInv'
<1>1. \A r \in Runs : turn'[r] = "active" <=> RunCall(r) \in calls'
  <2>1. ASSUME NEW r \in Runs PROVE turn'[r] = "active" <=> RunCall(r) \in calls'
    <3>1. turn[r] = "active" <=> RunCall(r) \in calls
      BY DEF GatewayInv, CallersMatchCalls
    <3>2. turn'[r] = IF RunCall(r) \notin cs THEN turn[r]
                     ELSE IF stop[r] = "acknowledged" THEN "cancelled" ELSE "failed"
      BY DEF Rejected
    <3> QED
      BY <3>1, <3>2
  <2> QED
    BY <2>1
<1>2. \A r \in Runs :
         stop'[r] = "requested" <=> \E n \in 1..MaxStops : CancelCall(r, n) \in calls'
  <2>1. ASSUME NEW r \in Runs
        PROVE  stop'[r] = "requested" <=> \E n \in 1..MaxStops : CancelCall(r, n) \in calls'
    <3>1. stop[r] = "requested" <=> \E n \in 1..MaxStops : CancelCall(r, n) \in calls
      BY DEF GatewayInv, CallersMatchCalls
    <3>2. stop'[r] = IF \E n \in 1..MaxStops : CancelCall(r, n) \in cs THEN "none" ELSE stop[r]
      BY DEF Rejected
    <3>3. \A n, k \in 1..MaxStops :
             CancelCall(r, n) \in calls /\ CancelCall(r, k) \in calls => n = k
      BY DEF GatewayInv, OneStopPends
    <3> QED
      BY <3>1, <3>2, <3>3
  <2> QED
    BY <2>1
<1>3. \A m \in Messages : steering'[m] = "sent" <=> SteerCall(m) \in calls'
  <2>1. ASSUME NEW m \in Messages PROVE steering'[m] = "sent" <=> SteerCall(m) \in calls'
    <3>1. steering[m] = "sent" <=> SteerCall(m) \in calls
      BY DEF GatewayInv, CallersMatchCalls
    <3>2. steering'[m] = IF SteerCall(m) \in cs THEN "failed" ELSE steering[m]
      BY DEF Rejected
    <3> QED
      BY <3>1, <3>2
  <2> QED
    BY <2>1
<1>4. OneStopPends'
  BY DEF GatewayInv, OneStopPends
<1> QED
  BY <1>1, <1>2, <1>3, <1>4 DEF GatewayInv, CallersMatchCalls

\* A call is pending from the moment it is made.
LEMMA RequestsKeepGateway ==
    ASSUME TypeOK, GatewayInv, AgentRunsAssumption,
           \/ \E r \in Runs : StartTurn(r) \/ RequestStop(r)
           \/ \E m \in Messages, r \in Runs : SteerActive(m, r)
    PROVE  GatewayInv'
<1>1. ASSUME NEW r \in Runs, StartTurn(r) PROVE GatewayInv'
  <2>1. /\ calls' = calls \cup {RunCall(r)} /\ UNCHANGED <<stop, steering>>
        /\ turn' = [turn EXCEPT ![r] = "active"]
    BY <1>1 DEF StartTurn, Request
  <2>2. \A q \in Runs : turn'[q] = "active" <=> RunCall(q) \in calls'
    BY <2>1, CallsDiffer DEF GatewayInv, CallersMatchCalls, TypeOK
  <2>3. /\ \A q, n : CancelCall(q, n) \in calls' <=> CancelCall(q, n) \in calls
        /\ \A m : SteerCall(m) \in calls' <=> SteerCall(m) \in calls
    BY <2>1, CallsDiffer
  <2> QED
    BY <2>1, <2>2, <2>3 DEF GatewayInv, CallersMatchCalls, OneStopPends
<1>2. ASSUME NEW r \in Runs, RequestStop(r) PROVE GatewayInv'
  <2> DEFINE n == stops[r] + 1
  <2>1. /\ calls' = calls \cup {CancelCall(r, n)} /\ UNCHANGED <<turn, steering>>
        /\ stop' = [stop EXCEPT ![r] = "requested"] /\ stop[r] = "none"
    BY <1>2 DEF RequestStop, Request
  <2>2. n \in 1..MaxStops
    BY <1>2 DEF RequestStop, TypeOK, AgentRunsAssumption
  <2> HIDE DEF n
  <2>3. /\ \A q : RunCall(q) \in calls' <=> RunCall(q) \in calls
        /\ \A m : SteerCall(m) \in calls' <=> SteerCall(m) \in calls
    BY <2>1, CallsDiffer
  <2>4. \A q, k : CancelCall(q, k) \in calls' <=> CancelCall(q, k) \in calls \/ (q = r /\ k = n)
    BY <2>1, CallsDiffer
  <2>5. \A k \in 1..MaxStops : CancelCall(r, k) \notin calls
    BY <2>1 DEF GatewayInv, CallersMatchCalls
  <2>6. OneStopPends'
    BY <2>4, <2>5 DEF GatewayInv, OneStopPends
  <2>7. \A q \in Runs :
           stop'[q] = "requested" <=> \E k \in 1..MaxStops : CancelCall(q, k) \in calls'
    BY <2>1, <2>2, <2>4 DEF GatewayInv, CallersMatchCalls, TypeOK
  <2> QED
    BY <2>1, <2>3, <2>6, <2>7 DEF GatewayInv, CallersMatchCalls
<1>3. ASSUME NEW m \in Messages, NEW r \in Runs, SteerActive(m, r) PROVE GatewayInv'
  <2>1. /\ calls' = calls \cup {SteerCall(m)} /\ UNCHANGED <<turn, stop>>
        /\ steering' = [steering EXCEPT ![m] = "sent"]
    BY <1>3 DEF SteerActive, Request
  <2>2. \A k \in Messages : steering'[k] = "sent" <=> SteerCall(k) \in calls'
    BY <2>1, CallsDiffer DEF GatewayInv, CallersMatchCalls, TypeOK
  <2>3. /\ \A q, n : CancelCall(q, n) \in calls' <=> CancelCall(q, n) \in calls
        /\ \A q : RunCall(q) \in calls' <=> RunCall(q) \in calls
    BY <2>1, CallsDiffer
  <2> QED
    BY <2>1, <2>2, <2>3 DEF GatewayInv, CallersMatchCalls, OneStopPends
<1> QED
  BY <1>1, <1>2, <1>3

\* An answer settles its call and no other.
LEMMA ResponsesKeepGateway ==
    ASSUME RunsInv, Respond
    PROVE  GatewayInv'
<1>1. PICK a \in toGateway :
          \/ Unmatched(a)
          \/ \E r \in Runs : RunAnswered(r, a)
          \/ \E r \in Runs, n \in 1..MaxStops : CancelAnswered(r, n, a)
          \/ \E m \in Messages : SteerAnswered(m, a)
  BY DEF Respond
<1>2. TypeOK /\ GatewayInv /\ AnswersComeLast
  BY DEF RunsInv, ChildInv
<1>3. CASE Unmatched(a)
  <2>1. calls' = calls /\ UNCHANGED <<turn, stop, steering>>
    BY <1>3 DEF Unmatched, HandleResponse, gatewayVars
  <2> QED
    BY <1>2, <2>1 DEF GatewayInv, CallersMatchCalls, OneStopPends
<1>4. ASSUME NEW r \in Runs, RunAnswered(r, a) PROVE GatewayInv'
  <2>1. a.call = RunCall(r) /\ RunCall(r) \in calls /\ calls' = calls \ {RunCall(r)}
    BY <1>4 DEF RunAnswered, HandleResponse
  <2>2. CASE Rejected({RunCall(r)})
    BY <1>2, <2>1, <2>2, RejectionKeepsGateway
  <2>3. CASE a.ok /\ ~Rejected({RunCall(r)})
    <3>1. /\ turn' = [turn EXCEPT ![r] = IF stop[r] = "acknowledged" THEN "cancelled"
                                          ELSE a.outcome]
          /\ UNCHANGED <<stop, steering>>
      BY <1>4, <2>3 DEF RunAnswered
    <3>2. a.outcome # "active"
      BY <1>2, <2>1, <2>3 DEF AnswersComeLast, Outcomes
    <3>3. /\ \A q, n : CancelCall(q, n) \in calls' <=> CancelCall(q, n) \in calls
          /\ \A m : SteerCall(m) \in calls' <=> SteerCall(m) \in calls
          /\ \A q : RunCall(q) \in calls' <=> RunCall(q) \in calls /\ q # r
      BY <2>1, CallsDiffer
    <3>4. \A q \in Runs : turn'[q] = "active" <=> turn[q] = "active" /\ q # r
      BY <1>2, <3>1, <3>2 DEF TypeOK
    <3> QED
      BY <1>2, <3>1, <3>3, <3>4 DEF GatewayInv, CallersMatchCalls, OneStopPends
  <2> QED
    BY <1>4, <2>2, <2>3 DEF RunAnswered
<1>5. ASSUME NEW r \in Runs, NEW n \in 1..MaxStops, CancelAnswered(r, n, a) PROVE GatewayInv'
  <2>1. /\ calls' = calls \ {CancelCall(r, n)} /\ CancelCall(r, n) \in calls
        /\ UNCHANGED <<turn, steering>>
        /\ stop' = [stop EXCEPT ![r] = IF a.ok THEN "acknowledged" ELSE "none"]
    BY <1>5 DEF CancelAnswered, HandleResponse
  <2>2. /\ \A q : RunCall(q) \in calls' <=> RunCall(q) \in calls
        /\ \A m : SteerCall(m) \in calls' <=> SteerCall(m) \in calls
        /\ \A q, k : CancelCall(q, k) \in calls'
                       <=> CancelCall(q, k) \in calls /\ ~(q = r /\ k = n)
    BY <2>1, CallsDiffer
  <2>3. \A k \in 1..MaxStops : CancelCall(r, k) \notin calls'
    BY <1>2, <2>1, <2>2 DEF GatewayInv, OneStopPends
  <2>4. stop'[r] # "requested" /\ \A q \in Runs \ {r} : stop'[q] = stop[q]
    BY <1>2, <2>1 DEF TypeOK
  <2>5. \A q \in Runs :
           stop'[q] = "requested" <=> \E k \in 1..MaxStops : CancelCall(q, k) \in calls'
    BY <1>2, <2>2, <2>3, <2>4 DEF GatewayInv, CallersMatchCalls
  <2> QED
    BY <1>2, <2>1, <2>2, <2>5 DEF GatewayInv, CallersMatchCalls, OneStopPends
<1>6. ASSUME NEW m \in Messages, SteerAnswered(m, a) PROVE GatewayInv'
  <2>1. /\ calls' = calls \ {SteerCall(m)} /\ UNCHANGED <<turn, stop>>
        /\ steering' = [steering EXCEPT ![m] = IF a.ok THEN "accepted" ELSE "declined"]
    BY <1>6 DEF SteerAnswered, HandleResponse
  <2>2. /\ \A q : RunCall(q) \in calls' <=> RunCall(q) \in calls
        /\ \A k : SteerCall(k) \in calls' <=> SteerCall(k) \in calls /\ k # m
        /\ \A q, n : CancelCall(q, n) \in calls' <=> CancelCall(q, n) \in calls
    BY <2>1, CallsDiffer
  <2>3. steering'[m] # "sent" /\ \A k \in Messages \ {m} : steering'[k] = steering[k]
    BY <1>2, <2>1 DEF TypeOK
  <2> QED
    BY <1>2, <2>1, <2>2, <2>3 DEF GatewayInv, CallersMatchCalls, OneStopPends
<1> QED
  BY <1>1, <1>3, <1>4, <1>5, <1>6

\* Every step keeps the gateway's bookkeeping.
LEMMA NextKeepsGateway ==
    ASSUME RunsInv, AgentRunsAssumption, [Next]_vars
    PROVE  GatewayInv'
<1>1. TypeOK /\ GatewayInv
  BY DEF RunsInv
<1>2. CASE UNCHANGED <<turn, stop, steering, calls>>
  BY <1>1, <1>2 DEF GatewayInv, CallersMatchCalls, OneStopPends
<1>3. ASSUME NEW c \in Calls, TimeOut(c) PROVE GatewayInv'
  BY <1>1, <1>3, RejectionKeepsGateway DEF TimeOut
<1>4. CASE FailConnection \/ Exit
  BY <1>1, <1>4, RejectionKeepsGateway DEF FailConnection, Exit
<1>5. \/ UNCHANGED <<turn, stop, steering, calls>>
      \/ \E c \in Calls : TimeOut(c)
      \/ FailConnection \/ Exit
      \/ \E r \in Runs : StartTurn(r) \/ RequestStop(r)
      \/ \E m \in Messages, r \in Runs : SteerActive(m, r)
      \/ Respond
  BY DEF Next, vars, gatewayVars, wireVars, Launch, Initialized, Dispatch, ReceiveRun,
     ReceiveCancel, ReceiveSteer, Receive, AbortActiveTurns, DrainSteering, AppendSteering,
     AppendFails, TurnEnds, TurnReturns, TurnThrows, DropHandle
<1> QED
  BY <1>1, <1>2, <1>3, <1>4, <1>5, RequestsKeepGateway, ResponsesKeepGateway

-----------------------------------------------------------------------------
(* The runs in the agent *)

\* A step that changes neither the lines to the agent nor what runs it has, aborts no fewer
\* of them, brings no answer to a run or a stop, and reports no stop as done.
LEMMA NothingEnters ==
    ASSUME ChildInv, toAgent' = toAgent, toGateway' \subseteq toGateway,
           \A r \in Runs : handle'[r] = "none" <=> handle[r] = "none",
           aborted \subseteq aborted',
           \A r \in Runs : turn'[r] = "waiting" <=> turn[r] = "waiting",
           \A r \in Runs : WithAgent(r) /\ turn[r] = "active" =>
                              turn'[r] = "active" \/ connection' = "failed",
           connection = "failed" => connection' = "failed",
           \A r \in Runs : stop'[r] = "acknowledged" =>
                              stop[r] = "acknowledged" \/ r \in aborted \/ Over(r)
    PROVE  ChildInv'
<1>1. \A r \in Runs : (InLine(r)' <=> InLine(r)) /\ (WithAgent(r)' <=> WithAgent(r))
                      /\ (Over(r)' <=> Over(r))
  BY DEF InLine, WithAgent, Over
<1>2. RunsEnterOnce'
  BY <1>1 DEF ChildInv, RunsEnterOnce
<1>3. ActiveWhileHeld'
  BY <1>1 DEF ChildInv, ActiveWhileHeld
<1>4. OneRunOfASession'
  BY <1>1 DEF ChildInv, OneRunOfASession
<1>5. AnswersComeLast'
  BY <1>1 DEF ChildInv, AnswersComeLast
<1>6. StopsReachTheRun'
  BY <1>1 DEF ChildInv, StopsReachTheRun
<1> QED
  BY <1>2, <1>3, <1>4, <1>5, <1>6 DEF ChildInv

\* A line is added to those on their way.
LEMMA LineAdded ==
    ASSUME TypeOK, NEW c \in Calls, Request(c), handle' = handle
    PROVE  /\ \A r : InLine(r)' <=> InLine(r) \/ RunCall(r) = c
           /\ \A r : WithAgent(r)' <=> WithAgent(r) \/ RunCall(r) = c
           /\ toAgent \in Seq(Calls) /\ toAgent' = Append(toAgent, c)
           /\ toGateway' = toGateway
<1>1. toAgent \in Seq(Calls) /\ toAgent' = Append(toAgent, c) /\ toGateway' = toGateway
  BY DEF TypeOK, Request
<1>2. \A r : InLine(r)' <=> InLine(r) \/ RunCall(r) = c
  <2>1. /\ DOMAIN toAgent' = DOMAIN toAgent \cup {Len(toAgent) + 1}
        /\ \A i \in DOMAIN toAgent : toAgent'[i] = toAgent[i]
        /\ toAgent'[Len(toAgent) + 1] = c
    BY <1>1
  <2> QED
    BY <2>1 DEF InLine
<1> QED
  BY <1>1, <1>2 DEF WithAgent

\* A call that is no run enters nothing.
LEMMA OtherRequests ==
    ASSUME TypeOK, ChildInv, NEW c \in Calls, Request(c), \A r \in Runs : c # RunCall(r),
           UNCHANGED <<turn, connection, handle, aborted>>,
           \A r \in Runs : stop'[r] = "acknowledged" => stop[r] = "acknowledged"
    PROVE  ChildInv'
<1>1. \A r \in Runs : (InLine(r)' <=> InLine(r)) /\ (WithAgent(r)' <=> WithAgent(r))
                      /\ (Over(r)' <=> Over(r))
  BY LineAdded DEF Over
<1>2. toAgent \in Seq(Calls) /\ toAgent' = Append(toAgent, c) /\ toGateway' = toGateway
  BY LineAdded
<1>3. RunsEnterOnce'
  <2>1. ASSUME NEW r \in Runs, NEW i \in DOMAIN toAgent', toAgent'[i] = RunCall(r)
        PROVE  i \in DOMAIN toAgent /\ toAgent[i] = RunCall(r)
    BY <1>2, <2>1
  <2> QED
    BY <1>1, <2>1 DEF ChildInv, RunsEnterOnce
<1>4. ActiveWhileHeld' /\ OneRunOfASession'
  BY <1>1 DEF ChildInv, ActiveWhileHeld, OneRunOfASession
<1>5. AnswersComeLast' /\ StopsReachTheRun'
  BY <1>1, <1>2 DEF ChildInv, AnswersComeLast, StopsReachTheRun
<1> QED
  BY <1>3, <1>4, <1>5 DEF ChildInv

\* A run is started: the agent has no other of its session, because the connection is ready.
LEMMA StartKeepsChild ==
    ASSUME TypeOK, ChildInv, NEW r \in Runs, StartTurn(r)
    PROVE  ChildInv'
<1>1. /\ connection = "ready" /\ turn[r] = "waiting"
      /\ \A q \in Runs : SessionOf[q] = SessionOf[r] => turn[q] # "active"
      /\ turn' = [turn EXCEPT ![r] = "active"]
      /\ Request(RunCall(r))
      /\ UNCHANGED <<stop, connection, handle, aborted>>
  BY DEF StartTurn, childVars, agentVars
<1>2. RunCall(r) \in Calls
  BY DEF Calls
<1>3. /\ \A q : InLine(q)' <=> InLine(q) \/ q = r
      /\ \A q : WithAgent(q)' <=> WithAgent(q) \/ q = r
      /\ toAgent \in Seq(Calls) /\ toAgent' = Append(toAgent, RunCall(r))
      /\ toGateway' = toGateway
  BY <1>1, <1>2, LineAdded, CallsDiffer
<1>4. ~WithAgent(r) /\ \A q \in Runs : SessionOf[q] = SessionOf[r] => ~WithAgent(q)
  BY <1>1 DEF ChildInv, RunsEnterOnce, ActiveWhileHeld
<1>5. turn'[r] = "active" /\ \A q \in Runs \ {r} : turn'[q] = turn[q]
  BY <1>1 DEF TypeOK
<1>6. RunsEnterOnce'
  <2>1. ASSUME NEW q \in Runs PROVE WithAgent(q)' => turn'[q] # "waiting"
    BY <1>3, <1>5 DEF ChildInv, RunsEnterOnce
  <2>2. ASSUME NEW q \in Runs, InLine(q)' PROVE handle'[q] = "none"
    BY <1>1, <1>3, <1>4, <2>2 DEF ChildInv, RunsEnterOnce, WithAgent
  <2>3. ASSUME NEW q \in Runs, NEW i \in DOMAIN toAgent', NEW j \in DOMAIN toAgent',
               toAgent'[i] = RunCall(q), toAgent'[j] = RunCall(q)
        PROVE  i = j
    <3>1. CASE q = r
      <4>1. \A k \in DOMAIN toAgent : toAgent[k] # RunCall(r)
        BY <1>4 DEF WithAgent, InLine
      <4> QED
        BY <1>3, <2>3, <3>1, <4>1
    <3>2. CASE q # r
      <4>1. RunCall(q) # RunCall(r)
        BY <3>2, CallsDiffer
      <4>2. \A k \in DOMAIN toAgent' : toAgent'[k] = RunCall(q) =>
                                       k \in DOMAIN toAgent /\ toAgent[k] = RunCall(q)
        BY <1>3, <4>1
      <4> QED
        BY <2>3, <4>2 DEF ChildInv, RunsEnterOnce
    <3> QED
      BY <3>1, <3>2
  <2> QED
    BY <2>1, <2>2, <2>3 DEF RunsEnterOnce
<1>7. ActiveWhileHeld'
  BY <1>1, <1>3, <1>5 DEF ChildInv, ActiveWhileHeld
<1>8. OneRunOfASession'
  BY <1>3, <1>4 DEF ChildInv, OneRunOfASession
<1>9. \A q \in Runs : Over(q) => Over(q)'
  BY <1>1, <1>3, <1>5 DEF Over
<1>10. AnswersComeLast' /\ StopsReachTheRun'
  BY <1>1, <1>3, <1>9 DEF ChildInv, AnswersComeLast, StopsReachTheRun
<1> QED
  BY <1>6, <1>7, <1>8, <1>10 DEF ChildInv

\* The next line is read.
LEMMA LineRead ==
    ASSUME TypeOK, ChildInv, NEW c, Receive(c)
    PROVE  /\ \A r : InLine(r)' => InLine(r)
           /\ \A r : InLine(r) => InLine(r)' \/ RunCall(r) = c
           /\ \A r \in Runs : c = RunCall(r) => InLine(r) /\ ~InLine(r)'
           /\ \A r \in Runs : \A i, j \in DOMAIN toAgent' :
                 toAgent'[i] = RunCall(r) /\ toAgent'[j] = RunCall(r) => i = j
<1>1. toAgent \in Seq(Calls) /\ toAgent # <<>> /\ c = toAgent[1] /\ toAgent' = Tail(toAgent)
  BY DEF Receive, TypeOK
<1>2. /\ Len(toAgent) \in Nat \ {0} /\ DOMAIN toAgent = 1..Len(toAgent)
      /\ DOMAIN toAgent' = 1..(Len(toAgent) - 1)
      /\ \A i \in DOMAIN toAgent' : i + 1 \in DOMAIN toAgent /\ toAgent'[i] = toAgent[i + 1]
      /\ \A i \in DOMAIN toAgent : i # 1 => i - 1 \in DOMAIN toAgent'
                                            /\ toAgent'[i - 1] = toAgent[i]
  BY <1>1
<1>3. \A r : InLine(r)' => InLine(r)
  BY <1>2 DEF InLine
<1>4. \A r : InLine(r) => InLine(r)' \/ RunCall(r) = c
  BY <1>1, <1>2 DEF InLine
<1>5. ASSUME NEW r \in Runs, c = RunCall(r) PROVE InLine(r) /\ ~InLine(r)'
  <2>1. 1 \in DOMAIN toAgent /\ toAgent[1] = RunCall(r)
    BY <1>1, <1>2, <1>5
  <2>2. \A i \in DOMAIN toAgent : toAgent[i] = RunCall(r) => i = 1
    BY <2>1 DEF ChildInv, RunsEnterOnce
  <2>3. ASSUME NEW i \in DOMAIN toAgent' PROVE toAgent'[i] # RunCall(r)
    BY <1>2, <2>2, <2>3
  <2> QED
    BY <2>1, <2>3 DEF InLine
<1>6. ASSUME NEW r \in Runs, NEW i \in DOMAIN toAgent', NEW j \in DOMAIN toAgent',
             toAgent'[i] = RunCall(r), toAgent'[j] = RunCall(r)
      PROVE  i = j
  <2>1. i + 1 = j + 1
    BY <1>2, <1>6 DEF ChildInv, RunsEnterOnce
  <2> QED
    BY <1>2, <2>1
<1> QED
  BY <1>3, <1>4, <1>5, <1>6

\* A run arrives: it was in the line and is in the agent now.
LEMMA ArrivalKeepsChild ==
    ASSUME TypeOK, ChildInv, NEW r \in Runs, ReceiveRun(r)
    PROVE  ChildInv'
<1>1. /\ Receive(RunCall(r)) /\ handle' = [handle EXCEPT ![r] = "running"]
      /\ UNCHANGED <<toGateway, aborted, turn, stop, connection>>
  BY DEF ReceiveRun, Receive, childVars, gatewayVars
<1>2. InLine(r) /\ ~InLine(r)' /\ \A q \in Runs : q # r => (InLine(q)' <=> InLine(q))
  BY <1>1, LineRead, CallsDiffer
<1>3. handle'[r] = "running" /\ \A q \in Runs \ {r} : handle'[q] = handle[q]
  BY <1>1 DEF TypeOK
<1>4. \A q \in Runs : (WithAgent(q)' <=> WithAgent(q)) /\ (Over(q)' <=> Over(q))
  BY <1>1, <1>2, <1>3 DEF WithAgent, Over
<1>5. RunsEnterOnce'
  <2>1. \A q \in Runs : \A i, j \in DOMAIN toAgent' :
                 toAgent'[i] = RunCall(q) /\ toAgent'[j] = RunCall(q) => i = j
    BY <1>1, LineRead
  <2>2. \A q \in Runs : InLine(q)' => handle'[q] = "none"
    BY <1>2, <1>3 DEF ChildInv, RunsEnterOnce
  <2>3. \A q \in Runs : WithAgent(q)' => turn'[q] # "waiting"
    BY <1>1, <1>4 DEF ChildInv, RunsEnterOnce
  <2> QED
    BY <2>1, <2>2, <2>3 DEF RunsEnterOnce
<1>6. ActiveWhileHeld' /\ OneRunOfASession'
  BY <1>1, <1>4 DEF ChildInv, ActiveWhileHeld, OneRunOfASession
<1>7. AnswersComeLast' /\ StopsReachTheRun'
  BY <1>1, <1>4 DEF ChildInv, AnswersComeLast, StopsReachTheRun
<1> QED
  BY <1>5, <1>6, <1>7 DEF ChildInv

\* Another line is read, and answered: a stop that is reported as done found its run.
LEMMA OtherLinesKeepChild ==
    ASSUME TypeOK, ChildInv, NEW c, Receive(c), \A r \in Runs : c # RunCall(r),
           NEW ok, toGateway' = toGateway \cup {Said(c, ok)},
           handle' = handle, aborted \subseteq aborted',
           \A r \in Runs, n \in 1..MaxStops : c = CancelCall(r, n) /\ ok => r \in aborted'
    PROVE  ChildInv'
<1>1. UNCHANGED <<turn, stop, connection>>
  BY DEF Receive, childVars, gatewayVars
<1>2. \A q \in Runs : InLine(q)' <=> InLine(q)
  BY LineRead
<1>3. \A q \in Runs : (WithAgent(q)' <=> WithAgent(q)) /\ (Over(q)' <=> Over(q))
  BY <1>1, <1>2 DEF WithAgent, Over
<1>4. RunsEnterOnce'
  <2>1. \A q \in Runs : \A i, j \in DOMAIN toAgent' :
                 toAgent'[i] = RunCall(q) /\ toAgent'[j] = RunCall(q) => i = j
    BY LineRead
  <2> QED
    BY <1>1, <1>2, <1>3, <2>1 DEF ChildInv, RunsEnterOnce
<1>5. ActiveWhileHeld' /\ OneRunOfASession'
  BY <1>1, <1>3 DEF ChildInv, ActiveWhileHeld, OneRunOfASession
<1>6. Said(c, ok).call = c /\ Said(c, ok).ok = ok
  BY DEF Said, Answer
<1>7. AnswersComeLast'
  BY <1>3, <1>6 DEF ChildInv, AnswersComeLast
<1>8. StopsReachTheRun'
  BY <1>1, <1>3, <1>6 DEF ChildInv, StopsReachTheRun
<1> QED
  BY <1>4, <1>5, <1>7, <1>8 DEF ChildInv

\* A turn is over: its answer is written and nothing of it is left.
LEMMA EndKeepsChild ==
    ASSUME TypeOK, ChildInv, NEW r \in Runs, TurnReturns(r) \/ TurnThrows(r)
    PROVE  ChildInv'
<1>1. /\ DropHandle(r) /\ handle[r] # "none"
      /\ \E a : /\ toGateway' = toGateway \cup {a} /\ a.call = RunCall(r)
                /\ a.ok => a.outcome \in Outcomes
  <2>1. CASE TurnReturns(r)
    <3>1. /\ Answer(RunCall(r), TRUE, handle[r], inbox[r]).call = RunCall(r)
          /\ Answer(RunCall(r), TRUE, handle[r], inbox[r]).outcome = handle[r]
      BY DEF Answer
    <3>2. /\ DropHandle(r) /\ handle[r] \in Outcomes
          /\ toGateway' = toGateway \cup {Answer(RunCall(r), TRUE, handle[r], inbox[r])}
      BY <2>1 DEF TurnReturns
    <3> QED
      BY <3>1, <3>2 DEF Outcomes
  <2>2. CASE TurnThrows(r)
    <3>1. Said(RunCall(r), FALSE).call = RunCall(r) /\ ~Said(RunCall(r), FALSE).ok
      BY DEF Said, Answer
    <3>2. /\ DropHandle(r) /\ handle[r] = "threw"
          /\ toGateway' = toGateway \cup {Said(RunCall(r), FALSE)}
      BY <2>2 DEF TurnThrows
    <3> QED
      BY <3>1, <3>2
  <2> QED
    BY <2>1, <2>2
<1>2. PICK a : /\ toGateway' = toGateway \cup {a} /\ a.call = RunCall(r)
               /\ a.ok => a.outcome \in Outcomes
  BY <1>1
<1>3. /\ handle' = [handle EXCEPT ![r] = "none"] /\ aborted' = aborted \ {r}
      /\ UNCHANGED <<toAgent, turn, stop, connection>>
  BY <1>1 DEF DropHandle, childVars, gatewayVars
<1>4. handle'[r] = "none" /\ \A q \in Runs \ {r} : handle'[q] = handle[q]
  BY <1>3 DEF TypeOK
<1>5. \A q \in Runs : InLine(q)' <=> InLine(q)
  BY <1>3 DEF InLine
<1>6. Over(r)' /\ \A q \in Runs \ {r} : (WithAgent(q)' <=> WithAgent(q)) /\ (Over(q)' <=> Over(q))
  BY <1>1, <1>3, <1>4, <1>5 DEF ChildInv, RunsEnterOnce, WithAgent, Over
<1>7. \A q \in Runs : WithAgent(q)' => WithAgent(q)
  BY <1>4, <1>5 DEF WithAgent
<1>8. RunsEnterOnce'
  BY <1>3, <1>4, <1>5, <1>7 DEF ChildInv, RunsEnterOnce
<1>9. ActiveWhileHeld' /\ OneRunOfASession'
  BY <1>3, <1>7 DEF ChildInv, ActiveWhileHeld, OneRunOfASession
<1>10. AnswersComeLast'
  BY <1>2, <1>6, CallsDiffer DEF ChildInv, AnswersComeLast
<1>11. StopsReachTheRun'
  BY <1>2, <1>3, <1>6, CallsDiffer DEF ChildInv, StopsReachTheRun
<1> QED
  BY <1>8, <1>9, <1>10, <1>11 DEF ChildInv

\* The calls cs are rejected while nothing happens in the agent.
LEMMA RejectionKeepsChild ==
    ASSUME TypeOK, GatewayInv, ChildInv, NEW cs \in SUBSET calls, Rejected(cs),
           UNCHANGED <<toAgent, agentVars>>, toGateway' \subseteq toGateway,
           \/ connection' = "failed"
           \/ connection' = connection /\ \A r \in Runs : RunCall(r) \in cs => Over(r)
    PROVE  ChildInv'
<1>1. \A r \in Runs :
         turn'[r] = IF RunCall(r) \notin cs THEN turn[r]
                    ELSE IF stop[r] = "acknowledged" THEN "cancelled" ELSE "failed"
  BY DEF Rejected
<1>2. \A r \in Runs : stop'[r] = "acknowledged" => stop[r] = "acknowledged"
  BY DEF Rejected
<1>3. \A r \in Runs : turn'[r] = "waiting" <=> turn[r] = "waiting"
  BY <1>1 DEF GatewayInv, CallersMatchCalls
<1>4. \A r \in Runs : WithAgent(r) /\ turn[r] = "active" =>
                         turn'[r] = "active" \/ connection' = "failed"
  BY <1>1 DEF Over
<1>5. handle' = handle /\ aborted' = aborted /\ toAgent' = toAgent
  BY DEF agentVars
<1> QED
  BY <1>2, <1>3, <1>4, <1>5, NothingEnters

\* The child is gone, and what it had with it.
LEMMA ExitKeepsChild ==
    ASSUME TypeOK, ChildInv, HeldInv, Exit
    PROVE  ChildInv'
<1>1. Rejected(calls) /\ ForgetRuns /\ toAgent' = <<>> /\ toGateway' = {}
  BY DEF Exit
<1>2. \A r \in Runs : ~InLine(r)' /\ ~WithAgent(r)'
  BY <1>1 DEF InLine, WithAgent, ForgetRuns
<1>3. \A r \in Runs :
         turn'[r] = IF RunCall(r) \notin calls THEN turn[r]
                    ELSE IF stop[r] = "acknowledged" THEN "cancelled" ELSE "failed"
  BY <1>1 DEF Rejected
<1>4. \A r \in Runs : turn[r] # "waiting" => turn'[r] # "waiting"
  BY <1>3
<1>5. \A r \in Runs : stop'[r] = "acknowledged" => stop[r] = "acknowledged"
  BY <1>1 DEF Rejected
<1>6. ASSUME NEW r \in Runs, stop'[r] = "acknowledged" PROVE Over(r)'
  <2>1. stop[r] = "acknowledged"
    BY <1>5, <1>6
  <2>2. turn[r] # "waiting"
    BY <2>1 DEF HeldInv, ChildInv, RunsEnterOnce, WithAgent, StopsReachTheRun, Over
  <2> QED
    BY <1>2, <1>4, <2>2 DEF Over
<1>7. RunsEnterOnce'
  BY <1>1, <1>2 DEF RunsEnterOnce
<1>8. ActiveWhileHeld' /\ OneRunOfASession'
  BY <1>2 DEF ActiveWhileHeld, OneRunOfASession
<1>9. AnswersComeLast' /\ StopsReachTheRun'
  BY <1>1, <1>6 DEF AnswersComeLast, StopsReachTheRun
<1> QED
  BY <1>7, <1>8, <1>9 DEF ChildInv

\* An answer arrives: what it settles the agent has no more.
LEMMA ResponsesKeepChild ==
    ASSUME RunsInv, Respond
    PROVE  ChildInv'
<1>1. PICK a \in toGateway :
          \/ Unmatched(a)
          \/ \E r \in Runs : RunAnswered(r, a)
          \/ \E r \in Runs, n \in 1..MaxStops : CancelAnswered(r, n, a)
          \/ \E m \in Messages : SteerAnswered(m, a)
  BY DEF Respond
<1>2. TypeOK /\ GatewayInv /\ ChildInv
  BY DEF RunsInv
<1>3. /\ toGateway' = toGateway \ {a} /\ connection' = connection
      /\ UNCHANGED <<toAgent, handle, aborted>> /\ UNCHANGED agentVars
  BY <1>1 DEF Unmatched, RunAnswered, CancelAnswered, SteerAnswered, HandleResponse,
     childVars, agentVars
<1>4. CASE Unmatched(a)
  <2>1. UNCHANGED <<turn, stop>>
    BY <1>4 DEF Unmatched, gatewayVars
  <2> QED
    BY <1>2, <1>3, <2>1, NothingEnters
<1>5. ASSUME NEW r \in Runs, RunAnswered(r, a) PROVE ChildInv'
  <2>1. a.call = RunCall(r) /\ RunCall(r) \in calls
    BY <1>5 DEF RunAnswered
  <2>2. Over(r) /\ (a.ok => a.outcome \in Outcomes)
    BY <1>2, <2>1 DEF ChildInv, AnswersComeLast
  <2>3. turn[r] = "active"
    BY <1>2, <2>1 DEF GatewayInv, CallersMatchCalls
  <2>4. CASE Rejected({RunCall(r)})
    <3>1. \A q \in Runs : RunCall(q) \in {RunCall(r)} => Over(q)
      BY <2>2, CallsDiffer
    <3> QED
      BY <1>2, <1>3, <2>1, <2>4, <3>1, RejectionKeepsChild
  <2>5. CASE a.ok /\ ~Rejected({RunCall(r)})
    <3>1. /\ turn' = [turn EXCEPT ![r] = IF stop[r] = "acknowledged" THEN "cancelled"
                                          ELSE a.outcome]
          /\ stop' = stop
      BY <1>5, <2>5 DEF RunAnswered
    <3>2. /\ turn'[r] # "waiting" /\ turn[r] # "waiting" /\ ~WithAgent(r)
          /\ \A q \in Runs \ {r} : turn'[q] = turn[q]
      BY <1>2, <2>2, <2>5, <3>1 DEF TypeOK, Over, Outcomes
    <3> QED
      BY <1>2, <1>3, <3>1, <3>2, NothingEnters
  <2> QED
    BY <1>5, <2>4, <2>5 DEF RunAnswered
<1>6. ASSUME NEW r \in Runs, NEW n \in 1..MaxStops, CancelAnswered(r, n, a) PROVE ChildInv'
  <2>1. /\ a.call = CancelCall(r, n) /\ turn' = turn
        /\ stop' = [stop EXCEPT ![r] = IF a.ok THEN "acknowledged" ELSE "none"]
    BY <1>6 DEF CancelAnswered
  <2>2. \A q \in Runs : stop'[q] = "acknowledged" =>
                           stop[q] = "acknowledged" \/ q \in aborted \/ Over(q)
    BY <1>2, <2>1 DEF TypeOK, ChildInv, StopsReachTheRun
  <2> QED
    BY <1>2, <1>3, <2>1, <2>2, NothingEnters
<1>7. ASSUME NEW m \in Messages, SteerAnswered(m, a) PROVE ChildInv'
  <2>1. UNCHANGED <<turn, stop>>
    BY <1>7 DEF SteerAnswered
  <2> QED
    BY <1>2, <1>3, <2>1, NothingEnters
<1> QED
  BY <1>1, <1>4, <1>5, <1>6, <1>7

\* What happens within a turn leaves the agent the runs it has.
LEMMA TurnKeepsChild ==
    ASSUME TypeOK, ChildInv, HeldInv,
           \/ AbortActiveTurns
           \/ \E r \in Runs : DrainSteering(r) \/ AppendSteering(r) \/ AppendFails(r)
           \/ \E r \in Runs, outcome \in Outcomes \cup {"threw"} : TurnEnds(r, outcome)
    PROVE  ChildInv'
<1>1. UNCHANGED <<turn, stop, connection, toAgent, toGateway>>
  BY DEF AbortActiveTurns, DrainSteering, AppendSteering, AppendFails, TurnEnds, wireVars,
     childVars, gatewayVars
<1>2. aborted' = aborted \cup {r \in Runs : handle[r] # "none"} \/ aborted' = aborted
  BY DEF AbortActiveTurns, DrainSteering, AppendSteering, AppendFails, TurnEnds
<1>3. \A r \in Runs : handle'[r] = "none" <=> handle[r] = "none"
  <2>1. CASE handle' = handle
    BY <2>1
  <2>2. ASSUME NEW r \in Runs, AppendFails(r)
        PROVE  \A q \in Runs : handle'[q] = "none" <=> handle[q] = "none"
    <3>1. handle[r] # "none"
      BY <2>2 DEF HeldInv, AppendFails
    <3>2. handle' = [handle EXCEPT ![r] = IF r \in aborted THEN "cancelled" ELSE "error"]
      BY <2>2 DEF AppendFails
    <3> QED
      BY <3>1, <3>2 DEF TypeOK
  <2>3. ASSUME NEW r \in Runs, NEW outcome \in Outcomes \cup {"threw"}, TurnEnds(r, outcome)
        PROVE  \A q \in Runs : handle'[q] = "none" <=> handle[q] = "none"
    BY <2>3 DEF TurnEnds, TypeOK, Outcomes
  <2> QED
    BY <2>1, <2>2, <2>3 DEF AbortActiveTurns, DrainSteering, AppendSteering
<1> QED
  BY <1>1, <1>2, <1>3, NothingEnters

\* Every step keeps what the agent's runs rest on.
LEMMA NextKeepsChild ==
    ASSUME RunsInv, AgentRunsAssumption, [Next]_vars
    PROVE  ChildInv'
<1>1. TypeOK /\ GatewayInv /\ HeldInv /\ ChildInv
  BY DEF RunsInv
<1>2. CASE UNCHANGED vars
  <2>1. UNCHANGED <<turn, stop, connection, toAgent, toGateway, handle, aborted>>
    BY <1>2 DEF vars, gatewayVars, childVars, wireVars, agentVars
  <2> QED
    BY <1>1, <2>1, NothingEnters
<1>3. ASSUME NEW r \in Runs, RequestStop(r) PROVE ChildInv'
  <2>1. stops[r] + 1 \in 1..MaxStops
    BY <1>1, <1>3 DEF RequestStop, TypeOK, AgentRunsAssumption
  <2>2. CancelCall(r, stops[r] + 1) \in Calls
    BY <2>1 DEF Calls
  <2>3. /\ Request(CancelCall(r, stops[r] + 1))
        /\ UNCHANGED <<turn, connection, handle, aborted>>
        /\ stop' = [stop EXCEPT ![r] = "requested"]
    BY <1>3 DEF RequestStop, childVars, agentVars
  <2>4. \A q \in Runs : stop'[q] = "acknowledged" => stop[q] = "acknowledged"
    BY <1>1, <2>3 DEF TypeOK
  <2> QED
    BY <1>1, <2>2, <2>3, <2>4, CallsDiffer, OtherRequests
<1>4. ASSUME NEW m \in Messages, NEW r \in Runs, SteerActive(m, r) PROVE ChildInv'
  <2>1. SteerCall(m) \in Calls
    BY DEF Calls
  <2>2. /\ Request(SteerCall(m)) /\ UNCHANGED <<turn, stop, connection, handle, aborted>>
    BY <1>4 DEF SteerActive, childVars, agentVars
  <2> QED
    BY <1>1, <2>1, <2>2, CallsDiffer, OtherRequests
<1>5. ASSUME NEW c \in Calls, TimeOut(c) PROVE ChildInv'
  <2>1. /\ Rejected({c}) /\ UNCHANGED <<toAgent, toGateway, connection, agentVars>>
        /\ \A r \in Runs : RunCall(r) # c
    BY <1>5 DEF TimeOut, childVars
  <2> QED
    BY <1>1, <1>5, <2>1, RejectionKeepsChild DEF TimeOut
<1>6. CASE FailConnection
  <2>1. /\ Rejected(calls) /\ UNCHANGED <<toAgent, agentVars>>
        /\ toGateway' \subseteq toGateway /\ connection' = "failed"
    BY <1>6 DEF FailConnection
  <2> QED
    BY <1>1, <2>1, RejectionKeepsChild
<1>7. CASE Launch \/ Initialized
  <2>1. /\ UNCHANGED <<turn, stop, toAgent, toGateway, handle, aborted>>
        /\ connection # "failed"
    BY <1>7 DEF Launch, Initialized, gatewayVars, wireVars, agentVars
  <2> QED
    BY <1>1, <2>1, NothingEnters
<1>8. ASSUME NEW r \in Runs, NEW n \in 1..MaxStops, ReceiveCancel(r, n) PROVE ChildInv'
  <2> DEFINE found == handle[r] # "none"
  <2>1. /\ Receive(CancelCall(r, n))
        /\ toGateway' = toGateway \cup {Said(CancelCall(r, n), found)}
        /\ handle' = handle /\ aborted \subseteq aborted' /\ (found => r \in aborted')
    BY <1>8 DEF ReceiveCancel
  <2> HIDE DEF found
  <2>2. \A q \in Runs, k \in 1..MaxStops :
           CancelCall(r, n) = CancelCall(q, k) /\ found => q \in aborted'
    BY <2>1, CallsDiffer
  <2>3. \A q \in Runs : CancelCall(r, n) # RunCall(q)
    BY CallsDiffer
  <2> QED
    BY <1>1, <2>1, <2>2, <2>3, OtherLinesKeepChild
<1>9. ASSUME NEW m \in Messages, ReceiveSteer(m) PROVE ChildInv'
  <2> DEFINE taken == handle[steeredRun[m]] # "none" /\ steeredRun[m] \notin aborted
  <2>1. /\ Receive(SteerCall(m))
        /\ toGateway' = toGateway \cup {Said(SteerCall(m), taken)}
        /\ UNCHANGED <<handle, aborted>>
    BY <1>9 DEF ReceiveSteer
  <2> HIDE DEF taken
  <2>2. /\ \A q \in Runs, k \in 1..MaxStops : SteerCall(m) # CancelCall(q, k)
        /\ \A q \in Runs : SteerCall(m) # RunCall(q)
    BY CallsDiffer
  <2> QED
    BY <1>1, <2>1, <2>2, OtherLinesKeepChild
<1>10. \/ UNCHANGED vars
       \/ \E r \in Runs : StartTurn(r) \/ RequestStop(r) \/ ReceiveRun(r)
       \/ \E m \in Messages, r \in Runs : SteerActive(m, r)
       \/ \E c \in Calls : TimeOut(c)
       \/ Launch \/ Initialized \/ FailConnection \/ Exit
       \/ \E r \in Runs, n \in 1..MaxStops : ReceiveCancel(r, n)
       \/ \E m \in Messages : ReceiveSteer(m)
       \/ AbortActiveTurns
       \/ \E r \in Runs : DrainSteering(r) \/ AppendSteering(r) \/ AppendFails(r)
       \/ \E r \in Runs, outcome \in Outcomes \cup {"threw"} : TurnEnds(r, outcome)
       \/ \E r \in Runs : TurnReturns(r) \/ TurnThrows(r)
       \/ Respond
  BY DEF Next, Dispatch
<1> QED
  BY <1>1, <1>2, <1>3, <1>4, <1>5, <1>6, <1>7, <1>8, <1>9, <1>10, StartKeepsChild,
     ArrivalKeepsChild, ExitKeepsChild, TurnKeepsChild, EndKeepsChild, ResponsesKeepChild

\* Every step leaves what is aborted, or has messages to write, a run the agent has.
LEMMA NextKeepsHeld ==
    ASSUME RunsInv, [Next]_vars
    PROVE  HeldInv'
<1>1. TypeOK /\ HeldInv
  BY DEF RunsInv
<1>2. CASE UNCHANGED <<handle, aborted, batch>>
  BY <1>1, <1>2 DEF HeldInv
<1>3. CASE Exit
  BY <1>3 DEF Exit, ForgetRuns, HeldInv
<1>4. ASSUME NEW r \in Runs, ReceiveRun(r) PROVE HeldInv'
  BY <1>1, <1>4 DEF ReceiveRun, HeldInv, TypeOK
<1>5. ASSUME NEW r \in Runs, NEW n \in 1..MaxStops, ReceiveCancel(r, n) PROVE HeldInv'
  BY <1>1, <1>5 DEF ReceiveCancel, HeldInv
<1>6. CASE AbortActiveTurns
  BY <1>1, <1>6 DEF AbortActiveTurns, HeldInv
<1>7. ASSUME NEW r \in Runs, DrainSteering(r) \/ AppendSteering(r) \/ AppendFails(r)
      PROVE  HeldInv'
  <2>1. CASE DrainSteering(r)
    BY <1>1, <2>1 DEF DrainSteering, HeldInv, TypeOK
  <2>2. CASE AppendSteering(r)
    BY <1>1, <2>2 DEF AppendSteering, HeldInv, TypeOK
  <2>3. CASE AppendFails(r)
    BY <1>1, <2>3 DEF AppendFails, HeldInv, TypeOK
  <2> QED
    BY <1>7, <2>1, <2>2, <2>3
<1>8. ASSUME NEW r \in Runs, NEW outcome \in Outcomes \cup {"threw"}, TurnEnds(r, outcome)
      PROVE  HeldInv'
  <2>1. /\ handle' = [handle EXCEPT ![r] = outcome] /\ outcome # "none"
        /\ batch[r] = <<>> /\ UNCHANGED <<aborted, batch>>
    BY <1>8 DEF TurnEnds, Outcomes
  <2> QED
    BY <1>1, <2>1 DEF HeldInv, TypeOK
<1>9. ASSUME NEW r \in Runs, TurnReturns(r) \/ TurnThrows(r) PROVE HeldInv'
  <2>1. /\ handle' = [handle EXCEPT ![r] = "none"] /\ aborted' = aborted \ {r}
        /\ batch' = batch /\ handle[r] # "running"
    BY <1>9 DEF TurnReturns, TurnThrows, DropHandle, Outcomes
  <2> QED
    BY <1>1, <2>1 DEF HeldInv, TypeOK
<1>10. \/ UNCHANGED <<handle, aborted, batch>>
       \/ \E r \in Runs : ReceiveRun(r)
       \/ \E r \in Runs, n \in 1..MaxStops : ReceiveCancel(r, n)
       \/ Exit \/ AbortActiveTurns
       \/ \E r \in Runs : DrainSteering(r) \/ AppendSteering(r) \/ AppendFails(r)
       \/ \E r \in Runs, outcome \in Outcomes \cup {"threw"} : TurnEnds(r, outcome)
       \/ \E r \in Runs : TurnReturns(r) \/ TurnThrows(r)
  BY DEF Next, vars, agentVars, StartTurn, RequestStop, SteerActive, TimeOut, Launch,
     Initialized, FailConnection, Dispatch, ReceiveSteer, Respond, Unmatched, RunAnswered,
     CancelAnswered, SteerAnswered, HandleResponse
<1> QED
  BY <1>2, <1>3, <1>4, <1>5, <1>6, <1>7, <1>8, <1>9, <1>10

\* Every step keeps the inductive invariant.
LEMMA NextKeepsRuns ==
    ASSUME AgentRunsAssumption, RunsInv, [Next]_vars
    PROVE  RunsInv'
  BY NextTypes, NextKeepsGateway, NextKeepsHeld, NextKeepsChild DEF RunsInv

\* What it says of the calls, of the sessions and of the stops.
LEMMA RunsAgree ==
    ASSUME RunsInv
    PROVE  AgentRunsInv /\ SessionRunsAlone /\ AcknowledgedStopAborts
<1>1. AgentRunsInv
  BY DEF RunsInv, GatewayInv, AgentRunsInv
<1>2. SessionRunsAlone
  BY DEF RunsInv, ChildInv, OneRunOfASession, SessionRunsAlone, WithAgent
<1>3. AcknowledgedStopAborts
  BY DEF RunsInv, ChildInv, StopsReachTheRun, AcknowledgedStopAborts, Over, WithAgent
<1> QED
  BY <1>1, <1>2, <1>3

-----------------------------------------------------------------------------
(* Steering *)

\* The sequence s has the element e.
Holds(s, e) == \E i \in DOMAIN s : s[i] = e

\* And has it once at most.
HoldsOnce(s, e) == \A i, j \in DOMAIN s : s[i] = e /\ s[j] = e => i = j

\* Where a message may be: on its way to the agent, in the inbox of a run, drained by it, in
\* the history, left over in the answer of a run, back in the queue.
OnTheWay(m) == Holds(toAgent, SteerCall(m))
Boxed(m) == \E r \in Runs : Holds(inbox[r], m)
Drained(m) == \E r \in Runs : Holds(batch[r], m)
Written(m) == m \in transcript
LeftOver(m) == \E a \in toGateway : Holds(a.rest, m)
Queued(m) == m \in requeued

\* The agent took the message, and it is not lost.
Taken(m) == Boxed(m) \/ Drained(m) \/ Written(m) \/ LeftOver(m) \/ Queued(m)

\* The sender is told what became of it, or will be if it still waits.
Answered(m) == \E a \in toGateway : a.call = SteerCall(m)
Accepted(m) ==
    steering[m] = "accepted" \/ \E a \in toGateway : a.call = SteerCall(m) /\ a.ok
Declined(m) ==
    steering[m] = "declined" \/ \E a \in toGateway : a.call = SteerCall(m) /\ ~a.ok

\* A message goes to one run, which was started.
Destined ==
    \A m \in Messages :
       /\ steering[m] = "new" => ~OnTheWay(m) /\ ~Answered(m) /\ ~Taken(m)
       /\ steering[m] # "new" => steeredRun[m] \in Runs /\ turn[steeredRun[m]] # "waiting"
       /\ \A r \in Runs : Holds(inbox[r], m) \/ Holds(batch[r], m) => r = steeredRun[m]
       /\ \A a \in toGateway : Holds(a.rest, m) => a.call = RunCall(steeredRun[m])

\* No message is twice in a line, an inbox or a batch.
NothingTwice ==
    \A m \in Messages :
       /\ HoldsOnce(toAgent, SteerCall(m))
       /\ \A r \in Runs : HoldsOnce(inbox[r], m) /\ HoldsOnce(batch[r], m)

\* A message is in one place, and in none once its sender is told to queue it.
OnePlace ==
    \A m \in Messages :
       /\ OnTheWay(m) => ~Taken(m) /\ ~Answered(m) /\ steering[m] \in {"sent", "failed"}
       /\ Boxed(m) => ~Drained(m) /\ ~Written(m) /\ ~LeftOver(m) /\ ~Queued(m)
       /\ Drained(m) => ~Written(m) /\ ~LeftOver(m) /\ ~Queued(m)
       /\ LeftOver(m) => ~Written(m) /\ ~Queued(m)
       /\ ~(Written(m) /\ Queued(m))
       /\ Declined(m) => ~Taken(m)

\* A run is answered once: one that completed has no other answer, and nothing is left with
\* the agent of it.
OneAnswer ==
    \A r \in Runs :
       /\ \A a, b \in toGateway : a.call = RunCall(r) /\ b.call = RunCall(r) => a = b
       /\ turn[r] = "completed" => ~WithAgent(r) /\ \A a \in toGateway : a.call # RunCall(r)
       /\ inbox[r] # <<>> => handle[r] # "none"

\* The run did not complete, and will not.
Spoilt(r) ==
    \/ turn[r] \in {"failed", "cancelled", "error"}
    \/ handle[r] \in {"cancelled", "error", "threw"}
    \/ \E a \in toGateway : a.call = RunCall(r) /\ (a.ok => a.outcome # "completed")

\* A message is lost only with the run that took it.
NothingLost == \A m \in Messages : Accepted(m) => Taken(m) \/ Spoilt(steeredRun[m])

\* What steering rests on, besides RunsInv.
SteeringInv == Destined /\ NothingTwice /\ OnePlace /\ OneAnswer /\ NothingLost

-----------------------------------------------------------------------------
\* What a sequence has once an element was added.
LEMMA HoldsAdded ==
    ASSUME NEW S, NEW s \in Seq(S), NEW e \in S, NEW x
    PROVE  /\ Holds(Append(s, e), x) <=> Holds(s, x) \/ x = e
           /\ HoldsOnce(s, x) /\ (x = e => ~Holds(s, x)) => HoldsOnce(Append(s, e), x)
<1>1. /\ DOMAIN Append(s, e) = DOMAIN s \cup {Len(s) + 1} /\ Len(s) + 1 \notin DOMAIN s
      /\ \A i \in DOMAIN s : Append(s, e)[i] = s[i]
      /\ Append(s, e)[Len(s) + 1] = e
  OBVIOUS
<1> QED
  BY <1>1 DEF Holds, HoldsOnce

\* What it has once its first element was taken.
LEMMA HoldsTaken ==
    ASSUME NEW S, NEW s \in Seq(S), s # <<>>, NEW x
    PROVE  /\ Holds(s, x) <=> x = Head(s) \/ Holds(Tail(s), x)
           /\ HoldsOnce(s, x) => HoldsOnce(Tail(s), x)
           /\ HoldsOnce(s, x) /\ x = Head(s) => ~Holds(Tail(s), x)
<1>1. /\ Len(s) \in Nat \ {0} /\ DOMAIN s = 1..Len(s) /\ Head(s) = s[1]
      /\ DOMAIN Tail(s) = 1..(Len(s) - 1)
      /\ \A i \in 1..(Len(s) - 1) : Tail(s)[i] = s[i + 1]
  OBVIOUS
<1>2. Holds(s, x) => x = Head(s) \/ Holds(Tail(s), x)
  <2>1. ASSUME NEW i \in 1..Len(s), s[i] = x, i # 1 PROVE Holds(Tail(s), x)
    <3>1. i - 1 \in 1..(Len(s) - 1) /\ (i - 1) + 1 = i
      BY <1>1, <2>1
    <3> QED
      BY <1>1, <2>1, <3>1 DEF Holds
  <2> QED
    BY <1>1, <2>1 DEF Holds
<1>3. x = Head(s) \/ Holds(Tail(s), x) => Holds(s, x)
  BY <1>1 DEF Holds
<1>4. HoldsOnce(s, x) => HoldsOnce(Tail(s), x)
  BY <1>1 DEF HoldsOnce
<1>5. HoldsOnce(s, x) /\ x = Head(s) => ~Holds(Tail(s), x)
  <2>1. \A i \in 1..(Len(s) - 1) : i + 1 \in 1..Len(s) /\ i + 1 # 1
    BY <1>1
  <2> QED
    BY <1>1, <2>1 DEF HoldsOnce, Holds
<1> QED
  BY <1>2, <1>3, <1>4, <1>5

\* An empty sequence has nothing.
LEMMA HoldsNothing == \A x : ~Holds(<<>>, x) /\ HoldsOnce(<<>>, x)
  BY DEF Holds, HoldsOnce

\* What Rejected() makes of runs and messages: it settles those that wait.
LEMMA RejectionSettles ==
    ASSUME TypeOK, CallersMatchCalls, NEW cs, cs \subseteq calls, Rejected(cs)
    PROVE  /\ \A m \in Messages : \/ steering'[m] = steering[m]
                                  \/ steering[m] = "sent" /\ steering'[m] = "failed"
           /\ \A r \in Runs : \/ turn'[r] = turn[r]
                              \/ turn[r] = "active" /\ turn'[r] \in {"failed", "cancelled"}
           /\ \A r \in Runs : RunCall(r) \in cs => turn'[r] \in {"failed", "cancelled"}
           /\ steeredRun' = steeredRun /\ requeued' = requeued
  BY DEF Rejected, CallersMatchCalls

\* A step that brings no answer to a run or a message and leaves what was taken where it is;
\* it may settle runs and messages that wait, start a run, or let the agent go on with it.
LEMMA OthersKeepSteering ==
    ASSUME TypeOK, SteeringInv,
           UNCHANGED <<inbox, batch, transcript, requeued, steeredRun>>,
           \A m \in Messages : /\ OnTheWay(m)' => OnTheWay(m)
                               /\ HoldsOnce(toAgent', SteerCall(m)),
           \A m \in Messages : \/ steering'[m] = steering[m]
                               \/ steering[m] = "sent" /\ steering'[m] = "failed",
           \A r \in Runs : \/ turn'[r] = turn[r]
                           \/ turn[r] = "waiting" /\ turn'[r] = "active"
                           \/ turn[r] = "active" /\ turn'[r] \in {"failed", "cancelled"},
           \A r \in Runs : \/ handle'[r] = handle[r]
                           \/ handle[r] \in {"none", "running"} /\ handle'[r] # "none",
           \A r \in Runs : turn[r] = "completed" /\ WithAgent(r)' => WithAgent(r),
           \A r \in Runs : \A a : a.call = RunCall(r) => (a \in toGateway' <=> a \in toGateway),
           \A m \in Messages : \A a :
              a.call = SteerCall(m) => (a \in toGateway' <=> a \in toGateway),
           \A a \in toGateway' : a \in toGateway \/ a.rest = <<>>
    PROVE  SteeringInv'
<1> USE DEF SteeringInv
<1>1. ASSUME NEW m \in Messages
      PROVE  /\ Answered(m)' <=> Answered(m)
             /\ Declined(m)' => Declined(m)
             /\ Accepted(m)' => Accepted(m)
  BY DEF Answered, Declined, Accepted
<1>2. ASSUME NEW m \in Messages
      PROVE  LeftOver(m)' <=> LeftOver(m)
  <2>1. \A a \in toGateway : Holds(a.rest, m) => a.call = RunCall(steeredRun[m])
    BY DEF Destined
  <2>2. LeftOver(m)' => LeftOver(m)
    BY HoldsNothing DEF LeftOver
  <2>3. LeftOver(m) => steering[m] # "new"
    BY DEF Destined, Taken
  <2>4. LeftOver(m) => steeredRun[m] \in Runs
    BY <2>3 DEF Destined
  <2>5. LeftOver(m) => LeftOver(m)'
    BY <2>1, <2>4 DEF LeftOver
  <2> QED
    BY <2>2, <2>5
<1>3. ASSUME NEW m \in Messages
      PROVE  /\ Boxed(m)' <=> Boxed(m)
             /\ Drained(m)' <=> Drained(m)
             /\ Written(m)' <=> Written(m)
             /\ Queued(m)' <=> Queued(m)
  BY DEF Boxed, Drained, Written, Queued
<1>4. \A m \in Messages : Taken(m)' <=> Taken(m)
  BY <1>2, <1>3 DEF Taken
<1>5. Destined'
  <2>1. ASSUME NEW m \in Messages
        PROVE  /\ steering'[m] = "new" =>
                     steering[m] = "new" /\ ~OnTheWay(m)' /\ ~Answered(m)' /\ ~Taken(m)'
               /\ steering'[m] # "new" =>
                     steeredRun'[m] \in Runs /\ turn'[steeredRun'[m]] # "waiting"
    <3>1. steering'[m] = "new" => steering[m] = "new"
      OBVIOUS
    <3>2. steering'[m] # "new" => steering[m] # "new"
      OBVIOUS
    <3>3. \A r \in Runs : turn[r] # "waiting" => turn'[r] # "waiting"
      OBVIOUS
    <3> QED
      BY <1>1, <1>4, <3>1, <3>2, <3>3 DEF Destined
  <2>2. \A m \in Messages : \A a \in toGateway' :
           Holds(a.rest, m) => a.call = RunCall(steeredRun'[m])
    BY HoldsNothing DEF Destined
  <2> QED
    BY <2>1, <2>2 DEF Destined
<1>6. NothingTwice'
  BY DEF NothingTwice
<1>7. OnePlace'
  BY <1>1, <1>2, <1>3, <1>4 DEF OnePlace
<1>8. OneAnswer'
  <2>1. ASSUME NEW r \in Runs, turn'[r] = "completed"
        PROVE  turn[r] = "completed" /\ ~WithAgent(r)' /\ \A a \in toGateway' : a.call # RunCall(r)
    <3>1. turn[r] = "completed"
      BY <2>1
    <3> QED
      BY <3>1 DEF OneAnswer
  <2>2. ASSUME NEW r \in Runs, inbox'[r] # <<>> PROVE handle'[r] # "none"
    BY <2>2 DEF OneAnswer
  <2> QED
    BY <2>1, <2>2 DEF OneAnswer
<1>9. NothingLost'
  <2>1. ASSUME NEW r \in Runs, Spoilt(r) PROVE Spoilt(r)'
    BY <2>1 DEF Spoilt
  <2>2. ASSUME NEW m \in Messages, Accepted(m) PROVE steeredRun[m] \in Runs
    <3>1. steering[m] # "new"
      BY <2>2 DEF Destined, Accepted, Answered
    <3> QED
      BY <3>1 DEF Destined
  <2> QED
    BY <1>1, <1>4, <2>1, <2>2 DEF NothingLost
<1> QED
  BY <1>5, <1>6, <1>7, <1>8, <1>9

\* No message is with the agent yet.
LEMMA InitSteering ==
    ASSUME Init
    PROVE  SteeringInv
<1>1. /\ toAgent = <<>> /\ toGateway = {} /\ transcript = {} /\ requeued = {}
      /\ \A r \in Runs : inbox[r] = <<>> /\ batch[r] = <<>> /\ turn[r] = "waiting"
      /\ \A m \in Messages : steering[m] = "new"
  BY DEF Init
<1>2. \A m \in Messages : ~OnTheWay(m) /\ ~Answered(m) /\ ~Taken(m) /\ ~Accepted(m)
  BY <1>1, HoldsNothing DEF OnTheWay, Answered, Taken, Boxed, Drained, Written, LeftOver,
     Queued, Accepted
<1>3. Destined
  BY <1>1, <1>2, HoldsNothing DEF Destined
<1>4. NothingTwice
  BY <1>1, HoldsNothing DEF NothingTwice
<1>5. OnePlace
  BY <1>2 DEF OnePlace, Taken, Declined, Answered
<1>6. OneAnswer
  BY <1>1 DEF OneAnswer
<1>7. NothingLost
  BY <1>2 DEF NothingLost
<1> QED
  BY <1>3, <1>4, <1>5, <1>6, <1>7 DEF SteeringInv

\* What a request adds to the lines on their way, and what reading the next takes from them.
LEMMA LinesMove ==
    ASSUME TypeOK, SteeringInv, NEW c
    PROVE  /\ c \in Calls /\ Request(c) =>
                 /\ \A m \in Messages : OnTheWay(m)' <=> OnTheWay(m) \/ SteerCall(m) = c
                 /\ \A m \in Messages : ~OnTheWay(m) \/ SteerCall(m) # c =>
                                           HoldsOnce(toAgent', SteerCall(m))
                 /\ toGateway' = toGateway /\ calls' = calls \cup {c}
           /\ Receive(c) =>
                 /\ \A m \in Messages : OnTheWay(m) <=> OnTheWay(m)' \/ SteerCall(m) = c
                 /\ \A m \in Messages : HoldsOnce(toAgent', SteerCall(m))
                 /\ \A m \in Messages : SteerCall(m) = c => OnTheWay(m) /\ ~OnTheWay(m)'
<1>1. toAgent \in Seq(Calls) /\ \A m \in Messages : HoldsOnce(toAgent, SteerCall(m))
  BY DEF TypeOK, SteeringInv, NothingTwice
<1>2. ASSUME c \in Calls, Request(c)
      PROVE  /\ \A m \in Messages : OnTheWay(m)' <=> OnTheWay(m) \/ SteerCall(m) = c
             /\ \A m \in Messages : ~OnTheWay(m) \/ SteerCall(m) # c =>
                                       HoldsOnce(toAgent', SteerCall(m))
             /\ toGateway' = toGateway /\ calls' = calls \cup {c}
  <2>1. toAgent' = Append(toAgent, c) /\ toGateway' = toGateway /\ calls' = calls \cup {c}
    BY <1>2 DEF Request
  <2> QED
    BY <1>1, <1>2, <2>1, HoldsAdded DEF OnTheWay
<1>3. ASSUME Receive(c)
      PROVE  /\ \A m \in Messages : OnTheWay(m) <=> OnTheWay(m)' \/ SteerCall(m) = c
             /\ \A m \in Messages : HoldsOnce(toAgent', SteerCall(m))
             /\ \A m \in Messages : SteerCall(m) = c => OnTheWay(m) /\ ~OnTheWay(m)'
  <2>1. toAgent # <<>> /\ c = Head(toAgent) /\ toAgent' = Tail(toAgent)
    BY <1>3 DEF Receive
  <2> QED
    BY <1>1, <2>1, HoldsTaken DEF OnTheWay
<1> QED
  BY <1>2, <1>3

\* Starting and stopping runs, giving a call up, and losing the connection settle what waits.
LEMMA GatewayKeepsSteering ==
    ASSUME AgentRunsAssumption, RunsInv, SteeringInv,
           \/ \E r \in Runs : StartTurn(r) \/ RequestStop(r)
           \/ \E c \in Calls : TimeOut(c)
           \/ Launch \/ Initialized \/ FailConnection
    PROVE  SteeringInv'
<1>1. TypeOK /\ CallersMatchCalls
  BY DEF RunsInv, GatewayInv
<1>2. \A m \in Messages : HoldsOnce(toAgent, SteerCall(m))
  BY DEF SteeringInv, NothingTwice
<1>3. ASSUME NEW r \in Runs, StartTurn(r) PROVE SteeringInv'
  <2>1. /\ turn[r] = "waiting" /\ turn' = [turn EXCEPT ![r] = "active"]
        /\ Request(RunCall(r)) /\ RunCall(r) \in Calls
        /\ UNCHANGED <<inbox, batch, transcript, requeued, steeredRun, steering, handle>>
    BY <1>3 DEF StartTurn, agentVars, Calls
  <2>2. /\ \A m \in Messages : OnTheWay(m)' => OnTheWay(m)
        /\ \A m \in Messages : HoldsOnce(toAgent', SteerCall(m))
        /\ toGateway' = toGateway
    BY <1>1, <2>1, LinesMove, CallsDiffer
  <2>3. \A q \in Runs : WithAgent(q)' <=> WithAgent(q) \/ q = r
    BY <1>1, <2>1, LineAdded, CallsDiffer
  <2>4. \A q \in Runs : turn'[q] = turn[q] \/ (turn[q] = "waiting" /\ turn'[q] = "active")
    BY <1>1, <2>1 DEF TypeOK
  <2>5. \A q \in Runs : turn[q] = "completed" /\ WithAgent(q)' => WithAgent(q)
    BY <2>1, <2>3
  <2> QED
    BY <1>1, <2>1, <2>2, <2>4, <2>5, OthersKeepSteering
<1>4. ASSUME NEW r \in Runs, RequestStop(r) PROVE SteeringInv'
  <2> DEFINE c == CancelCall(r, stops[r] + 1)
  <2>1. stops[r] + 1 \in 1..MaxStops
    BY <1>1, <1>4 DEF RequestStop, TypeOK, AgentRunsAssumption
  <2>2. /\ c \in Calls /\ Request(c)
        /\ UNCHANGED <<inbox, batch, transcript, requeued, steeredRun, steering, handle, turn>>
    BY <1>4, <2>1 DEF RequestStop, agentVars, Calls
  <2>3. /\ \A m \in Messages : SteerCall(m) # c
        /\ \A q \in Runs : RunCall(q) # c
    BY CallsDiffer
  <2> HIDE DEF c
  <2>4. /\ \A m \in Messages : OnTheWay(m)' => OnTheWay(m)
        /\ \A m \in Messages : HoldsOnce(toAgent', SteerCall(m))
        /\ toGateway' = toGateway
    BY <1>1, <2>2, <2>3, LinesMove
  <2>5. \A q \in Runs : WithAgent(q)' <=> WithAgent(q)
    BY <1>1, <2>2, <2>3, LineAdded
  <2> QED
    BY <1>1, <2>2, <2>4, <2>5, OthersKeepSteering
<1>5. ASSUME NEW cs, cs \subseteq calls, Rejected(cs),
             UNCHANGED <<inbox, batch, transcript, handle, toAgent, toGateway>>
      PROVE  SteeringInv'
  <2>1. /\ \A m \in Messages : \/ steering'[m] = steering[m]
                               \/ steering[m] = "sent" /\ steering'[m] = "failed"
        /\ \A r \in Runs : \/ turn'[r] = turn[r]
                           \/ turn[r] = "active" /\ turn'[r] \in {"failed", "cancelled"}
        /\ steeredRun' = steeredRun /\ requeued' = requeued
    BY <1>1, <1>5, RejectionSettles
  <2>2. \A q \in Runs : WithAgent(q)' <=> WithAgent(q)
    BY <1>5 DEF WithAgent, InLine
  <2>3. \A m \in Messages : OnTheWay(m)' <=> OnTheWay(m)
    BY <1>5 DEF OnTheWay
  <2> QED
    BY <1>1, <1>2, <1>5, <2>1, <2>2, <2>3, OthersKeepSteering
<1>6. ASSUME NEW c \in Calls, TimeOut(c) PROVE SteeringInv'
  <2>1. /\ {c} \subseteq calls /\ Rejected({c})
        /\ UNCHANGED <<inbox, batch, transcript, handle, toAgent, toGateway>>
    BY <1>6 DEF TimeOut, agentVars
  <2> QED
    BY <1>5, <2>1
<1>7. CASE FailConnection
  <2>1. /\ calls \subseteq calls /\ Rejected(calls)
        /\ UNCHANGED <<inbox, batch, transcript, handle, toAgent, toGateway>>
    BY <1>7 DEF FailConnection, agentVars
  <2> QED
    BY <1>5, <2>1
<1>8. CASE Launch \/ Initialized
  <2>1. /\ UNCHANGED <<inbox, batch, transcript, handle, toAgent, toGateway, turn, steering>>
        /\ UNCHANGED <<steeredRun, requeued>>
    BY <1>8 DEF Launch, Initialized, gatewayVars, wireVars, agentVars
  <2>2. \A q \in Runs : WithAgent(q)' <=> WithAgent(q)
    BY <2>1 DEF WithAgent, InLine
  <2>3. \A m \in Messages : OnTheWay(m)' <=> OnTheWay(m)
    BY <2>1 DEF OnTheWay
  <2> QED
    BY <1>1, <1>2, <2>1, <2>2, <2>3, OthersKeepSteering
<1> QED
  BY <1>3, <1>4, <1>6, <1>7, <1>8

\* A message is sent to an active run.
LEMMA SendKeepsSteering ==
    ASSUME RunsInv, SteeringInv, NEW m \in Messages, NEW r \in Runs, SteerActive(m, r)
    PROVE  SteeringInv'
<1> USE DEF SteeringInv
<1>1. TypeOK
  BY DEF RunsInv
<1>2. /\ steering[m] = "new" /\ turn[r] = "active"
      /\ steering' = [steering EXCEPT ![m] = "sent"]
      /\ steeredRun' = [steeredRun EXCEPT ![m] = r]
      /\ Request(SteerCall(m)) /\ SteerCall(m) \in Calls
      /\ UNCHANGED <<turn, handle, inbox, batch, transcript, requeued>>
  BY DEF SteerActive, agentVars, Calls
<1>3. ~OnTheWay(m) /\ ~Answered(m) /\ ~Taken(m)
  BY <1>2 DEF Destined
<1>4. /\ \A k \in Messages : OnTheWay(k)' <=> OnTheWay(k) \/ k = m
      /\ \A k \in Messages : HoldsOnce(toAgent', SteerCall(k))
      /\ toGateway' = toGateway
  <2>1. \A k \in Messages : SteerCall(k) = SteerCall(m) => k = m
    BY CallsDiffer
  <2> QED
    BY <1>1, <1>2, <1>3, <2>1, LinesMove
<1>5. /\ steering'[m] = "sent" /\ steeredRun'[m] = r
      /\ \A k \in Messages \ {m} : steering'[k] = steering[k] /\ steeredRun'[k] = steeredRun[k]
  BY <1>1, <1>2 DEF TypeOK
<1>6. \A k \in Messages : /\ (Boxed(k)' <=> Boxed(k)) /\ (Drained(k)' <=> Drained(k))
                          /\ (Written(k)' <=> Written(k)) /\ (LeftOver(k)' <=> LeftOver(k))
                          /\ (Queued(k)' <=> Queued(k)) /\ (Taken(k)' <=> Taken(k))
                          /\ (Answered(k)' <=> Answered(k))
  BY <1>2, <1>4 DEF Boxed, Drained, Written, LeftOver, Queued, Taken, Answered
<1>7. \A k \in Messages : (Declined(k)' => Declined(k)) /\ (Accepted(k)' => Accepted(k))
  BY <1>2, <1>4, <1>5 DEF Declined, Accepted
<1>8. Destined'
  <2>1. ASSUME NEW k \in Messages
        PROVE  /\ steering'[k] = "new" => ~OnTheWay(k)' /\ ~Answered(k)' /\ ~Taken(k)'
               /\ steering'[k] # "new" =>
                     steeredRun'[k] \in Runs /\ turn'[steeredRun'[k]] # "waiting"
    BY <1>2, <1>4, <1>5, <1>6 DEF Destined
  <2>2. ASSUME NEW k \in Messages, NEW q \in Runs, Holds(inbox[q], k) \/ Holds(batch[q], k)
        PROVE  q = steeredRun'[k]
    BY <1>3, <1>5, <2>2 DEF Destined, Taken, Boxed, Drained
  <2>3. ASSUME NEW k \in Messages, NEW a \in toGateway, Holds(a.rest, k)
        PROVE  a.call = RunCall(steeredRun'[k])
    BY <1>3, <1>5, <2>3 DEF Destined, Taken, LeftOver
  <2> QED
    BY <1>2, <1>4, <2>1, <2>2, <2>3 DEF Destined
<1>9. NothingTwice'
  BY <1>2, <1>4 DEF NothingTwice
<1>10. OnePlace'
  BY <1>3, <1>4, <1>5, <1>6, <1>7 DEF OnePlace
<1>11. OneAnswer'
  <2>1. \A q \in Runs : WithAgent(q)' <=> WithAgent(q)
    BY <1>1, <1>2, LineAdded, CallsDiffer
  <2> QED
    BY <1>2, <1>4, <2>1 DEF OneAnswer
<1>12. NothingLost'
  <2>1. ~Accepted(m)
    BY <1>2, <1>3 DEF Accepted, Answered
  <2>3. ASSUME NEW k \in Messages, k # m, Accepted(k)'
        PROVE  Taken(k)' \/ Spoilt(steeredRun[k])'
    <3>1. Taken(k) \/ Spoilt(steeredRun[k])
      BY <1>7, <2>3 DEF NothingLost
    <3>2. Spoilt(steeredRun[k]) => Spoilt(steeredRun[k])'
      BY <1>2, <1>4, <1>5, <2>3 DEF Spoilt
    <3> QED
      BY <1>6, <3>1, <3>2
  <2>4. ~Accepted(m)'
    BY <1>7, <2>1
  <2> QED
    BY <2>3, <2>4 DEF NothingLost
<1> QED
  BY <1>8, <1>9, <1>10, <1>11, <1>12

\* The agent reads a run, or a stop; it aborts runs; a turn comes to its end.
LEMMA AgentKeepsSteering ==
    ASSUME RunsInv, SteeringInv,
           \/ \E r \in Runs : ReceiveRun(r)
           \/ \E r \in Runs, n \in 1..MaxStops : ReceiveCancel(r, n)
           \/ AbortActiveTurns
           \/ \E r \in Runs, outcome \in Outcomes \cup {"threw"} : TurnEnds(r, outcome)
    PROVE  SteeringInv'
<1>1. TypeOK /\ ChildInv
  BY DEF RunsInv
<1>2. \A m \in Messages : HoldsOnce(toAgent, SteerCall(m))
  BY DEF SteeringInv, NothingTwice
<1>3. ASSUME NEW r \in Runs, ReceiveRun(r) PROVE SteeringInv'
  <2>1. /\ Receive(RunCall(r)) /\ handle' = [handle EXCEPT ![r] = "running"]
        /\ UNCHANGED <<toGateway, inbox, batch, transcript, turn, steering, steeredRun, requeued>>
    BY <1>3 DEF ReceiveRun, Receive, gatewayVars
  <2>2. /\ \A m \in Messages : OnTheWay(m)' => OnTheWay(m)
        /\ \A m \in Messages : HoldsOnce(toAgent', SteerCall(m))
    BY <1>1, <2>1, LinesMove
  <2>3. (\A q : InLine(q)' => InLine(q)) /\ InLine(r)
    BY <1>1, <2>1, LineRead
  <2>4. handle[r] = "none" /\ handle'[r] = "running" /\ \A q \in Runs \ {r} : handle'[q] = handle[q]
    BY <1>1, <2>1, <2>3 DEF TypeOK, ChildInv, RunsEnterOnce
  <2>5. \A q \in Runs : WithAgent(q)' => WithAgent(q)
    BY <2>3, <2>4 DEF WithAgent
  <2> QED
    BY <1>1, <2>1, <2>2, <2>4, <2>5, OthersKeepSteering
<1>4. ASSUME NEW r \in Runs, NEW n \in 1..MaxStops, ReceiveCancel(r, n) PROVE SteeringInv'
  <2>1. PICK found \in BOOLEAN :
           /\ Receive(CancelCall(r, n))
           /\ toGateway' = toGateway \cup {Said(CancelCall(r, n), found)}
           /\ UNCHANGED <<handle, inbox, batch, transcript, turn, steering, steeredRun, requeued>>
    BY <1>4 DEF ReceiveCancel, Receive, gatewayVars
  <2>2. /\ \A m \in Messages : OnTheWay(m)' => OnTheWay(m)
        /\ \A m \in Messages : HoldsOnce(toAgent', SteerCall(m))
    BY <1>1, <2>1, LinesMove
  <2>3. \A q \in Runs : WithAgent(q)' => WithAgent(q)
    BY <1>1, <2>1, LineRead DEF WithAgent
  <2>4. /\ Said(CancelCall(r, n), found).call = CancelCall(r, n)
        /\ Said(CancelCall(r, n), found).rest = <<>>
    BY DEF Said, Answer
  <2>5. /\ \A q \in Runs : CancelCall(r, n) # RunCall(q)
        /\ \A m \in Messages : CancelCall(r, n) # SteerCall(m)
    BY CallsDiffer
  <2>6. \A a : a \in toGateway' <=> a \in toGateway \/ a = Said(CancelCall(r, n), found)
    BY <2>1
  <2>7. /\ \A q \in Runs : \A a : a.call = RunCall(q) => (a \in toGateway' <=> a \in toGateway)
        /\ \A m \in Messages : \A a :
              a.call = SteerCall(m) => (a \in toGateway' <=> a \in toGateway)
        /\ \A a \in toGateway' : a \in toGateway \/ a.rest = <<>>
    BY <2>4, <2>5, <2>6
  <2> QED
    BY <1>1, <2>1, <2>2, <2>3, <2>7, OthersKeepSteering
<1>5. CASE AbortActiveTurns
  <2>1. UNCHANGED <<toAgent, toGateway, handle, inbox, batch, transcript, turn, steering,
                    steeredRun, requeued>>
    BY <1>5 DEF AbortActiveTurns, wireVars, gatewayVars
  <2>2. \A m \in Messages : OnTheWay(m)' <=> OnTheWay(m)
    BY <2>1 DEF OnTheWay
  <2>3. \A q \in Runs : WithAgent(q)' <=> WithAgent(q)
    BY <2>1 DEF WithAgent, InLine
  <2> QED
    BY <1>1, <1>2, <2>1, <2>2, <2>3, OthersKeepSteering
<1>6. ASSUME NEW r \in Runs, NEW outcome \in Outcomes \cup {"threw"}, TurnEnds(r, outcome)
      PROVE  SteeringInv'
  <2>1. /\ handle[r] = "running" /\ handle' = [handle EXCEPT ![r] = outcome] /\ outcome # "none"
        /\ UNCHANGED <<toAgent, toGateway, inbox, batch, transcript, turn, steering,
                       steeredRun, requeued>>
    BY <1>6 DEF TurnEnds, wireVars, gatewayVars, Outcomes
  <2>2. \A m \in Messages : OnTheWay(m)' <=> OnTheWay(m)
    BY <2>1 DEF OnTheWay
  <2>3. handle'[r] # "none" /\ \A q \in Runs \ {r} : handle'[q] = handle[q]
    BY <1>1, <2>1 DEF TypeOK
  <2>4. \A q \in Runs : WithAgent(q)' <=> WithAgent(q)
    BY <2>1, <2>3 DEF WithAgent, InLine
  <2> QED
    BY <1>1, <1>2, <2>1, <2>2, <2>3, <2>4, OthersKeepSteering
<1> QED
  BY <1>3, <1>4, <1>5, <1>6

\* The agent reads a message: it takes it, or says it does not.
LEMMA ArrivalKeepsSteering ==
    ASSUME RunsInv, SteeringInv, NEW m \in Messages, ReceiveSteer(m)
    PROVE  SteeringInv'
<1> USE DEF SteeringInv
<1>1. TypeOK /\ ChildInv
  BY DEF RunsInv
<1> DEFINE r == steeredRun[m]
           taken == handle[r] # "none" /\ r \notin aborted
           new == Said(SteerCall(m), taken)
<1>2. /\ Receive(SteerCall(m))
      /\ inbox' = IF taken THEN [inbox EXCEPT ![r] = Append(@, m)] ELSE inbox
      /\ toGateway' = toGateway \cup {new}
      /\ UNCHANGED <<handle, batch, transcript, turn, steering, steeredRun, requeued>>
  BY DEF ReceiveSteer, Receive, gatewayVars
<1>3. /\ \A k \in Messages : OnTheWay(k) <=> OnTheWay(k)' \/ k = m
      /\ \A k \in Messages : HoldsOnce(toAgent', SteerCall(k))
      /\ OnTheWay(m) /\ ~OnTheWay(m)'
  <2>1. \A k \in Messages : SteerCall(k) = SteerCall(m) => k = m
    BY CallsDiffer
  <2> QED
    BY <1>1, <1>2, <2>1, LinesMove
<1>4. ~Taken(m) /\ ~Answered(m) /\ steering[m] \in {"sent", "failed"}
  BY <1>3 DEF OnePlace
<1>5. r \in Runs
  BY <1>4 DEF Destined
<1>6. new.call = SteerCall(m) /\ new.ok = taken /\ new.rest = <<>>
  BY DEF Said, Answer
<1>7. /\ \A q \in Runs \ {r} : inbox'[q] = inbox[q]
      /\ taken => inbox'[r] = Append(inbox[r], m)
      /\ ~taken => inbox'[r] = inbox[r]
      /\ \A q \in Runs : inbox[q] \in Seq(Messages)
      /\ taken => handle[r] # "none"
  <2>1. inbox \in [Runs -> Seq(Messages)]
    BY <1>1 DEF TypeOK
  <2> QED
    BY <1>2, <1>5, <2>1
<1>8. /\ \A k \in Messages : k # m => SteerCall(k) # SteerCall(m)
      /\ \A q \in Runs : SteerCall(m) # RunCall(q)
  BY CallsDiffer
<1> HIDE DEF r, taken, new
<1>9. \A q \in Runs : \A k \in Messages :
         Holds(inbox'[q], k) <=> Holds(inbox[q], k) \/ (taken /\ q = r /\ k = m)
  <2>1. inbox[r] \in Seq(Messages)
    BY <1>5, <1>7
  <2>2. \A k \in Messages : Holds(Append(inbox[r], m), k) <=> Holds(inbox[r], k) \/ k = m
    BY <2>1, HoldsAdded
  <2> QED
    BY <1>7, <2>2
<1>10. \A k \in Messages : /\ (Boxed(k)' <=> Boxed(k) \/ (taken /\ k = m))
                           /\ (Drained(k)' <=> Drained(k)) /\ (Written(k)' <=> Written(k))
                           /\ (LeftOver(k)' <=> LeftOver(k)) /\ (Queued(k)' <=> Queued(k))
  <2>1. \A k \in Messages : Boxed(k)' <=> Boxed(k) \/ (taken /\ k = m)
    BY <1>5, <1>9 DEF Boxed
  <2>2. \A k \in Messages : LeftOver(k)' <=> LeftOver(k)
    BY <1>2, <1>6, HoldsNothing DEF LeftOver
  <2> QED
    BY <1>2, <2>1, <2>2 DEF Drained, Written, Queued
<1>11. \A k \in Messages : Taken(k)' <=> Taken(k) \/ (taken /\ k = m)
  BY <1>10 DEF Taken
<1>12. ASSUME NEW k \in Messages, k # m
       PROVE  /\ (Answered(k)' <=> Answered(k)) /\ (Accepted(k)' <=> Accepted(k))
              /\ (Declined(k)' <=> Declined(k))
  BY <1>2, <1>6, <1>8, <1>12 DEF Answered, Accepted, Declined
<1>13. (Accepted(m)' => taken) /\ (Declined(m)' => ~taken)
  <2>1. \A a \in toGateway' : a.call = SteerCall(m) => a = new
    BY <1>2, <1>4 DEF Answered
  <2> QED
    BY <1>2, <1>4, <1>6, <2>1 DEF Accepted, Declined
<1>14. Destined'
  <2>1. ASSUME NEW k \in Messages
        PROVE  /\ steering'[k] = "new" => ~OnTheWay(k)' /\ ~Answered(k)' /\ ~Taken(k)'
               /\ steering'[k] # "new" =>
                     steeredRun'[k] \in Runs /\ turn'[steeredRun'[k]] # "waiting"
    BY <1>2, <1>3, <1>4, <1>11, <1>12 DEF Destined
  <2>2. \A k \in Messages : \A q \in Runs :
           Holds(inbox'[q], k) \/ Holds(batch'[q], k) => q = steeredRun'[k]
    BY <1>2, <1>9 DEF Destined, r
  <2>3. \A k \in Messages : \A a \in toGateway' :
           Holds(a.rest, k) => a.call = RunCall(steeredRun'[k])
    BY <1>2, <1>6, HoldsNothing DEF Destined
  <2> QED
    BY <2>1, <2>2, <2>3 DEF Destined
<1>15. NothingTwice'
  <2>1. \A q \in Runs : ~taken \/ q # r => inbox'[q] = inbox[q]
    BY <1>7
  <2>2. taken => ~Holds(inbox[r], m)
    BY <1>4, <1>5 DEF Taken, Boxed
  <2>3. \A k \in Messages : taken => HoldsOnce(inbox'[r], k)
    <3>1. inbox[r] \in Seq(Messages)
      BY <1>5, <1>7
    <3>2. ASSUME taken, NEW k \in Messages PROVE HoldsOnce(Append(inbox[r], m), k)
      <4>1. HoldsOnce(inbox[r], k) /\ ~Holds(inbox[r], m)
        BY <1>5, <2>2, <3>2 DEF NothingTwice
      <4> QED
        BY <3>1, <4>1, HoldsAdded
    <3> QED
      BY <1>7, <3>2
  <2> QED
    BY <1>2, <1>3, <2>1, <2>3 DEF NothingTwice
<1>16. OnePlace'
  <2>1. OnTheWay(m)' => FALSE
    BY <1>3
  <2>2. /\ ~Drained(m) /\ ~Written(m) /\ ~LeftOver(m) /\ ~Queued(m) /\ ~Boxed(m)
    BY <1>4 DEF Taken
  <2>3. ASSUME NEW k \in Messages, k # m
        PROVE  /\ OnTheWay(k)' => ~Taken(k)' /\ ~Answered(k)' /\ steering'[k] \in {"sent", "failed"}
               /\ Boxed(k)' => ~Drained(k)' /\ ~Written(k)' /\ ~LeftOver(k)' /\ ~Queued(k)'
               /\ Drained(k)' => ~Written(k)' /\ ~LeftOver(k)' /\ ~Queued(k)'
               /\ LeftOver(k)' => ~Written(k)' /\ ~Queued(k)'
               /\ ~(Written(k)' /\ Queued(k)')
               /\ Declined(k)' => ~Taken(k)'
    BY <1>2, <1>3, <1>10, <1>11, <1>12, <2>3 DEF OnePlace
  <2>4. /\ ~Drained(m)' /\ ~Written(m)' /\ ~LeftOver(m)' /\ ~Queued(m)'
        /\ Declined(m)' => ~Taken(m)'
    BY <1>4, <1>10, <1>11, <1>13, <2>2
  <2> QED
    BY <2>1, <2>3, <2>4 DEF OnePlace
<1>17. OneAnswer'
  <2>1. \A q \in Runs : WithAgent(q)' => WithAgent(q)
    BY <1>1, <1>2, LineRead DEF WithAgent
  <2>2. \A q \in Runs : \A a \in toGateway' : a.call = RunCall(q) => a \in toGateway
    BY <1>2, <1>6, <1>8
  <2>3. \A q \in Runs : inbox'[q] # <<>> => handle'[q] # "none"
    <3>1. ASSUME NEW q \in Runs, inbox'[q] # <<>> PROVE handle[q] # "none"
      <4>1. CASE taken /\ q = r
        BY <1>7, <4>1
      <4>2. CASE ~taken \/ q # r
        BY <1>7, <3>1, <4>2 DEF OneAnswer
      <4> QED
        BY <4>1, <4>2
    <3> QED
      BY <1>2, <3>1
  <2> QED
    BY <1>2, <2>1, <2>2, <2>3 DEF OneAnswer
<1>18. NothingLost'
  <2>1. \A q : Spoilt(q) => Spoilt(q)'
    BY <1>2 DEF Spoilt
  <2>2. \A k \in Messages \ {m} : Accepted(k)' => Taken(k)' \/ Spoilt(steeredRun[k])'
    BY <1>2, <1>11, <1>12, <2>1 DEF NothingLost
  <2>3. Accepted(m)' => Taken(m)'
    BY <1>11, <1>13
  <2> QED
    BY <2>2, <2>3 DEF NothingLost
<1> QED
  BY <1>14, <1>15, <1>16, <1>17, <1>18

\* The run takes its messages out of the inbox.
LEMMA DrainKeepsSteering ==
    ASSUME RunsInv, SteeringInv, NEW r \in Runs, DrainSteering(r)
    PROVE  SteeringInv'
<1> USE DEF SteeringInv
<1>1. /\ TypeOK /\ inbox \in [Runs -> Seq(Messages)] /\ batch \in [Runs -> Seq(Messages)]
  BY DEF RunsInv, TypeOK
<1>2. /\ batch[r] = <<>>
      /\ batch'[r] = inbox[r] /\ inbox'[r] = <<>>
      /\ \A q \in Runs \ {r} : batch'[q] = batch[q] /\ inbox'[q] = inbox[q]
      /\ UNCHANGED <<handle, transcript, toAgent, toGateway, turn, steering, steeredRun, requeued>>
  BY <1>1 DEF DrainSteering, wireVars, gatewayVars
<1>3. \A q \in Runs : \A k \in Messages :
         /\ Holds(batch'[q], k) <=> (q # r /\ Holds(batch[q], k)) \/ (q = r /\ Holds(inbox[q], k))
         /\ Holds(inbox'[q], k) <=> q # r /\ Holds(inbox[q], k)
  BY <1>2, HoldsNothing
<1>4. \A k \in Messages : \/ Boxed(k)' /\ Boxed(k) /\ (Drained(k)' <=> Drained(k))
                          \/ Drained(k)' /\ ~Boxed(k)' /\ Boxed(k)
                          \/ ~Boxed(k)' /\ ~Boxed(k) /\ (Drained(k)' <=> Drained(k))
  <2>1. \A k \in Messages : Holds(inbox[r], k) => Drained(k)' /\ ~Boxed(k)' /\ Boxed(k)
    BY <1>3 DEF Drained, Boxed, Destined
  <2>2. ASSUME NEW k \in Messages, ~Holds(inbox[r], k)
        PROVE  (Boxed(k)' <=> Boxed(k)) /\ (Drained(k)' <=> Drained(k))
    BY <1>2, <1>3, <2>2, HoldsNothing DEF Boxed, Drained
  <2> QED
    BY <2>1, <2>2
<1>5. \A k \in Messages : /\ (Written(k)' <=> Written(k)) /\ (LeftOver(k)' <=> LeftOver(k))
                          /\ (Queued(k)' <=> Queued(k)) /\ (OnTheWay(k)' <=> OnTheWay(k))
                          /\ (Answered(k)' <=> Answered(k)) /\ (Accepted(k)' <=> Accepted(k))
                          /\ (Declined(k)' <=> Declined(k))
  BY <1>2 DEF Written, LeftOver, Queued, OnTheWay, Answered, Accepted, Declined
<1>6. \A k \in Messages : Taken(k)' <=> Taken(k)
  BY <1>4, <1>5 DEF Taken
<1>7. Destined'
  <2>1. \A k \in Messages : \A q \in Runs :
           Holds(inbox'[q], k) \/ Holds(batch'[q], k) => q = steeredRun'[k]
    BY <1>2, <1>3 DEF Destined
  <2> QED
    BY <1>2, <1>5, <1>6, <2>1 DEF Destined
<1>8. NothingTwice'
  <2>1. \A k \in Messages : \A q \in Runs : HoldsOnce(inbox'[q], k) /\ HoldsOnce(batch'[q], k)
    BY <1>2, HoldsNothing DEF NothingTwice
  <2> QED
    BY <1>2, <2>1 DEF NothingTwice
<1>9. OnePlace'
  BY <1>2, <1>4, <1>5, <1>6 DEF OnePlace
<1>10. OneAnswer'
  <2>1. \A q : WithAgent(q)' <=> WithAgent(q)
    BY <1>2 DEF WithAgent, InLine
  <2>2. \A q \in Runs : inbox'[q] # <<>> => inbox[q] # <<>>
    BY <1>2
  <2> QED
    BY <1>2, <2>1, <2>2 DEF OneAnswer
<1>11. NothingLost'
  <2>1. \A q : Spoilt(q)' <=> Spoilt(q)
    BY <1>2 DEF Spoilt
  <2> QED
    BY <1>2, <1>5, <1>6, <2>1 DEF NothingLost
<1> QED
  BY <1>7, <1>8, <1>9, <1>10, <1>11

\* The run writes the next message it took, or fails to and drops them all.
LEMMA WriteKeepsSteering ==
    ASSUME RunsInv, SteeringInv, NEW r \in Runs, AppendSteering(r) \/ AppendFails(r)
    PROVE  SteeringInv'
<1> USE DEF SteeringInv
<1>1. /\ TypeOK /\ HeldInv /\ batch \in [Runs -> Seq(Messages)]
      /\ handle \in [Runs -> {"none", "running", "threw"} \cup Outcomes]
  BY DEF RunsInv, TypeOK
<1>2. /\ batch[r] # <<>> /\ handle[r] = "running" /\ batch[r] \in Seq(Messages)
      /\ UNCHANGED <<inbox, toAgent, toGateway, turn, steering, steeredRun, requeued>>
      /\ \A q \in Runs \ {r} : batch'[q] = batch[q]
  BY <1>1 DEF AppendSteering, AppendFails, wireVars, gatewayVars, HeldInv
<1>3. PICK m \in Messages : m = Head(batch[r]) /\ Holds(batch[r], m)
  <2>1. Head(batch[r]) \in Messages
    BY <1>2
  <2> QED
    BY <1>2, <2>1, HoldsTaken
<1>4. \/ /\ transcript' = transcript \cup {m} /\ batch'[r] = Tail(batch[r]) /\ handle' = handle
      \/ /\ transcript' = transcript /\ batch'[r] = <<>>
         /\ handle'[r] \in {"cancelled", "error"}
         /\ \A q \in Runs \ {r} : handle'[q] = handle[q]
  BY <1>1, <1>3 DEF AppendSteering, AppendFails
<1>5. \A k \in Messages : Holds(batch'[r], k) => Holds(batch[r], k)
  <2>1. batch'[r] = Tail(batch[r]) \/ batch'[r] = <<>>
    BY <1>4
  <2> QED
    BY <1>2, <2>1, HoldsTaken, HoldsNothing
<1>6. /\ \A k \in Messages : Drained(k)' => Drained(k)
      /\ \A k \in Messages : Written(k)' => Written(k) \/ (k = m /\ Drained(k))
      /\ Written(m)' => Written(m) \/ ~Drained(m)'
      /\ \A k \in Messages : Written(k) => Written(k)'
  <2>1. \A k \in Messages : Drained(k)' => Drained(k)
    BY <1>2, <1>5 DEF Drained
  <2>2. Drained(m)
    BY <1>3 DEF Drained
  <2>3. Written(m)' => Written(m) \/ ~Drained(m)'
    <3>1. CASE transcript' = transcript \cup {m} /\ batch'[r] = Tail(batch[r])
      <4>1. ~Holds(batch'[r], m)
        BY <1>2, <1>3, <3>1, HoldsTaken DEF NothingTwice
      <4>2. \A q \in Runs : Holds(batch'[q], m) => Holds(batch[q], m)
        BY <1>2, <1>3, <1>5
      <4> QED
        BY <1>3, <4>1, <4>2 DEF Drained, Destined
    <3>2. CASE transcript' = transcript
      BY <3>2 DEF Written
    <3> QED
      BY <1>4, <3>1, <3>2
  <2> QED
    BY <1>4, <2>1, <2>2, <2>3 DEF Written
<1>7. \A k \in Messages : /\ (Boxed(k)' <=> Boxed(k)) /\ (LeftOver(k)' <=> LeftOver(k))
                          /\ (Queued(k)' <=> Queued(k)) /\ (OnTheWay(k)' <=> OnTheWay(k))
                          /\ (Answered(k)' <=> Answered(k)) /\ (Accepted(k)' <=> Accepted(k))
                          /\ (Declined(k)' <=> Declined(k))
  BY <1>2 DEF Boxed, LeftOver, Queued, OnTheWay, Answered, Accepted, Declined
<1>8. \A k \in Messages : Taken(k)' => Taken(k)
  BY <1>6, <1>7 DEF Taken
<1>9. Destined'
  <2>1. \A k \in Messages : \A q \in Runs :
           Holds(inbox'[q], k) \/ Holds(batch'[q], k) => q = steeredRun'[k]
    BY <1>2, <1>5 DEF Destined
  <2> QED
    BY <1>2, <1>7, <1>8, <2>1 DEF Destined
<1>10. NothingTwice'
  <2>1. batch'[r] = Tail(batch[r]) \/ batch'[r] = <<>>
    BY <1>4
  <2>2. \A k \in Messages : HoldsOnce(batch'[r], k)
    BY <1>2, <2>1, HoldsTaken, HoldsNothing DEF NothingTwice
  <2> QED
    BY <1>2, <2>2 DEF NothingTwice
<1>11. OnePlace'
  <2>1. ASSUME NEW k \in Messages
        PROVE  /\ Boxed(k)' => ~Drained(k)' /\ ~Written(k)' /\ ~LeftOver(k)' /\ ~Queued(k)'
               /\ Drained(k)' => ~Written(k)' /\ ~LeftOver(k)' /\ ~Queued(k)'
               /\ LeftOver(k)' => ~Written(k)' /\ ~Queued(k)'
               /\ ~(Written(k)' /\ Queued(k)')
    <3>1. /\ Boxed(k) => ~Drained(k) /\ ~Written(k) /\ ~LeftOver(k) /\ ~Queued(k)
          /\ Drained(k) => ~Written(k) /\ ~LeftOver(k) /\ ~Queued(k)
          /\ LeftOver(k) => ~Written(k) /\ ~Queued(k)
          /\ ~(Written(k) /\ Queued(k))
      BY DEF OnePlace
    <3> QED
      BY <1>6, <1>7, <3>1
  <2>2. \A k \in Messages :
           /\ OnTheWay(k)' => ~Taken(k)' /\ ~Answered(k)' /\ steering'[k] \in {"sent", "failed"}
           /\ Declined(k)' => ~Taken(k)'
    BY <1>2, <1>7, <1>8 DEF OnePlace
  <2> QED
    BY <2>1, <2>2 DEF OnePlace
<1>12. /\ \A q \in Runs \ {r} : handle'[q] = handle[q]
       /\ handle'[r] \in {"running", "cancelled", "error"}
  BY <1>2, <1>4
<1>13. OneAnswer'
  <2>1. \A q \in Runs : WithAgent(q)' <=> WithAgent(q)
    BY <1>2, <1>12 DEF WithAgent, InLine
  <2>2. \A q \in Runs : inbox'[q] # <<>> => handle'[q] # "none"
    BY <1>2, <1>12 DEF OneAnswer
  <2> QED
    BY <1>2, <2>1, <2>2 DEF OneAnswer
<1>14. NothingLost'
  <2>1. \A q \in Runs : Spoilt(q) => Spoilt(q)'
    BY <1>2, <1>12 DEF Spoilt
  <2>2. ASSUME NEW k \in Messages, Accepted(k), Taken(k), ~Taken(k)'
        PROVE  Spoilt(steeredRun[k])'
    <3>1. Drained(k) /\ ~Written(k)' /\ ~Drained(k)'
      BY <1>6, <1>7, <2>2 DEF Taken
    <3>2. PICK q \in Runs : Holds(batch[q], k)
      BY <3>1 DEF Drained
    <3>3. q = r
      BY <1>2, <3>1, <3>2 DEF Drained
    <3>4. steeredRun[k] = r
      BY <3>2, <3>3 DEF Destined
    <3>5. ASSUME transcript' = transcript \cup {m}, batch'[r] = Tail(batch[r]) PROVE FALSE
      <4>1. k # m
        BY <3>1, <3>5 DEF Written
      <4>2. Holds(batch'[r], k)
        BY <1>2, <1>3, <3>2, <3>3, <3>5, <4>1, HoldsTaken
      <4> QED
        BY <3>1, <4>2 DEF Drained
    <3>6. handle'[r] \in {"cancelled", "error"}
      BY <1>4, <3>5
    <3> QED
      BY <1>2, <3>4, <3>6 DEF Spoilt
  <2>3. \A k \in Messages : Accepted(k) => steeredRun[k] \in Runs
    BY DEF Destined, Accepted, Answered
  <2>4. ASSUME NEW k \in Messages, Accepted(k)' PROVE Taken(k)' \/ Spoilt(steeredRun[k])'
    <3>1. Accepted(k) /\ (Taken(k) \/ Spoilt(steeredRun[k])) /\ steeredRun[k] \in Runs
      BY <1>7, <2>3, <2>4 DEF NothingLost
    <3>2. Spoilt(steeredRun[k]) => Spoilt(steeredRun[k])'
      BY <1>2, <2>1, <3>1
    <3> QED
      BY <2>2, <3>1, <3>2
  <2> QED
    BY <2>4 DEF NothingLost
<1> QED
  BY <1>9, <1>10, <1>11, <1>13, <1>14

\* A run is answered: what is left in its inbox goes with the answer, unless it threw.
LEMMA EndKeepsSteering ==
    ASSUME RunsInv, SteeringInv, NEW r \in Runs, TurnReturns(r) \/ TurnThrows(r)
    PROVE  SteeringInv'
<1> USE DEF SteeringInv
<1>1. /\ TypeOK /\ HeldInv /\ ChildInv
      /\ inbox \in [Runs -> Seq(Messages)]
      /\ handle \in [Runs -> {"none", "running", "threw"} \cup Outcomes]
  BY DEF RunsInv, TypeOK
<1>2. PICK new :
         /\ toGateway' = toGateway \cup {new}
         /\ new.call = RunCall(r)
         /\ \/ new.ok /\ new.outcome = handle[r] /\ new.rest = inbox[r] /\ handle[r] \in Outcomes
            \/ ~new.ok /\ new.rest = <<>> /\ handle[r] = "threw"
  <2>1. CASE TurnReturns(r)
    <3> DEFINE n == Answer(RunCall(r), TRUE, handle[r], inbox[r])
    <3>1. n.call = RunCall(r) /\ n.ok /\ n.outcome = handle[r] /\ n.rest = inbox[r]
      BY DEF Answer
    <3>2. toGateway' = toGateway \cup {n} /\ handle[r] \in Outcomes
      BY <2>1 DEF TurnReturns
    <3> HIDE DEF n
    <3> QED
      BY <3>1, <3>2
  <2>2. CASE TurnThrows(r)
    <3> DEFINE n == Said(RunCall(r), FALSE)
    <3>1. n.call = RunCall(r) /\ ~n.ok /\ n.rest = <<>>
      BY DEF Said, Answer
    <3>2. toGateway' = toGateway \cup {n} /\ handle[r] = "threw"
      BY <2>2 DEF TurnThrows
    <3> HIDE DEF n
    <3> QED
      BY <3>1, <3>2
  <2> QED
    BY <2>1, <2>2
<1>3. /\ handle[r] \notin {"none", "running"} /\ handle'[r] = "none" /\ inbox'[r] = <<>>
      /\ \A q \in Runs \ {r} : handle'[q] = handle[q] /\ inbox'[q] = inbox[q]
      /\ UNCHANGED <<batch, transcript, toAgent, turn, steering, steeredRun, requeued>>
  BY <1>1, <1>2 DEF TurnReturns, TurnThrows, DropHandle, gatewayVars, Outcomes
<1>4. /\ turn[r] # "completed" /\ \A a \in toGateway : a.call # RunCall(r)
  BY <1>1, <1>3 DEF OneAnswer, ChildInv, AnswersComeLast, Over, WithAgent
<1>5. /\ \A q \in Runs : RunCall(q) = RunCall(r) => q = r
      /\ \A k \in Messages : RunCall(r) # SteerCall(k)
  BY CallsDiffer
<1>6. \A k \in Messages : /\ (Drained(k)' <=> Drained(k)) /\ (Written(k)' <=> Written(k))
                          /\ (Queued(k)' <=> Queued(k)) /\ (OnTheWay(k)' <=> OnTheWay(k))
                          /\ (Answered(k)' <=> Answered(k)) /\ (Accepted(k)' <=> Accepted(k))
                          /\ (Declined(k)' <=> Declined(k))
  BY <1>2, <1>3, <1>5 DEF Drained, Written, Queued, OnTheWay, Answered, Accepted, Declined
<1>7. ASSUME NEW k \in Messages, Holds(inbox[r], k)
      PROVE  Boxed(k) /\ ~Boxed(k)' /\ (LeftOver(k)' => new.ok) /\ (new.ok => LeftOver(k)')
  <2>1. Boxed(k) /\ ~LeftOver(k)
    BY <1>7 DEF Boxed, OnePlace
  <2>2. \A q \in Runs : ~Holds(inbox'[q], k)
    BY <1>3, <1>7, HoldsNothing DEF Destined
  <2>3. LeftOver(k)' <=> Holds(new.rest, k)
    BY <1>2, <2>1 DEF LeftOver
  <2> QED
    BY <1>2, <1>7, <2>1, <2>2, <2>3, HoldsNothing DEF Boxed
<1>8. ASSUME NEW k \in Messages, ~Holds(inbox[r], k)
      PROVE  (Boxed(k)' <=> Boxed(k)) /\ (LeftOver(k)' <=> LeftOver(k))
  <2>1. ~Holds(new.rest, k)
    BY <1>2, <1>8, HoldsNothing
  <2>2. LeftOver(k)' <=> LeftOver(k)
    BY <1>2, <2>1 DEF LeftOver
  <2>3. Boxed(k)' <=> Boxed(k)
    BY <1>3, <1>8, HoldsNothing DEF Boxed
  <2> QED
    BY <2>2, <2>3
<1>9. \A k \in Messages : Taken(k)' => Taken(k)
  BY <1>6, <1>7, <1>8 DEF Taken
<1>10. Destined'
  <2>1. \A k \in Messages : \A q \in Runs :
           Holds(inbox'[q], k) \/ Holds(batch'[q], k) => q = steeredRun'[k]
    BY <1>3, HoldsNothing DEF Destined
  <2>2. ASSUME NEW k \in Messages, NEW a \in toGateway', Holds(a.rest, k)
        PROVE  a.call = RunCall(steeredRun'[k])
    <3>1. CASE a \in toGateway
      BY <1>3, <2>2, <3>1 DEF Destined
    <3>2. CASE a = new
      BY <1>2, <1>3, <2>2, <3>2, HoldsNothing DEF Destined
    <3> QED
      BY <1>2, <3>1, <3>2
  <2> QED
    BY <1>3, <1>6, <1>9, <2>1, <2>2 DEF Destined
<1>11. NothingTwice'
  BY <1>3, HoldsNothing DEF NothingTwice
<1>12. OnePlace'
  <2>1. ASSUME NEW k \in Messages
        PROVE  /\ Boxed(k)' => ~Drained(k)' /\ ~Written(k)' /\ ~LeftOver(k)' /\ ~Queued(k)'
               /\ Drained(k)' => ~Written(k)' /\ ~LeftOver(k)' /\ ~Queued(k)'
               /\ LeftOver(k)' => ~Written(k)' /\ ~Queued(k)'
               /\ ~(Written(k)' /\ Queued(k)')
    <3>1. /\ Boxed(k) => ~Drained(k) /\ ~Written(k) /\ ~LeftOver(k) /\ ~Queued(k)
          /\ Drained(k) => ~Written(k) /\ ~LeftOver(k) /\ ~Queued(k)
          /\ LeftOver(k) => ~Written(k) /\ ~Queued(k)
          /\ ~(Written(k) /\ Queued(k))
      BY DEF OnePlace
    <3> QED
      BY <1>6, <1>7, <1>8, <3>1
  <2>2. \A k \in Messages :
           /\ OnTheWay(k)' => ~Taken(k)' /\ ~Answered(k)' /\ steering'[k] \in {"sent", "failed"}
           /\ Declined(k)' => ~Taken(k)'
    BY <1>3, <1>6, <1>9 DEF OnePlace
  <2> QED
    BY <2>1, <2>2 DEF OnePlace
<1>13. OneAnswer'
  <2>1. \A q \in Runs : WithAgent(q)' => WithAgent(q)
    BY <1>3 DEF WithAgent, InLine
  <2>2. \A q \in Runs \ {r} : \A a \in toGateway' : a.call = RunCall(q) => a \in toGateway
    BY <1>2, <1>5
  <2>3. \A a \in toGateway' : a.call = RunCall(r) => a = new
    BY <1>2, <1>4
  <2>4. \A q \in Runs : inbox'[q] # <<>> => handle'[q] # "none"
    BY <1>3 DEF OneAnswer
  <2>5. \A q \in Runs : \A a, b \in toGateway' :
           a.call = RunCall(q) /\ b.call = RunCall(q) => a = b
    BY <2>2, <2>3 DEF OneAnswer
  <2>6. \A q \in Runs : turn'[q] = "completed" =>
           ~WithAgent(q)' /\ \A a \in toGateway' : a.call # RunCall(q)
    BY <1>3, <1>4, <2>1, <2>2 DEF OneAnswer
  <2> QED
    BY <2>4, <2>5, <2>6 DEF OneAnswer
<1>14. NothingLost'
  <2>1. \A q \in Runs \ {r} : Spoilt(q) => Spoilt(q)'
    BY <1>2, <1>3 DEF Spoilt
  <2>2. Spoilt(r) \/ ~new.ok => Spoilt(r)'
    <3>1. ~new.ok => Spoilt(r)'
      BY <1>2 DEF Spoilt
    <3>2. ASSUME turn[r] \in {"failed", "cancelled", "error"} PROVE Spoilt(r)'
      BY <1>3, <3>2 DEF Spoilt
    <3>3. ASSUME handle[r] \in {"cancelled", "error", "threw"} PROVE Spoilt(r)'
      <4>1. new.ok => new.outcome # "completed"
        BY <1>2, <3>3
      <4> QED
        BY <1>2, <4>1 DEF Spoilt
    <3> QED
      BY <1>4, <3>1, <3>2, <3>3 DEF Spoilt
  <2>3. \A k \in Messages : Accepted(k) => steeredRun[k] \in Runs
    BY DEF Destined, Accepted, Answered
  <2>4. ASSUME NEW k \in Messages, Accepted(k), Taken(k), ~Taken(k)'
        PROVE  ~new.ok /\ steeredRun[k] = r
    <3>1. Holds(inbox[r], k)
      BY <1>6, <1>8, <2>4 DEF Taken
    <3> QED
      BY <1>7, <2>4, <3>1 DEF Destined, Taken
  <2>5. ASSUME NEW k \in Messages, Accepted(k)' PROVE Taken(k)' \/ Spoilt(steeredRun[k])'
    <3>1. Accepted(k) /\ (Taken(k) \/ Spoilt(steeredRun[k])) /\ steeredRun[k] \in Runs
      BY <1>6, <2>3, <2>5 DEF NothingLost
    <3>2. Spoilt(steeredRun[k]) => Spoilt(steeredRun[k])'
      BY <1>3, <2>1, <2>2, <3>1
    <3> QED
      BY <1>3, <2>2, <2>4, <3>1, <3>2
  <2> QED
    BY <2>5 DEF NothingLost
<1> QED
  BY <1>10, <1>11, <1>12, <1>13, <1>14

\* The child exits: what it held is lost, and with it the runs that had not completed.
LEMMA ExitKeepsSteering ==
    ASSUME RunsInv, SteeringInv, Exit
    PROVE  SteeringInv'
<1> USE DEF SteeringInv
<1>1. TypeOK /\ CallersMatchCalls /\ HeldInv /\ ChildInv
  BY DEF RunsInv, GatewayInv
<1>2. /\ Rejected(calls) /\ toAgent' = <<>> /\ toGateway' = {} /\ transcript' = transcript
      /\ \A r \in Runs : handle'[r] = "none" /\ inbox'[r] = <<>> /\ batch'[r] = <<>>
  BY DEF Exit, ForgetRuns
<1>3. /\ \A m \in Messages : \/ steering'[m] = steering[m]
                             \/ steering[m] = "sent" /\ steering'[m] = "failed"
      /\ \A r \in Runs : \/ turn'[r] = turn[r]
                         \/ turn[r] = "active" /\ turn'[r] \in {"failed", "cancelled"}
      /\ \A r \in Runs : RunCall(r) \in calls => turn'[r] \in {"failed", "cancelled"}
      /\ steeredRun' = steeredRun /\ requeued' = requeued
  BY <1>1, <1>2, RejectionSettles
<1>4. \A m \in Messages : /\ ~OnTheWay(m)' /\ ~Boxed(m)' /\ ~Drained(m)' /\ ~LeftOver(m)'
                          /\ ~Answered(m)'
                          /\ (Written(m)' <=> Written(m)) /\ (Queued(m)' <=> Queued(m))
                          /\ (Accepted(m)' => Accepted(m)) /\ (Declined(m)' => Declined(m))
  <2>1. \A m \in Messages : /\ (Accepted(m)' => Accepted(m)) /\ (Declined(m)' => Declined(m))
    BY <1>2, <1>3 DEF Accepted, Declined
  <2> QED
    BY <1>2, <1>3, <2>1, HoldsNothing DEF OnTheWay, Boxed, Drained, LeftOver, Answered, Written,
       Queued
<1>5. \A m \in Messages : Taken(m)' <=> Written(m) \/ Queued(m)
  BY <1>4 DEF Taken
<1>6. \A r \in Runs : ~WithAgent(r)'
  BY <1>2 DEF WithAgent, InLine
<1>7. Destined'
  <2>1. ASSUME NEW m \in Messages
        PROVE  /\ steering'[m] = "new" => ~Taken(m)'
               /\ steering'[m] # "new" =>
                     steeredRun'[m] \in Runs /\ turn'[steeredRun'[m]] # "waiting"
    <3>1. (steering'[m] = "new" => steering[m] = "new") /\ (steering[m] = "new" => steering'[m] = "new")
      BY <1>3
    <3> QED
      BY <1>3, <1>5, <3>1 DEF Destined, Taken
  <2> QED
    BY <1>2, <1>4, <2>1, HoldsNothing DEF Destined
<1>8. NothingTwice'
  BY <1>2, HoldsNothing DEF NothingTwice
<1>9. OnePlace'
  BY <1>4, <1>5 DEF OnePlace, Taken
<1>10. OneAnswer'
  BY <1>2, <1>6 DEF OneAnswer
<1>11. NothingLost'
  <2>1. ASSUME NEW m \in Messages, Accepted(m)' PROVE Taken(m)' \/ Spoilt(steeredRun[m])'
    <3> DEFINE r == steeredRun[m]
    <3>1. Accepted(m) /\ r \in Runs /\ turn[r] # "waiting"
      BY <1>4, <2>1 DEF Accepted, Answered, Destined
    <3>2. r' = r
      BY <1>3
    <3>3. CASE turn[r] = "completed"
      <4>1. handle[r] = "none" /\ \A a \in toGateway : a.call # RunCall(r)
        BY <3>1, <3>3 DEF OneAnswer, WithAgent
      <4>2. inbox[r] = <<>> /\ batch[r] = <<>>
        BY <1>1, <3>1, <4>1 DEF OneAnswer, HeldInv
      <4>3. ~Boxed(m) /\ ~Drained(m) /\ ~LeftOver(m)
        BY <4>1, <4>2, HoldsNothing DEF Boxed, Drained, LeftOver, Destined
      <4>4. ~Spoilt(r)
        BY <3>3, <4>1 DEF Spoilt
      <4> QED
        BY <1>5, <3>1, <4>3, <4>4 DEF NothingLost, Taken
    <3>4. CASE turn[r] # "completed"
      <4>1. turn'[r] \in {"failed", "cancelled", "error"}
        <5>1. turn[r] \in {"active", "failed", "cancelled", "error"}
          BY <1>1, <3>1, <3>4 DEF TypeOK, Outcomes
        <5>2. turn[r] = "active" => RunCall(r) \in calls
          BY <1>1, <3>1 DEF CallersMatchCalls
        <5> QED
          BY <1>3, <3>1, <5>1, <5>2
      <4> QED
        BY <3>2, <4>1 DEF Spoilt
    <3> QED
      BY <3>3, <3>4
  <2> QED
    BY <2>1 DEF NothingLost
<1> QED
  BY <1>7, <1>8, <1>9, <1>10, <1>11

\* The answer of a run arrives: what is left over goes back to the queue, unless the run
\* counts as cancelled or was given up.
LEMMA RunAnswerKeepsSteering ==
    ASSUME RunsInv, SteeringInv, NEW r \in Runs, NEW a \in toGateway, a.call = RunCall(r),
           Unmatched(a) \/ RunAnswered(r, a)
    PROVE  SteeringInv'
<1> USE DEF SteeringInv
<1>1. TypeOK /\ CallersMatchCalls /\ ChildInv
  BY DEF RunsInv, GatewayInv
<1>2. /\ toGateway' = toGateway \ {a}
      /\ UNCHANGED <<toAgent, handle, inbox, batch, transcript>>
  BY DEF Unmatched, RunAnswered, HandleResponse, agentVars
<1>3. Over(r) /\ turn[r] # "waiting" /\ (a.ok => a.outcome \in Outcomes)
  BY <1>1 DEF ChildInv, AnswersComeLast, Over
<1>4. /\ steering' = steering /\ steeredRun' = steeredRun
      /\ \A q \in Runs \ {r} : turn'[q] = turn[q]
      /\ turn'[r] # "waiting"
      /\ \/ requeued' = requeued /\ turn'[r] \in {"failed", "cancelled", "error"}
         \/ a.ok /\ requeued' = requeued \cup ToSet(a.rest) /\ turn'[r] = a.outcome
  <2>1. CASE Unmatched(a)
    <3>1. RunCall(r) \notin calls /\ UNCHANGED <<turn, steering, steeredRun, requeued>>
      BY <2>1 DEF Unmatched, gatewayVars
    <3>2. turn[r] # "active" /\ turn[r] # "completed"
      BY <1>1, <3>1 DEF CallersMatchCalls, OneAnswer
    <3>3. turn[r] \in {"failed", "cancelled", "error"}
      BY <1>1, <1>3, <3>2 DEF TypeOK, Outcomes
    <3> QED
      BY <3>1, <3>3
  <2>2. CASE RunAnswered(r, a) /\ Rejected({RunCall(r)})
    <3>1. {RunCall(r)} \subseteq calls
      BY <2>2 DEF RunAnswered
    <3>2. /\ \A m \in Messages : SteerCall(m) # RunCall(r)
          /\ \A q \in Runs : RunCall(q) = RunCall(r) => q = r
      BY CallsDiffer
    <3>3. \A m \in Messages : steering'[m] = steering[m]
      BY <2>2, <3>2 DEF Rejected
    <3>4. steering' = steering
      BY <1>1, <2>2, <3>3 DEF Rejected, TypeOK
    <3>5. turn'[r] \in {"failed", "cancelled"} /\ \A q \in Runs \ {r} : turn'[q] = turn[q]
      BY <2>2, <3>2 DEF Rejected
    <3> QED
      BY <2>2, <3>4, <3>5 DEF Rejected
  <2>3. CASE RunAnswered(r, a) /\ ~Rejected({RunCall(r)})
    <3> DEFINE outcome == IF stop[r] = "acknowledged" THEN "cancelled" ELSE a.outcome
    <3>1. /\ a.ok /\ turn' = [turn EXCEPT ![r] = outcome]
          /\ requeued' = IF outcome = "cancelled" THEN requeued ELSE requeued \cup ToSet(a.rest)
          /\ UNCHANGED <<steering, steeredRun>>
      BY <2>3 DEF RunAnswered
    <3>2. turn'[r] = outcome /\ \A q \in Runs \ {r} : turn'[q] = turn[q]
      BY <1>1, <3>1 DEF TypeOK
    <3> QED
      BY <1>3, <3>1, <3>2 DEF Outcomes
  <2> QED
    BY <2>1, <2>2, <2>3
<1>5. a.rest \in Seq(Messages)
  BY <1>1 DEF TypeOK, Answers
<1>6. \A k \in Messages : k \in ToSet(a.rest) <=> Holds(a.rest, k)
  BY <1>5 DEF ToSet, Holds
<1>7. /\ \A q \in Runs : RunCall(q) = RunCall(r) => q = r
      /\ \A k \in Messages : RunCall(r) # SteerCall(k)
  BY CallsDiffer
<1>8. \A k \in Messages : /\ (Boxed(k)' <=> Boxed(k)) /\ (Drained(k)' <=> Drained(k))
                          /\ (Written(k)' <=> Written(k)) /\ (OnTheWay(k)' <=> OnTheWay(k))
                          /\ (Answered(k)' <=> Answered(k)) /\ (Accepted(k)' <=> Accepted(k))
                          /\ (Declined(k)' <=> Declined(k))
  BY <1>2, <1>4, <1>7 DEF Boxed, Drained, Written, OnTheWay, Answered, Accepted, Declined
<1>9. ASSUME NEW k \in Messages
      PROVE  Holds(a.rest, k) => steeredRun[k] = r /\ LeftOver(k) /\ ~LeftOver(k)'
  <2>1. SUFFICES ASSUME Holds(a.rest, k)
                 PROVE  steeredRun[k] = r /\ LeftOver(k) /\ ~LeftOver(k)'
    OBVIOUS
  <2>2. LeftOver(k) /\ steering[k] # "new"
    BY <2>1 DEF LeftOver, Destined, Taken
  <2>3. steeredRun[k] = r
    BY <1>7, <2>1, <2>2 DEF Destined
  <2>4. \A b \in toGateway : Holds(b.rest, k) => b = a
    BY <2>3 DEF Destined, OneAnswer
  <2> QED
    BY <1>2, <2>2, <2>3, <2>4 DEF LeftOver
<1>10. \A k \in Messages : ~Holds(a.rest, k) => (LeftOver(k)' <=> LeftOver(k))
  BY <1>2 DEF LeftOver
<1>11. /\ \A k \in Messages : Queued(k) => Queued(k)'
       /\ \A k \in Messages : Queued(k)' => Queued(k) \/ Holds(a.rest, k)
       /\ \A k \in Messages : Holds(a.rest, k) =>
             Queued(k)' \/ turn'[r] \in {"failed", "cancelled", "error"}
  BY <1>4, <1>6 DEF Queued
<1>12. \A k \in Messages : Taken(k)' => Taken(k)
  BY <1>8, <1>9, <1>10, <1>11 DEF Taken
<1>13. Destined'
  <2>1. \A q \in Runs : turn[q] # "waiting" => turn'[q] # "waiting"
    BY <1>4
  <2> QED
    BY <1>2, <1>4, <1>8, <1>12, <2>1 DEF Destined
<1>14. NothingTwice'
  BY <1>2 DEF NothingTwice
<1>15. OnePlace'
  <2>1. ASSUME NEW k \in Messages
        PROVE  /\ Boxed(k)' => ~Drained(k)' /\ ~Written(k)' /\ ~LeftOver(k)' /\ ~Queued(k)'
               /\ Drained(k)' => ~Written(k)' /\ ~LeftOver(k)' /\ ~Queued(k)'
               /\ LeftOver(k)' => ~Written(k)' /\ ~Queued(k)'
               /\ ~(Written(k)' /\ Queued(k)')
    <3>1. /\ Boxed(k) => ~Drained(k) /\ ~Written(k) /\ ~LeftOver(k) /\ ~Queued(k)
          /\ Drained(k) => ~Written(k) /\ ~LeftOver(k) /\ ~Queued(k)
          /\ LeftOver(k) => ~Written(k) /\ ~Queued(k)
          /\ ~(Written(k) /\ Queued(k))
      BY DEF OnePlace
    <3> QED
      BY <1>8, <1>9, <1>10, <1>11, <3>1
  <2>2. \A k \in Messages :
           /\ OnTheWay(k)' => ~Taken(k)' /\ ~Answered(k)' /\ steering'[k] \in {"sent", "failed"}
           /\ Declined(k)' => ~Taken(k)'
    BY <1>4, <1>8, <1>12 DEF OnePlace
  <2> QED
    BY <2>1, <2>2 DEF OnePlace
<1>16. OneAnswer'
  <2>1. \A q \in Runs : WithAgent(q)' <=> WithAgent(q)
    BY <1>2 DEF WithAgent, InLine
  <2>2. ~WithAgent(r) /\ \A b \in toGateway' : b.call # RunCall(r)
    BY <1>2, <1>3 DEF Over, OneAnswer
  <2>3. \A q \in Runs : \A b, c \in toGateway' :
           b.call = RunCall(q) /\ c.call = RunCall(q) => b = c
    BY <1>2 DEF OneAnswer
  <2>4. \A q \in Runs : turn'[q] = "completed" =>
           ~WithAgent(q)' /\ \A b \in toGateway' : b.call # RunCall(q)
    BY <1>2, <1>4, <2>1, <2>2 DEF OneAnswer
  <2>5. \A q \in Runs : inbox'[q] # <<>> => handle'[q] # "none"
    BY <1>2 DEF OneAnswer
  <2> QED
    BY <2>3, <2>4, <2>5 DEF OneAnswer
<1>17. NothingLost'
  <2>1. \A q \in Runs \ {r} : Spoilt(q) => Spoilt(q)'
    <3>1. ASSUME NEW q \in Runs, q # r, Spoilt(q) PROVE Spoilt(q)'
      <4>1. \A b \in toGateway : b.call = RunCall(q) => b \in toGateway'
        BY <1>2, <1>7, <3>1
      <4> QED
        BY <1>2, <1>4, <3>1, <4>1 DEF Spoilt
    <3> QED
      BY <3>1
  <2>2. Spoilt(r) => Spoilt(r)'
    <3>1. CASE turn'[r] \in {"failed", "cancelled", "error"}
      BY <3>1 DEF Spoilt
    <3>2. CASE a.ok /\ turn'[r] = a.outcome /\ a.outcome = "completed"
      <4>1. RunAnswered(r, a)
        <5>1. ~Unmatched(a)
          <6>1. SUFFICES ASSUME Unmatched(a) PROVE FALSE
            OBVIOUS
          <6>2. turn' = turn
            BY <6>1 DEF Unmatched, gatewayVars
          <6> QED
            BY <3>2, <6>2 DEF OneAnswer
        <5> QED
          BY <5>1
      <4>2. turn[r] = "active"
        BY <1>1, <4>1 DEF RunAnswered, CallersMatchCalls
      <4>3. handle[r] = "none"
        BY <1>3 DEF Over, WithAgent
      <4>4. \A b \in toGateway : b.call = RunCall(r) => b = a
        BY DEF OneAnswer
      <4> QED
        BY <3>2, <4>2, <4>3, <4>4 DEF Spoilt
    <3> QED
      BY <1>3, <1>4, <3>1, <3>2 DEF Outcomes
  <2>3. \A k \in Messages : Accepted(k) => steeredRun[k] \in Runs
    BY DEF Destined, Accepted, Answered
  <2>4. ASSUME NEW k \in Messages, Taken(k), ~Taken(k)'
        PROVE  steeredRun[k] = r /\ turn'[r] \in {"failed", "cancelled", "error"}
    <3>1. Holds(a.rest, k)
      BY <1>8, <1>10, <1>11, <2>4 DEF Taken
    <3> QED
      BY <1>9, <1>11, <2>4, <3>1 DEF Taken
  <2>5. ASSUME NEW k \in Messages, Accepted(k)' PROVE Taken(k)' \/ Spoilt(steeredRun[k])'
    <3>1. Accepted(k) /\ (Taken(k) \/ Spoilt(steeredRun[k])) /\ steeredRun[k] \in Runs
      BY <1>8, <2>3, <2>5 DEF NothingLost
    <3>2. Spoilt(steeredRun[k]) => Spoilt(steeredRun[k])'
      BY <1>4, <2>1, <2>2, <3>1
    <3>3. turn'[r] \in {"failed", "cancelled", "error"} => Spoilt(r)'
      BY DEF Spoilt
    <3> QED
      BY <1>4, <2>4, <3>1, <3>2, <3>3
  <2> QED
    BY <2>5 DEF NothingLost
<1> QED
  BY <1>13, <1>14, <1>15, <1>16, <1>17

\* The answer to a message or to a stop arrives.
LEMMA AnswersKeepSteering ==
    ASSUME RunsInv, SteeringInv, NEW a \in toGateway, \A r \in Runs : a.call # RunCall(r),
           \/ Unmatched(a)
           \/ \E r \in Runs, n \in 1..MaxStops : CancelAnswered(r, n, a)
           \/ \E m \in Messages : SteerAnswered(m, a)
    PROVE  SteeringInv'
<1> USE DEF SteeringInv
<1>1. TypeOK /\ CallersMatchCalls
  BY DEF RunsInv, GatewayInv
<1>2. /\ toGateway' = toGateway \ {a}
      /\ UNCHANGED <<toAgent, handle, inbox, batch, transcript, turn, steeredRun, requeued>>
  BY DEF Unmatched, CancelAnswered, SteerAnswered, HandleResponse, agentVars, gatewayVars
<1>3. \/ steering' = steering
      \/ \E m \in Messages :
            /\ a.call = SteerCall(m) /\ steering[m] = "sent"
            /\ steering'[m] = (IF a.ok THEN "accepted" ELSE "declined")
            /\ \A k \in Messages \ {m} : steering'[k] = steering[k]
  <2>1. ASSUME NEW m \in Messages, SteerAnswered(m, a)
        PROVE  /\ a.call = SteerCall(m) /\ steering[m] = "sent"
               /\ steering'[m] = (IF a.ok THEN "accepted" ELSE "declined")
               /\ \A k \in Messages \ {m} : steering'[k] = steering[k]
    BY <1>1, <2>1 DEF SteerAnswered, CallersMatchCalls, TypeOK
  <2>2. Unmatched(a) => steering' = steering
    BY DEF Unmatched, gatewayVars
  <2>3. \A r \in Runs, n \in 1..MaxStops : CancelAnswered(r, n, a) => steering' = steering
    BY DEF CancelAnswered
  <2> QED
    BY <2>1, <2>2, <2>3
<1>4. \A k \in Messages : /\ ~Holds(a.rest, k)
                          /\ (Accepted(k)' => Accepted(k)) /\ (Declined(k)' => Declined(k))
                          /\ (Answered(k)' => Answered(k))
                          /\ steering'[k] # steering[k] => Answered(k) /\ steering[k] = "sent"
                          /\ steering'[k] = "new" <=> steering[k] = "new"
  <2>1. ASSUME NEW k \in Messages PROVE ~Holds(a.rest, k)
    <3>1. SUFFICES ASSUME Holds(a.rest, k) PROVE FALSE
      OBVIOUS
    <3>2. steering[k] # "new"
      BY <3>1 DEF Destined, Taken, LeftOver
    <3> QED
      BY <3>1, <3>2 DEF Destined
  <2>2. CASE steering' = steering
    BY <1>2, <2>1, <2>2 DEF Accepted, Declined, Answered
  <2>3. ASSUME NEW m \in Messages, a.call = SteerCall(m), steering[m] = "sent",
               steering'[m] = (IF a.ok THEN "accepted" ELSE "declined"),
               \A k \in Messages \ {m} : steering'[k] = steering[k]
        PROVE  \A k \in Messages :
                  /\ (Accepted(k)' => Accepted(k)) /\ (Declined(k)' => Declined(k))
                  /\ (Answered(k)' => Answered(k))
                  /\ steering'[k] # steering[k] => Answered(k) /\ steering[k] = "sent"
                  /\ steering'[k] = "new" <=> steering[k] = "new"
    BY <1>2, <2>3 DEF Accepted, Declined, Answered
  <2> QED
    BY <1>3, <2>1, <2>2, <2>3
<1>5. \A k \in Messages : /\ (Boxed(k)' <=> Boxed(k)) /\ (Drained(k)' <=> Drained(k))
                          /\ (Written(k)' <=> Written(k)) /\ (OnTheWay(k)' <=> OnTheWay(k))
                          /\ (Queued(k)' <=> Queued(k)) /\ (LeftOver(k)' <=> LeftOver(k))
  BY <1>2, <1>4 DEF Boxed, Drained, Written, OnTheWay, Queued, LeftOver
<1>6. \A k \in Messages : Taken(k)' <=> Taken(k)
  BY <1>5 DEF Taken
<1>7. Destined'
  <2>1. \A k \in Messages : Answered(k)' => Answered(k)
    BY <1>4
  <2> QED
    BY <1>2, <1>4, <1>5, <1>6, <2>1 DEF Destined
<1>8. NothingTwice'
  BY <1>2 DEF NothingTwice
<1>9. OnePlace'
  BY <1>4, <1>5, <1>6 DEF OnePlace
<1>10. OneAnswer'
  <2>1. \A q \in Runs : WithAgent(q)' <=> WithAgent(q)
    BY <1>2 DEF WithAgent, InLine
  <2> QED
    BY <1>2, <2>1 DEF OneAnswer
<1>11. NothingLost'
  <2>1. \A q \in Runs : Spoilt(q) => Spoilt(q)'
    BY <1>2 DEF Spoilt
  <2>2. \A k \in Messages : Accepted(k) => steeredRun[k] \in Runs
    BY DEF Destined, Accepted, Answered
  <2>3. ASSUME NEW k \in Messages, Accepted(k)' PROVE Taken(k)' \/ Spoilt(steeredRun[k])'
    <3>1. Accepted(k) /\ (Taken(k) \/ Spoilt(steeredRun[k])) /\ steeredRun[k] \in Runs
      BY <1>4, <2>2, <2>3 DEF NothingLost
    <3>2. Spoilt(steeredRun[k]) => Spoilt(steeredRun[k])'
      BY <1>2, <2>1, <3>1
    <3> QED
      BY <1>6, <3>1, <3>2
  <2> QED
    BY <2>3 DEF NothingLost
<1> QED
  BY <1>7, <1>8, <1>9, <1>10, <1>11

\* Every step keeps what steering rests on.
LEMMA NextKeepsSteering ==
    ASSUME AgentRunsAssumption, RunsInv, SteeringInv, [Next]_vars
    PROVE  SteeringInv'
<1>1. CASE UNCHANGED vars
  <2>1. UNCHANGED <<toAgent, toGateway, handle, inbox, batch, transcript, turn, steering,
                    steeredRun, requeued>>
    BY <1>1 DEF vars, gatewayVars, wireVars, agentVars
  <2>2. \A q \in Runs : WithAgent(q)' <=> WithAgent(q)
    BY <2>1 DEF WithAgent, InLine
  <2>3. \A m \in Messages : OnTheWay(m)' <=> OnTheWay(m)
    BY <2>1 DEF OnTheWay
  <2>4. TypeOK /\ \A m \in Messages : HoldsOnce(toAgent, SteerCall(m))
    BY DEF RunsInv, SteeringInv, NothingTwice
  <2> QED
    BY <2>1, <2>2, <2>3, <2>4, OthersKeepSteering
<1>2. CASE Respond
  <2>1. PICK a \in toGateway :
            \/ Unmatched(a)
            \/ \E r \in Runs : RunAnswered(r, a)
            \/ \E r \in Runs, n \in 1..MaxStops : CancelAnswered(r, n, a)
            \/ \E m \in Messages : SteerAnswered(m, a)
    BY <1>2 DEF Respond
  <2>2. CASE \E r \in Runs : a.call = RunCall(r)
    <3>1. PICK r \in Runs : a.call = RunCall(r)
      BY <2>2
    <3>2. \A q \in Runs : RunAnswered(q, a) => q = r
      BY <3>1, CallsDiffer DEF RunAnswered
    <3>3. /\ \A q \in Runs, n \in 1..MaxStops : ~CancelAnswered(q, n, a)
          /\ \A m \in Messages : ~SteerAnswered(m, a)
      BY <3>1, CallsDiffer DEF CancelAnswered, SteerAnswered
    <3> QED
      BY <2>1, <3>1, <3>2, <3>3, RunAnswerKeepsSteering
  <2>3. CASE \A r \in Runs : a.call # RunCall(r)
    <3>1. \A r \in Runs : ~RunAnswered(r, a)
      BY <2>3 DEF RunAnswered
    <3> QED
      BY <2>1, <2>3, <3>1, AnswersKeepSteering
  <2> QED
    BY <2>2, <2>3
<1>3. \/ UNCHANGED vars
      \/ \E r \in Runs : StartTurn(r) \/ RequestStop(r) \/ ReceiveRun(r)
      \/ \E m \in Messages, r \in Runs : SteerActive(m, r)
      \/ \E c \in Calls : TimeOut(c)
      \/ Launch \/ Initialized \/ FailConnection \/ Exit
      \/ \E r \in Runs, n \in 1..MaxStops : ReceiveCancel(r, n)
      \/ \E m \in Messages : ReceiveSteer(m)
      \/ AbortActiveTurns
      \/ \E r \in Runs : DrainSteering(r) \/ AppendSteering(r) \/ AppendFails(r)
      \/ \E r \in Runs, outcome \in Outcomes \cup {"threw"} : TurnEnds(r, outcome)
      \/ \E r \in Runs : TurnReturns(r) \/ TurnThrows(r)
      \/ Respond
  BY DEF Next, Dispatch
<1> QED
  BY <1>1, <1>2, <1>3, GatewayKeepsSteering, SendKeepsSteering, AgentKeepsSteering,
     ArrivalKeepsSteering, DrainKeepsSteering, WriteKeepsSteering, EndKeepsSteering,
     ExitKeepsSteering

\* What two sequences have between them.
LEMMA HoldsJoined ==
    ASSUME NEW S, NEW s \in Seq(S), NEW t \in Seq(S), NEW x, Contains(s \o t, x)
    PROVE  Holds(s, x) \/ Holds(t, x)
<1>1. PICK i \in 1..Len(s \o t) : (s \o t)[i] = x
  BY DEF Contains
<1>2. Len(s) \in Nat /\ Len(t) \in Nat /\ Len(s \o t) = Len(s) + Len(t)
  OBVIOUS
<1>3. CASE i <= Len(s)
  <2>1. i \in 1..Len(s)
    BY <1>2, <1>3
  <2>2. (s \o t)[i] = s[i]
    BY <2>1
  <2> QED
    BY <1>1, <2>1, <2>2 DEF Holds
<1>4. CASE i > Len(s)
  <2>1. i - Len(s) \in 1..Len(t)
    BY <1>2, <1>4
  <2>2. (s \o t)[i] = t[i - Len(s)]
    BY <1>2, <1>4
  <2> QED
    BY <1>1, <2>1, <2>2 DEF Holds
<1> QED
  BY <1>2, <1>3, <1>4

\* What the places of a message say of the caller, the history and the queue.
LEMMA MessagesHaveOnePlace ==
    ASSUME TypeOK, SteeringInv
    PROVE  SteeringHandledOnce
<1>1. SUFFICES ASSUME NEW m \in Messages
               PROVE  /\ m \in requeued => m \notin transcript /\ steering[m] # "declined"
                      /\ steering[m] = "declined" =>
                            /\ m \notin transcript
                            /\ \A r \in Runs : ~Contains(inbox[r] \o batch[r], m)
  BY DEF SteeringHandledOnce
<1>2. /\ m \in requeued => m \notin transcript
      /\ steering[m] = "declined" =>
            /\ m \notin transcript /\ m \notin requeued
            /\ \A r \in Runs : ~Holds(inbox[r], m) /\ ~Holds(batch[r], m)
  BY <1>1 DEF SteeringInv, OnePlace, Declined, Taken, Boxed, Drained, Written, Queued
<1>3. \A r \in Runs : Contains(inbox[r] \o batch[r], m) =>
                         Holds(inbox[r], m) \/ Holds(batch[r], m)
  <2>1. \A r \in Runs : inbox[r] \in Seq(Messages) /\ batch[r] \in Seq(Messages)
    BY <1>1 DEF TypeOK
  <2> QED
    BY <2>1, HoldsJoined
<1> QED
  BY <1>2, <1>3

\* What they say of a run that completed.
LEMMA CompletedRunsTookAll ==
    ASSUME RunsInv, SteeringInv
    PROVE  CompletedRunsKeepSteering
<1>1. SUFFICES ASSUME NEW m \in Messages, steering[m] = "accepted",
                      turn[steeredRun[m]] = "completed"
               PROVE  m \in transcript \/ m \in requeued
  BY DEF CompletedRunsKeepSteering
<1> USE DEF SteeringInv
<1>2. steeredRun[m] \in Runs
  BY <1>1 DEF Destined
<1>3. handle[steeredRun[m]] = "none" /\ \A a \in toGateway : a.call # RunCall(steeredRun[m])
  BY <1>1, <1>2 DEF OneAnswer, WithAgent
<1>4. inbox[steeredRun[m]] = <<>> /\ batch[steeredRun[m]] = <<>>
  BY <1>1, <1>2, <1>3 DEF OneAnswer, RunsInv, HeldInv
<1>5. ~Boxed(m) /\ ~Drained(m) /\ ~LeftOver(m)
  BY <1>1, <1>3, <1>4, HoldsNothing DEF Boxed, Drained, LeftOver, Destined
<1>6. ~Spoilt(steeredRun[m])
  BY <1>1, <1>3 DEF Spoilt
<1> QED
  BY <1>1, <1>5, <1>6 DEF NothingLost, Accepted, Taken, Written, Queued

-----------------------------------------------------------------------------
(* The theorems *)

\* The inductive invariant holds.
LEMMA RunsInvariant == ASSUME AgentRunsAssumption PROVE Spec => []RunsInv
<1>1. Init => RunsInv
  BY InitRuns
<1>2. RunsInv /\ [Next]_vars => RunsInv'
  BY NextKeepsRuns
<1> QED
  BY <1>1, <1>2, PTL DEF Spec

\* Whatever answers come late, come twice or never come, and however often the child is
\* lost, what the scheduler and the callers wait for is what is pending.
THEOREM CallersAndCallsAgree == ASSUME AgentRunsAssumption PROVE Spec => []AgentRunsInv
<1>1. RunsInv => AgentRunsInv
  BY RunsAgree
<1> QED
  BY <1>1, RunsInvariant, PTL

\* The agent never has two runs of a session, though the gateway gives up the runs of a lost
\* connection and goes on to the next while the agent may still be at work.
THEOREM OneRunOfEachSession == ASSUME AgentRunsAssumption PROVE Spec => []SessionRunsAlone
<1>1. RunsInv => SessionRunsAlone
  BY RunsAgree
<1> QED
  BY <1>1, RunsInvariant, PTL

\* A stop that was reported as done has reached the run, or the run was over before.
THEOREM StopsAreReal == ASSUME AgentRunsAssumption PROVE Spec => []AcknowledgedStopAborts
<1>1. RunsInv => AcknowledgedStopAborts
  BY RunsAgree
<1> QED
  BY <1>1, RunsInvariant, PTL

\* What steering rests on holds throughout.
LEMMA SteeringInvariant == ASSUME AgentRunsAssumption PROVE Spec => []SteeringInv
<1>1. Init => SteeringInv
  BY InitSteering
<1>2. RunsInv /\ SteeringInv /\ [Next]_vars => SteeringInv'
  BY NextKeepsSteering
<1> QED
  BY <1>1, <1>2, RunsInvariant, PTL DEF Spec

\* A message a caller was told to queue itself is with no run and in no history, and one
\* that a run wrote is not queued again, whichever of the caller's timer, the run's end and
\* the loss of the child comes first.
THEOREM MessagesAreHandledOnce == ASSUME AgentRunsAssumption PROVE Spec => []SteeringHandledOnce
<1>1. RunsInv /\ SteeringInv => SteeringHandledOnce
  BY MessagesHaveOnePlace DEF RunsInv
<1> QED
  BY <1>1, RunsInvariant, SteeringInvariant, PTL

\* A message whose sender was told that the run took it is in the history, or back in the
\* queue, when the run completed, however late it came.
THEOREM CompletedRunsLoseNothing ==
    ASSUME AgentRunsAssumption PROVE Spec => []CompletedRunsKeepSteering
<1>1. RunsInv /\ SteeringInv => CompletedRunsKeepSteering
  BY CompletedRunsTookAll
<1> QED
  BY <1>1, RunsInvariant, SteeringInvariant, PTL
=============================================================================
