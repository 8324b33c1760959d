-------------------------- MODULE SessionScheduler --------------------------
(***************************************************************************)
(* The gateway's SessionScheduler: it turns jobs of many sessions into     *)
(* runs of the agent runtime, one run per session at a time, and joins     *)
(* admission, cancellation, steering left over by a run, session deletion  *)
(* and application updates around that rule.                               *)
(*                                                                         *)
(* The scheduler lives on one JavaScript event loop: the code between two  *)
(* awaits is atomic, so every synchronous stretch is one action and every  *)
(* await splits an operation in two.  drain() is part of each of them.     *)
(*                                                                         *)
(* A job is an element of Jobs and is submitted at most once; its session  *)
(* never changes.  The queue of a session is the set of its waiting jobs   *)
(* together with the rank each was given: push takes a rank above every    *)
(* rank handed out, unshift one below, shift removes the least.            *)
(***************************************************************************)
EXTENDS Integers, FiniteSets

CONSTANTS
    Sessions,       \* session ids
    Jobs,           \* job ids, every AgentJob that can ever be created
    SessionOf,      \* job.session_id
    SessionKeys,    \* channel session keys a deletion may fence
    NoJob           \* "no run" in activeBySession

ASSUME SchedulerAssumption ==
    /\ IsFiniteSet(Jobs)
    /\ NoJob \notin Jobs
    /\ SessionOf \in [Jobs -> Sessions]

VARIABLES
    pending,                \* waiting jobs of each session
    rank,                   \* order of the jobs in their session's queue
    front, back,            \* least and greatest rank handed out per session
    ready,                  \* sessions that drain() may start
    activeBySession,        \* the run of each session
    activeByRun,            \* the runs a completion may release
    admissions,             \* enqueue calls inside beforeAccept, per session
    jobState,               \* where the enqueue call or the published state is
    options,                \* options of an enqueue call inside beforeAccept
    cancelInFlight,         \* handles whose cancelRequest promise is pending
    cancelRequested,        \* handles whose cancellation was acknowledged
    runtimeReady,
    updateFenced,
    discardSteering,        \* discardSteeringAfterUpdate
    quiesced,               \* cancelForUpdate() ran under the present fence
    sessionDeletionFences,
    sessionKeyDeletionFences,
    deleting                \* keys held by each deletion's release closure

queueVars  == <<pending, rank, front, back, ready>>
activeVars == <<activeBySession, activeByRun>>
cancelVars == <<cancelInFlight, cancelRequested>>
updateVars == <<updateFenced, discardSteering, quiesced>>
fenceVars  == <<sessionDeletionFences, sessionKeyDeletionFences, deleting>>
vars == <<queueVars, activeVars, admissions, jobState, options, cancelVars,
          runtimeReady, updateVars, fenceVars>>

-----------------------------------------------------------------------------
EnqueueOptions == {"front", "onlyIfIdle"}

\* An enqueue call that has not been accepted, or was turned away.
CallStates == {"new", "persisting", "refused"}
LiveStates == {"running", "stopping"}
FinalStates == {"completed", "cancelled", "error", "cleared"}
JobStates == CallStates \cup {"queued"} \cup LiveStates \cup FinalStates

TypeOK ==
    /\ pending \in [Sessions -> SUBSET Jobs]
    /\ rank \in [Jobs -> Int]
    /\ front \in [Sessions -> Int]
    /\ back \in [Sessions -> Int]
    /\ ready \subseteq Sessions
    /\ activeBySession \in [Sessions -> Jobs \cup {NoJob}]
    /\ activeByRun \subseteq Jobs
    /\ admissions \in [Sessions -> Nat]
    /\ jobState \in [Jobs -> JobStates]
    /\ options \in [Jobs -> SUBSET EnqueueOptions]
    /\ cancelInFlight \subseteq Jobs
    /\ cancelRequested \subseteq Jobs
    /\ runtimeReady \in BOOLEAN
    /\ updateFenced \in BOOLEAN
    /\ discardSteering \subseteq Jobs
    /\ quiesced \in BOOLEAN
    /\ sessionDeletionFences \subseteq Sessions
    /\ sessionKeyDeletionFences \subseteq SessionKeys
    /\ deleting \in [Sessions -> SUBSET SessionKeys]

\* The composition constructs the scheduler and at once marks it not ready.
Init ==
    /\ pending = [s \in Sessions |-> {}]
    /\ rank = [j \in Jobs |-> 0]
    /\ front = [s \in Sessions |-> 0]
    /\ back = [s \in Sessions |-> 0]
    /\ ready = {}
    /\ activeBySession = [s \in Sessions |-> NoJob]
    /\ activeByRun = {}
    /\ admissions = [s \in Sessions |-> 0]
    /\ jobState = [j \in Jobs |-> "new"]
    /\ options = [j \in Jobs |-> {}]
    /\ cancelInFlight = {}
    /\ cancelRequested = {}
    /\ runtimeReady = FALSE
    /\ updateFenced = FALSE
    /\ discardSteering = {}
    /\ quiesced = FALSE
    /\ sessionDeletionFences = {}
    /\ sessionKeyDeletionFences = {}
    /\ deleting = [s \in Sessions |-> {}]

-----------------------------------------------------------------------------
\* Fault: work that is still being persisted is overlooked.
OverlooksAdmissions(s) == activeBySession[s] # NoJob \/ pending[s] # {}

HasInflightWork(s) ==
    admissions[s] > 0 \/ activeBySession[s] # NoJob \/ pending[s] # {}

HasInflightJobs == \E s \in Sessions : HasInflightWork(s)

\* Fault: looks at the run slot before the operation released it.
MarkReadyTooEarly(s, q, r, a) ==
    IF activeBySession[s] = NoJob /\ q[s] # {} THEN r \cup {s} ELSE r

\* markReady(s), on the queues q, the ready list r and the active runs a that
\* the operation has produced so far.
MarkReady(s, q, r, a) ==
    IF a[s] = NoJob /\ q[s] # {} THEN r \cup {s} ELSE r

\* Fault: takes the job at the other end.
Last(w, order) ==
    CHOOSE j \in w : \A k \in w : order[k] <= order[j]

\* The job queue.shift() takes from the waiting jobs w.
First(w, order) ==
    CHOOSE j \in w : \A k \in w : order[j] <= order[k]

\* Fault: the session's slot is not taken when the run starts.
DrainWithoutSlot(q, r, a, runs, st, enabled) ==
    LET starting == IF enabled THEN {s \in r : a[s] = NoJob /\ q[s] # {}} ELSE {}
        started == {First(q[s], rank') : s \in starting}
    IN  /\ pending' = [s \in Sessions |-> q[s] \ started]
        /\ ready' = IF enabled THEN {} ELSE r
        /\ activeBySession' = a
        /\ activeByRun' = runs \cup started
        /\ jobState' = [j \in Jobs |-> IF j \in started THEN "running" ELSE st[j]]

\* drain(), which ends every operation that queues or releases something: all
\* ready sessions get their first job, in one synchronous loop.  Its arguments
\* are the queues, ready list, active runs, run index and job states before it
\* and whether it may run at all; rank' must already be set.
Drain(q, r, a, runs, st, enabled) ==
    LET starting == IF enabled THEN {s \in r : a[s] = NoJob /\ q[s] # {}} ELSE {}
        next(s) == First(q[s], rank')
        started == {next(s) : s \in starting}
    IN  /\ pending' = [s \in Sessions |->
                          IF s \in starting THEN q[s] \ {next(s)} ELSE q[s]]
        /\ ready' = IF enabled THEN {} ELSE r
        /\ activeBySession' = [s \in Sessions |->
                          IF s \in starting THEN next(s) ELSE a[s]]
        /\ activeByRun' = runs \cup started
        /\ jobState' = [j \in Jobs |-> IF j \in started THEN "running" ELSE st[j]]

MayDrain == runtimeReady /\ ~updateFenced

-----------------------------------------------------------------------------
(* enqueue() *)

\* The checks at the top of enqueue().
AdmissionOpen(s) == ~updateFenced /\ s \notin sessionDeletionFences

\* The rest of enqueue(), after beforeAccept if there was one: queue the job at
\* the end its options name, publish "queued", mark the session ready, drain.
Accept(j, opts) ==
    LET s == SessionOf[j]
        q == [pending EXCEPT ![s] = @ \cup {j}]
    IN  /\ IF "front" \in opts
           THEN /\ front' = [front EXCEPT ![s] = @ - 1]
                /\ rank' = [rank EXCEPT ![j] = front[s] - 1]
                /\ UNCHANGED back
           ELSE /\ back' = [back EXCEPT ![s] = @ + 1]
                /\ rank' = [rank EXCEPT ![j] = back[s] + 1]
                /\ UNCHANGED front
        /\ Drain(q, MarkReady(s, q, ready, activeBySession), activeBySession,
                 activeByRun, [jobState EXCEPT ![j] = "queued"], MayDrain)

\* Why an onlyIfIdle call is turned away after beforeAccept.
MustRefuse(s, opts, inflight) ==
    /\ "onlyIfIdle" \in opts
    /\ \/ ~runtimeReady
       \/ inflight
       \/ updateFenced
       \/ s \in sessionDeletionFences

Refuse(j) ==
    /\ jobState' = [jobState EXCEPT ![j] = "refused"]
    /\ UNCHANGED <<queueVars, activeVars>>

\* enqueue() without beforeAccept: one synchronous stretch.  A call refused at
\* the top throws and changes nothing.  assertCurrent, which only onlyIfIdle
\* callers pass, may throw.
Enqueue(j, opts) ==
    LET s == SessionOf[j] IN
    /\ jobState[j] = "new"
    /\ AdmissionOpen(s)
    /\ \/ ~MustRefuse(s, opts, HasInflightWork(s)) /\ Accept(j, opts)
       \/ "onlyIfIdle" \in opts /\ Refuse(j)
    /\ UNCHANGED <<admissions, options, cancelVars, runtimeReady, updateVars,
                   fenceVars>>

\* enqueue() with beforeAccept: the admission is counted, then awaited.
EnqueuePersisting(j, opts) ==
    LET s == SessionOf[j] IN
    /\ jobState[j] = "new"
    /\ AdmissionOpen(s)
    /\ admissions' = [admissions EXCEPT ![s] = @ + 1]
    /\ options' = [options EXCEPT ![j] = opts]
    /\ jobState' = [jobState EXCEPT ![j] = "persisting"]
    /\ UNCHANGED <<queueVars, activeVars, cancelVars, runtimeReady, updateVars,
                   fenceVars>>

\* Fault: the finally block and the caller both give the admission back.
ReleaseAdmissionTwice(s) == admissions' = [admissions EXCEPT ![s] = @ - 2]

ReleaseAdmission(s) == admissions' = [admissions EXCEPT ![s] = @ - 1]

\* beforeAccept resolved; assertCurrent may still throw.
PersistSucceeded(j) ==
    LET s == SessionOf[j]
        inflight == admissions'[s] > 0 \/ activeBySession[s] # NoJob \/ pending[s] # {}
    IN
    /\ jobState[j] = "persisting"
    /\ ReleaseAdmission(s)
    /\ options' = [options EXCEPT ![j] = {}]
    /\ \/ ~MustRefuse(s, options[j], inflight) /\ Accept(j, options[j])
       \/ "onlyIfIdle" \in options[j] /\ Refuse(j)
    /\ UNCHANGED <<cancelVars, runtimeReady, updateVars, fenceVars>>

\* Fault: a rejected beforeAccept skips the release.
PersistFailedWithoutRelease(j) ==
    /\ jobState[j] = "persisting"
    /\ options' = [options EXCEPT ![j] = {}]
    /\ Refuse(j)
    /\ UNCHANGED <<admissions, cancelVars, runtimeReady, updateVars, fenceVars>>

\* beforeAccept rejected: only the finally block runs.
PersistFailed(j) ==
    /\ jobState[j] = "persisting"
    /\ ReleaseAdmission(SessionOf[j])
    /\ options' = [options EXCEPT ![j] = {}]
    /\ Refuse(j)
    /\ UNCHANGED <<cancelVars, runtimeReady, updateVars, fenceVars>>

-----------------------------------------------------------------------------
(* clearPendingMatching(), and clearPending() when every job matches *)

\* What clearing the jobs c of session s leaves of queue and ready list.
ClearPendingMatching(s, c) ==
    /\ c \subseteq pending[s]
    /\ c # {}
    /\ pending' = [pending EXCEPT ![s] = @ \ c]
    /\ ready' = IF pending[s] \ c = {} THEN ready \ {s} ELSE ready
    /\ jobState' = [j \in Jobs |-> IF j \in c THEN "cleared" ELSE jobState[j]]
    /\ UNCHANGED <<rank, front, back, activeVars, admissions, options, cancelVars,
                   runtimeReady, updateVars, fenceVars>>

-----------------------------------------------------------------------------
(* requestStop() *)

\* The handles for which requestStop() would start a cancelRequest: a call for
\* an acknowledged or pending cancellation returns without effect.
Stoppable(h) == h \ (cancelRequested \cup cancelInFlight)

RequestStop(j) ==
    /\ j \in Stoppable(activeByRun)
    /\ cancelInFlight' = cancelInFlight \cup {j}
    /\ jobState' = [jobState EXCEPT ![j] = "stopping"]
    /\ UNCHANGED <<queueVars, activeVars, admissions, options, cancelRequested,
                   runtimeReady, updateVars, fenceVars>>

\* runtime.cancelTurn resolved.  The run may have ended in the meantime: the
\* flag of a released handle is never read again and is not kept.
CancelSucceeded(j) ==
    /\ j \in cancelInFlight
    /\ cancelInFlight' = cancelInFlight \ {j}
    /\ cancelRequested' = cancelRequested \cup ({j} \cap activeByRun)
    /\ UNCHANGED <<queueVars, activeVars, admissions, jobState, options,
                   runtimeReady, updateVars, fenceVars>>

\* What a rejected cancellation does whether or not the run is still there.
DropsCancelRequest(j) ==
    /\ j \in cancelInFlight
    /\ cancelInFlight' = cancelInFlight \ {j}
    /\ cancelRequested' = cancelRequested \ {j}
    /\ UNCHANGED <<queueVars, activeVars, admissions, options, runtimeReady,
                   updateVars, fenceVars>>

\* Fault: "running" is not published again.
CancelFailedSilently(j) == DropsCancelRequest(j) /\ UNCHANGED jobState

\* Fault: "running" is published for a run that has ended.
CancelFailedRevives(j) ==
    DropsCancelRequest(j) /\ jobState' = [jobState EXCEPT ![j] = "running"]

\* runtime.cancelTurn rejected: "running" is published only for a live run.
CancelFailed(j) ==
    /\ DropsCancelRequest(j)
    /\ jobState' = IF j \in activeByRun THEN [jobState EXCEPT ![j] = "running"]
                   ELSE jobState

-----------------------------------------------------------------------------
(* handleRuntimeEvent() for the completion of an active run *)

\* The state the completion publishes.
OutcomeState(j, status) ==
    IF status = "cancelled" \/ j \in cancelRequested THEN "cancelled"
    ELSE IF status = "completed" THEN "completed" ELSE "error"

\* Fault: an acknowledged stop does not outweigh the status of the run.
RequeuesByStatus(j, status) == status # "cancelled" /\ j \notin discardSteering

\* Fault: the mark of cancelForUpdate() is not looked at.
RequeuesDiscarded(j, status) == OutcomeState(j, status) # "cancelled"

\* Whether steering the run did not consume is put back into the queue.
RequeuesSteering(j, status) ==
    OutcomeState(j, status) # "cancelled" /\ j \notin discardSteering

\* The run of job j settles with the given status; k is the job made of its
\* remaining steering, NoJob when there is none.  A completion whose run,
\* session or job does not match an active handle changes nothing.  The handle
\* is dropped, and with it what only its holder can read: whether its stop was
\* acknowledged and whether it is in the weak set of discarded steering.
HandleRuntimeEvent(j, status, k) ==
    LET s == SessionOf[j]
        requeued == k # NoJob /\ RequeuesSteering(j, status)
        a == [activeBySession EXCEPT ![s] = NoJob]
        q == IF requeued THEN [pending EXCEPT ![s] = @ \cup {k}] ELSE pending
        ended == [jobState EXCEPT ![j] = OutcomeState(j, status)]
        st == IF requeued THEN [ended EXCEPT ![k] = "queued"] ELSE ended
    IN
    /\ j \in activeByRun
    /\ k # NoJob => jobState[k] = "new" /\ SessionOf[k] = s
    /\ IF requeued
       THEN /\ front' = [front EXCEPT ![s] = @ - 1]
            /\ rank' = [rank EXCEPT ![k] = front[s] - 1]
       ELSE UNCHANGED <<front, rank>>
    /\ UNCHANGED back
    /\ Drain(q, MarkReady(s, q, ready, a), a, activeByRun \ {j}, st, MayDrain)
    /\ cancelRequested' = cancelRequested \ {j}
    /\ discardSteering' = discardSteering \ {j}
    /\ UNCHANGED <<admissions, options, cancelInFlight, runtimeReady, updateFenced,
                   quiesced, fenceVars>>

-----------------------------------------------------------------------------
(* setRuntimeReady(), and the two halves of an application update *)

SetRuntimeReady(isReady) ==
    /\ runtimeReady # isReady
    /\ runtimeReady' = isReady
    /\ UNCHANGED <<rank, front, back>>
    /\ Drain(pending, ready, activeBySession, activeByRun, jobState,
             isReady /\ ~updateFenced)
    /\ UNCHANGED <<admissions, options, cancelVars, updateVars, fenceVars>>

\* beginUpdate().  The desktop asks for it only while the runtime is ready.
BeginUpdate(allowBusy) ==
    /\ runtimeReady
    /\ ~updateFenced
    /\ allowBusy \/ ~HasInflightJobs
    /\ updateFenced' = TRUE
    /\ UNCHANGED <<queueVars, activeVars, admissions, jobState, options, cancelVars,
                   runtimeReady, discardSteering, quiesced, fenceVars>>

\* cancelForUpdate(), once settleUpdateAdmissions() has seen no admission: in
\* one stretch it marks every run, clears every queue and starts every stop.
CancelForUpdate ==
    LET cleared == UNION {pending[s] : s \in Sessions}
        stopping == Stoppable(activeByRun)
    IN
    /\ updateFenced
    /\ \A s \in Sessions : admissions[s] = 0
    /\ discardSteering' = discardSteering \cup activeByRun
    /\ pending' = [s \in Sessions |-> {}]
    /\ ready' = {}
    /\ cancelInFlight' = cancelInFlight \cup stopping
    /\ jobState' = [j \in Jobs |-> IF j \in cleared THEN "cleared"
                                   ELSE IF j \in stopping THEN "stopping"
                                   ELSE jobState[j]]
    /\ quiesced' = TRUE
    /\ UNCHANGED <<rank, front, back, activeVars, admissions, options,
                   cancelRequested, runtimeReady, updateFenced, fenceVars>>

\* Fault: lifts the fence and leaves the queues alone.
ReleaseUpdateWithoutDrain ==
    /\ updateFenced
    /\ updateFenced' = FALSE
    /\ quiesced' = FALSE
    /\ UNCHANGED <<queueVars, activeVars, admissions, jobState, options, cancelVars,
                   runtimeReady, discardSteering, fenceVars>>

\* The closure beginUpdate() returned: lift the fence and drain.
ReleaseUpdate ==
    /\ updateFenced
    /\ updateFenced' = FALSE
    /\ quiesced' = FALSE
    /\ UNCHANGED <<rank, front, back>>
    /\ Drain(pending, ready, activeBySession, activeByRun, jobState, runtimeReady)
    /\ UNCHANGED <<admissions, options, cancelVars, runtimeReady, discardSteering,
                   fenceVars>>

-----------------------------------------------------------------------------
(* beginSessionDeletion() and the release closure it returns *)

\* Fault: session keys are not checked against other deletions.
BeginDeletionOfSharedKeys(s, keys) ==
    /\ s \notin sessionDeletionFences
    /\ ~HasInflightWork(s)
    /\ sessionDeletionFences' = sessionDeletionFences \cup {s}
    /\ sessionKeyDeletionFences' = sessionKeyDeletionFences \cup keys
    /\ deleting' = [deleting EXCEPT ![s] = keys]
    /\ UNCHANGED <<queueVars, activeVars, admissions, jobState, options, cancelVars,
                   runtimeReady, updateVars>>

BeginSessionDeletion(s, keys) ==
    /\ s \notin sessionDeletionFences
    /\ ~HasInflightWork(s)
    /\ keys \cap sessionKeyDeletionFences = {}
    /\ sessionDeletionFences' = sessionDeletionFences \cup {s}
    /\ sessionKeyDeletionFences' = sessionKeyDeletionFences \cup keys
    /\ deleting' = [deleting EXCEPT ![s] = keys]
    /\ UNCHANGED <<queueVars, activeVars, admissions, jobState, options, cancelVars,
                   runtimeReady, updateVars>>

EndSessionDeletion(s) ==
    /\ s \in sessionDeletionFences
    /\ sessionDeletionFences' = sessionDeletionFences \ {s}
    /\ sessionKeyDeletionFences' = sessionKeyDeletionFences \ deleting[s]
    /\ deleting' = [deleting EXCEPT ![s] = {}]
    /\ UNCHANGED <<queueVars, activeVars, admissions, jobState, options, cancelVars,
                   runtimeReady, updateVars>>

-----------------------------------------------------------------------------
Next ==
    \/ \E j \in Jobs, opts \in SUBSET EnqueueOptions :
          Enqueue(j, opts) \/ EnqueuePersisting(j, opts)
    \/ \E j \in Jobs : PersistSucceeded(j) \/ PersistFailed(j)
    \/ \E s \in Sessions : \E c \in SUBSET pending[s] : ClearPendingMatching(s, c)
    \/ \E j \in Jobs : RequestStop(j) \/ CancelSucceeded(j) \/ CancelFailed(j)
    \/ \E j \in Jobs, status \in {"completed", "cancelled", "error"},
          k \in Jobs \cup {NoJob} : HandleRuntimeEvent(j, status, k)
    \/ \E isReady \in BOOLEAN : SetRuntimeReady(isReady)
    \/ \E allowBusy \in BOOLEAN : BeginUpdate(allowBusy)
    \/ CancelForUpdate
    \/ ReleaseUpdate
    \/ \E s \in Sessions : \E keys \in SUBSET SessionKeys : BeginSessionDeletion(s, keys)
    \/ \E s \in Sessions : EndSessionDeletion(s)

Spec == Init /\ [][Next]_vars

-----------------------------------------------------------------------------
(* Safety *)

\* Both run indexes name the same runs, each under its own session: a run a
\* completion could release always holds its session's slot, and conversely.
RunIndexesAgree ==
    /\ \A s \in Sessions : activeBySession[s] # NoJob =>
          activeBySession[s] \in activeByRun /\ SessionOf[activeBySession[s]] = s
    /\ \A j \in activeByRun : activeBySession[SessionOf[j]] = j

\* Two runs of one session are never handed to the runtime at the same time.
OneRunPerSession ==
    \A j, k \in activeByRun : SessionOf[j] = SessionOf[k] => j = k

\* No wake-up is lost: the ready list holds exactly the sessions that wait
\* without a run, and nothing stays on it while drain() is allowed to work.
NoSessionStalls ==
    /\ ready = {s \in Sessions : pending[s] # {} /\ activeBySession[s] = NoJob}
    /\ MayDrain => ready = {}

\* What observers were last told of a job is what runStatuses() says: a job told
\* to be queued waits in its session's queue, one running or stopping is a live
\* run, and it is stopping exactly while a stop is pending or acknowledged.
PublishedStatesAgree ==
    \A j \in Jobs :
       /\ jobState[j] = "queued" <=> \E s \in Sessions : j \in pending[s]
       /\ \A s \in Sessions : j \in pending[s] => SessionOf[j] = s
       /\ jobState[j] \in LiveStates <=> j \in activeByRun
       /\ j \in activeByRun =>
             (jobState[j] = "stopping" <=> j \in cancelInFlight \cup cancelRequested)

\* A job accepted at the back of a queue never waits behind one of the same
\* session that was accepted after it and already started.
NoOvertaking ==
    \A j, k \in Jobs :
       /\ SessionOf[j] = SessionOf[k]
       /\ 0 < rank[j] /\ rank[j] < rank[k]
       /\ jobState[j] = "queued"
       => jobState[k] \in {"queued", "cleared"}

\* While a session is being deleted nothing of it is admitted, waits or runs.
DeletionIsExclusive == \A s \in sessionDeletionFences : ~HasInflightWork(s)

\* A session key is fenced while exactly one deletion holds it, so that the end
\* of one deletion never lifts the fence another still relies on.
KeyFencesHeldOnce ==
    /\ sessionKeyDeletionFences = UNION {deleting[s] : s \in sessionDeletionFences}
    /\ \A s, t \in Sessions : s # t => deleting[s] \cap deleting[t] = {}

\* The enqueue calls of session s inside beforeAccept.
Persisting(s) == {j \in Jobs : SessionOf[j] = s /\ jobState[j] = "persisting"}

\* The admission counter of a session is the number of enqueue calls inside
\* beforeAccept, on every way out of it.
AdmissionsCounted == \A s \in Sessions : admissions[s] = Cardinality(Persisting(s))

\* Once cancelForUpdate() returned, and until the fence is lifted, the scheduler
\* takes in nothing: no admission, no queued job, and every run left was marked
\* so that its steering cannot come back as a job.
UpdateStaysQuiet ==
    quiesced =>
       /\ updateFenced
       /\ \A s \in Sessions : admissions[s] = 0 /\ pending[s] = {}
       /\ activeByRun \subseteq discardSteering

\* Nothing of a job's cancellation exists before its run does, and a stop is
\* pending or acknowledged, never both.
CancelsFollowStart ==
    /\ cancelRequested \subseteq activeByRun
    /\ cancelInFlight \cap cancelRequested = {}
    /\ \A j \in cancelInFlight : jobState[j] \notin CallStates \cup {"queued"}

\* The ranks of waiting jobs lie above the least one handed out, so that every
\* queue has a first job.
RanksBounded ==
    \A s \in Sessions :
       /\ front[s] <= back[s]
       /\ \A j \in pending[s] : front[s] <= rank[j]

\* The inductive invariant: the state of the scheduler between two steps.
SchedulerInv ==
    /\ TypeOK
    /\ RunIndexesAgree
    /\ NoSessionStalls
    /\ PublishedStatesAgree
    /\ AdmissionsCounted
    /\ DeletionIsExclusive
    /\ UpdateStaysQuiet
    /\ CancelsFollowStart
    /\ RanksBounded

\* What NoOvertaking needs to survive a step: only a job accepted at the back has
\* a positive rank, and the next one gets a rank above all of its session's.
QueueOrderInv ==
    /\ \A s \in Sessions : front[s] <= 0 /\ 0 <= back[s]
    /\ \A j \in Jobs : rank[j] <= back[SessionOf[j]]
    /\ \A j \in Jobs : jobState[j] \in CallStates => rank[j] = 0
    /\ NoOvertaking

\* What KeyFencesHeldOnce needs: a deletion that is over holds no key.
KeyFencesInv ==
    /\ \A s \in Sessions \ sessionDeletionFences : deleting[s] = {}
    /\ KeyFencesHeldOnce

-----------------------------------------------------------------------------
(* Action properties *)

\* The last state published for a job is final: a late cancellation result or a
\* completion never revives a job that ended, was cleared or was refused.
OutcomesAreFinal ==
    [][\A j \in Jobs : jobState[j] \in FinalStates \cup {"refused"} =>
          jobState'[j] = jobState[j]]_vars

\* What a step may do to runs whose stop was acknowledged.
StopsKept ==
    \A j \in activeByRun \cap cancelRequested :
       /\ j \in activeByRun' => j \in cancelRequested'
       /\ j \notin activeByRun' =>
             /\ jobState'[j] = "cancelled"
             /\ \A k \in Jobs : jobState[k] = "new" => jobState'[k] = "new"

\* A run whose stop was acknowledged ends as cancelled and leaves no job behind:
\* the session does not go on by itself after a user stop.
AcknowledgedStopHolds == [][StopsKept]_vars

-----------------------------------------------------------------------------
(* The abstract specification the scheduler implements *)

\* The phase of a job's turn, as its caller sees it.
TurnPhase ==
    [j \in Jobs |->
        CASE jobState[j] \in CallStates  -> "absent"
          [] jobState[j] = "queued"      -> "waiting"
          [] jobState[j] \in LiveStates  -> "running"
          [] jobState[j] \in FinalStates -> "ended"]

Promise == INSTANCE SerialTurns WITH Turns <- Jobs, phase <- TurnPhase

\* Every behaviour of the scheduler is one of serial turns: an accepted turn
\* waits, runs alone in its session and ends, and never goes back.
ImplementsSerialTurns == Promise!SerialSpec

-----------------------------------------------------------------------------
(* Liveness *)

\* The runtime settles every run, comes back when it is not ready, and answers
\* cancellations; storage answers beforeAccept; an update that does not end the
\* process lifts its fence.
Fairness ==
    /\ \A j \in Jobs :
          /\ WF_vars(\E status \in {"completed", "cancelled", "error"},
                        k \in Jobs \cup {NoJob} : HandleRuntimeEvent(j, status, k))
          /\ WF_vars(PersistSucceeded(j) \/ PersistFailed(j))
          /\ WF_vars(CancelSucceeded(j) \/ CancelFailed(j))
    /\ WF_vars(SetRuntimeReady(TRUE))
    /\ WF_vars(ReleaseUpdate)

FairSpec == Spec /\ Fairness

\* Every job the scheduler accepted eventually ends, however readiness, updates,
\* stops and deletions interleave.
AcceptedJobsEnd ==
    \A j \in Jobs : jobState[j] = "queued" ~> jobState[j] \in FinalStates

\* Every admission is eventually given back, so that deletion and the settling
\* of an update are not blocked for ever.
AdmissionsEnd == \A s \in Sessions : []<>(admissions[s] = 0)

=============================================================================
