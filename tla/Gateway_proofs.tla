---------------------------- MODULE Gateway_proofs ----------------------------
(***************************************************************************)
(* Proofs about two parts of the gateway: SessionScheduler, for any        *)
(* sessions, jobs and session keys; and TurnUsageSync, which implements    *)
(* TurnReports for any number of turns, of batches and of ends of the      *)
(* process, any batch limit and any oversized turns.                       *)
(*                                                                         *)
(* The argument about SessionScheduler: drain() is the only way a job      *)
(* starts, and it preserves the agreement of queues, runs and published    *)
(* states (DrainKeeps); every operation brings queues, runs and states to  *)
(* such an agreement before it drains.                                     *)
(*                                                                         *)
(* The argument about TurnUsageSync: what the server has reaches at least  *)
(* to the cursor, a request begins right behind the cursor it was made     *)
(* with, and cursors only grow, so that a request taken late still leaves  *)
(* no gap.                                                                 *)
(***************************************************************************)
EXTENDS SessionScheduler, FiniteSetTheorems, WellFoundedInduction, TLAPS

CONSTANTS MaxTurns, BatchLimit, MaxBatches, Oversized, MaxStops

VARIABLES recorded, old, cursor, base, stored, late, flight, rerun, backlogTimer, service,
          stops

\* The upload of turn usage.
Usage == INSTANCE TurnUsageSync


\* The agreement of queues q, active runs a, run index runs and states st.
Agree(q, a, runs, st) ==
    /\ \A s \in Sessions : a[s] # NoJob => a[s] \in runs /\ SessionOf[a[s]] = s
    /\ \A j \in runs : a[SessionOf[j]] = j
    /\ \A j \in Jobs : st[j] = "queued" <=> \E s \in Sessions : j \in q[s]
    /\ \A j \in Jobs : \A s \in Sessions : j \in q[s] => SessionOf[j] = s
    /\ \A j \in Jobs : st[j] \in LiveStates <=> j \in runs

\* The sessions that wait without a run.
Waiting(q, a) == {s \in Sessions : q[s] # {} /\ a[s] = NoJob}

\* The job shift() takes exists and is the least: ranks are bounded below.
LEMMA FirstIsLeast ==
    ASSUME NEW w \in SUBSET Jobs, w # {}, NEW order \in [Jobs -> Int],
           NEW low \in Int, \A j \in w : low <= order[j]
    PROVE  /\ First(w, order) \in w
           /\ \A k \in w : order[First(w, order)] <= order[k]
<1> DEFINE T == {order[j] - low : j \in w}
<1>1. T \subseteq Nat /\ T # {}
  OBVIOUS
<1>2. PICK m \in T : \A n \in T : m <= n
  <2> DEFINE R == OpToRel(<, Nat)
  <2>1. PICK m \in T : \A n \in T : <<n, m>> \notin R
    <3> HIDE DEF R, T
    <3>1. IsWellFoundedOn(R, Nat)
      BY NatLessThanWellFounded DEF R
    <3> QED
      BY <1>1, <3>1, WFMin
  <2>2. \A n \in T : ~(n < m)
    BY <1>1, <2>1 DEF OpToRel
  <2> QED
    BY <1>1, <2>2
<1>3. PICK j \in w : m = order[j] - low
  BY <1>2
<1>4. \A k \in w : order[j] <= order[k]
  <2> TAKE k \in w
  <2>1. order[k] - low \in T
    OBVIOUS
  <2>2. order[j] - low <= order[k] - low
    BY <2>1, <1>2, <1>3
  <2>3. order[j] \in Int /\ order[k] \in Int
    OBVIOUS
  <2> QED
    BY <2>2, <2>3
<1> QED
  BY <1>4 DEF First

\* What drain() leaves behind when it is handed queues q, active runs a, run index
\* runs and states st.
Drained(q, a, runs, st, enabled) ==
    /\ pending' \in [Sessions -> SUBSET Jobs]
    /\ activeBySession' \in [Sessions -> Jobs \cup {NoJob}]
    /\ activeByRun' \in SUBSET Jobs
    /\ jobState' \in [Jobs -> JobStates]
    /\ ready' \subseteq Sessions
    /\ Agree(pending', activeBySession', activeByRun', jobState')
    /\ ready' = Waiting(pending', activeBySession')
    /\ enabled => ready' = {}
    /\ \A s \in Sessions : pending'[s] \subseteq q[s]
    /\ \A s \in Sessions : q[s] = {} => activeBySession'[s] = a[s]
    /\ ~enabled => activeByRun' = runs
    /\ \A j \in Jobs : jobState'[j] # st[j] => st[j] = "queued" /\ jobState'[j] = "running"

\* Only queued jobs were started, of the jobs whose states were st.
StartsOnly(st) ==
    \A j \in Jobs : jobState'[j] # st[j] => st[j] = "queued" /\ jobState'[j] = "running"

\* drain() preserves the agreement.  It only takes jobs out of queues, starts
\* queued jobs, and leaves no session waiting when it may run at all.
LEMMA DrainKeeps ==
    ASSUME NEW q \in [Sessions -> SUBSET Jobs],
           NEW a \in [Sessions -> Jobs \cup {NoJob}],
           NEW runs \in SUBSET Jobs,
           NEW st \in [Jobs -> JobStates],
           NEW enabled \in BOOLEAN,
           rank' \in [Jobs -> Int], front' \in [Sessions -> Int],
           \A s \in Sessions : \A j \in q[s] : front'[s] <= rank'[j],
           Agree(q, a, runs, st),
           Drain(q, Waiting(q, a), a, runs, st, enabled)
    PROVE  Drained(q, a, runs, st, enabled)
<1> DEFINE starting == IF enabled THEN Waiting(q, a) ELSE {}
           next(s) == First(q[s], rank')
           started == {next(s) : s \in starting}
<1>1. /\ pending' = [s \in Sessions |-> IF s \in starting THEN q[s] \ {next(s)} ELSE q[s]]
      /\ ready' = IF enabled THEN {} ELSE Waiting(q, a)
      /\ activeBySession' = [s \in Sessions |-> IF s \in starting THEN next(s) ELSE a[s]]
      /\ activeByRun' = runs \cup started
      /\ jobState' = [j \in Jobs |-> IF j \in started THEN "running" ELSE st[j]]
  <2>1. starting = IF enabled THEN {s \in Waiting(q, a) : a[s] = NoJob /\ q[s] # {}} ELSE {}
    BY DEF Waiting
  <2> QED
    BY <2>1 DEF Drain
<1>2. \A s \in starting : next(s) \in q[s]
  <2> SUFFICES ASSUME NEW s \in starting PROVE next(s) \in q[s]
    OBVIOUS
  <2>1. s \in Sessions /\ q[s] # {} /\ q[s] \in SUBSET Jobs
    BY DEF Waiting
  <2>2. front'[s] \in Int /\ \A j \in q[s] : front'[s] <= rank'[j]
    BY <2>1
  <2> QED
    BY <2>1, <2>2, FirstIsLeast
<1>3. \A s \in starting : s \in Sessions /\ a[s] = NoJob /\ q[s] # {}
  BY DEF Waiting
<1> HIDE DEF next, starting
<1>4. \A s \in starting : /\ next(s) \in Jobs
                          /\ SessionOf[next(s)] = s
                          /\ st[next(s)] = "queued"
                          /\ next(s) \notin runs
  BY <1>2, <1>3 DEF Agree, LiveStates
<1>5. \A s, t \in starting : next(s) = next(t) => s = t
  BY <1>4
<1>6. started \subseteq Jobs
  BY <1>4
<1>7. /\ pending' \in [Sessions -> SUBSET Jobs]
      /\ activeBySession' \in [Sessions -> Jobs \cup {NoJob}]
      /\ activeByRun' \in SUBSET Jobs
  BY <1>1, <1>4, <1>6
<1>8. jobState' \in [Jobs -> JobStates]
  BY <1>1 DEF JobStates, LiveStates
<1>9. \A s \in Sessions : pending'[s] \subseteq q[s]
  BY <1>1
<1>10. \A s \in Sessions : q[s] = {} => activeBySession'[s] = a[s]
  BY <1>1, <1>3
<1>11. ~enabled => activeByRun' = runs
  BY <1>1 DEF starting
<1>12. \A j \in Jobs : jobState'[j] # st[j] => st[j] = "queued" /\ jobState'[j] = "running"
  BY <1>1, <1>4
<1>13. ready' = Waiting(pending', activeBySession') /\ (enabled => ready' = {}) /\ ready' \subseteq Sessions
  <2>1. CASE enabled
    <3>1. \A s \in Sessions : pending'[s] = {} \/ activeBySession'[s] # NoJob
      <4> SUFFICES ASSUME NEW s \in Sessions
                   PROVE pending'[s] = {} \/ activeBySession'[s] # NoJob
        OBVIOUS
      <4>1. CASE s \in starting
        BY <4>1, <1>1, <1>4, SchedulerAssumption
      <4>2. CASE s \notin starting
        BY <4>2, <2>1, <1>1 DEF starting, Waiting
      <4> QED
        BY <4>1, <4>2
    <3> QED
      BY <3>1, <2>1, <1>1 DEF Waiting
  <2>2. CASE ~enabled
    <3>1. pending' = q /\ activeBySession' = a
      BY <2>2, <1>1 DEF starting
    <3> QED
      BY <3>1, <2>2, <1>1 DEF Waiting
  <2> QED
    BY <2>1, <2>2
<1>14. Agree(pending', activeBySession', activeByRun', jobState')
  <2>1. \A s \in Sessions : activeBySession'[s] # NoJob =>
           activeBySession'[s] \in activeByRun' /\ SessionOf[activeBySession'[s]] = s
    BY <1>1, <1>4 DEF Agree
  <2>2. \A j \in activeByRun' : activeBySession'[SessionOf[j]] = j
    <3> SUFFICES ASSUME NEW j \in activeByRun' PROVE activeBySession'[SessionOf[j]] = j
      OBVIOUS
    <3>1. CASE j \in started
      BY <3>1, <1>1, <1>3, <1>4
    <3>2. CASE j \in runs
      <4>1. a[SessionOf[j]] = j /\ j # NoJob /\ SessionOf[j] \in Sessions
        BY <3>2, SchedulerAssumption DEF Agree
      <4>2. SessionOf[j] \notin starting
        BY <4>1, <1>3
      <4> QED
        BY <4>1, <4>2, <1>1
    <3> QED
      BY <3>1, <3>2, <1>1
  <2>3. \A j \in Jobs : jobState'[j] = "queued" <=> \E s \in Sessions : j \in pending'[s]
    <3> SUFFICES ASSUME NEW j \in Jobs
                 PROVE jobState'[j] = "queued" <=> \E s \in Sessions : j \in pending'[s]
      OBVIOUS
    <3>1. CASE j \in started
      <4>1. PICK s \in starting : j = next(s)
        BY <3>1
      <4>2. \A t \in Sessions : j \in q[t] => t = s
        BY <4>1, <1>3, <1>4 DEF Agree
      <4>3. \A t \in Sessions : j \notin pending'[t]
        BY <4>1, <4>2, <1>1, <1>3
      <4> QED
        BY <3>1, <4>3, <1>1
    <3>2. CASE j \notin started
      <4>1. jobState'[j] = st[j]
        BY <3>2, <1>1
      <4>2. \A s \in Sessions : j \in pending'[s] <=> j \in q[s]
        BY <3>2, <1>1
      <4> QED
        BY <4>1, <4>2 DEF Agree
    <3> QED
      BY <3>1, <3>2
  <2>4. \A j \in Jobs : \A s \in Sessions : j \in pending'[s] => SessionOf[j] = s
    BY <1>9 DEF Agree
  <2>5. \A j \in Jobs : jobState'[j] \in LiveStates <=> j \in activeByRun'
    BY <1>1 DEF Agree, LiveStates
  <2> QED
    BY <2>1, <2>2, <2>3, <2>4, <2>5 DEF Agree
<1> QED
  BY <1>7, <1>8, <1>9, <1>10, <1>11, <1>12, <1>13, <1>14 DEF Drained

-----------------------------------------------------------------------------
(* The inductive invariant in terms of the agreement *)

\* "stopping" is published exactly for runs with a pending or acknowledged stop.
StoppingMarked(runs, st, inflight, requested) ==
    \A j \in runs : st[j] = "stopping" <=> j \in inflight \cup requested

\* The enqueue calls of session s inside beforeAccept, by the states st.
InBeforeAccept(s, st) == {j \in Jobs : SessionOf[j] = s /\ st[j] = "persisting"}

\* What is left of the invariant, for queues q, active runs act, index runs,
\* states st, admissions adm, deletion fences del, the update's quiet, fenced and
\* discard, and the cancellation flags inflight and requested.
Rest(q, act, runs, st, adm, del, quiet, fenced, discard, inflight, requested) ==
    /\ \A s \in Sessions :
          adm[s] = Cardinality(InBeforeAccept(s, st))
    /\ \A s \in del : adm[s] = 0 /\ act[s] = NoJob /\ q[s] = {}
    /\ quiet => /\ fenced
                /\ \A s \in Sessions : adm[s] = 0 /\ q[s] = {}
                /\ runs \subseteq discard
    /\ requested \subseteq runs
    /\ inflight \cap requested = {}
    /\ \A j \in inflight : st[j] \notin CallStates \cup {"queued"}
    /\ StoppingMarked(runs, st, inflight, requested)

\* An operation that ends in drain() keeps the invariant when the queues, runs
\* and states it hands to drain() satisfy it.
LEMMA DrainStep ==
    ASSUME NEW q \in [Sessions -> SUBSET Jobs],
           NEW a \in [Sessions -> Jobs \cup {NoJob}],
           NEW runs \in SUBSET Jobs,
           NEW st \in [Jobs -> JobStates],
           NEW enabled \in BOOLEAN,
           rank' \in [Jobs -> Int], front' \in [Sessions -> Int], back' \in [Sessions -> Int],
           admissions' \in [Sessions -> Nat],
           options' \in [Jobs -> SUBSET EnqueueOptions],
           cancelInFlight' \subseteq Jobs,
           runtimeReady' \in BOOLEAN, updateFenced' \in BOOLEAN, quiesced' \in BOOLEAN,
           discardSteering' \subseteq Jobs,
           sessionDeletionFences' \subseteq Sessions,
           sessionKeyDeletionFences' \subseteq SessionKeys,
           deleting' \in [Sessions -> SUBSET SessionKeys],
           \A s \in Sessions : front'[s] <= back'[s],
           \A s \in Sessions : \A j \in q[s] : front'[s] <= rank'[j],
           Agree(q, a, runs, st),
           Rest(q, a, runs, st, admissions', sessionDeletionFences', quiesced',
                updateFenced', discardSteering', cancelInFlight', cancelRequested'),
           enabled <=> MayDrain',
           Drain(q, Waiting(q, a), a, runs, st, enabled)
    PROVE  SchedulerInv' /\ StartsOnly(st)
<1>1. Drained(q, a, runs, st, enabled)
  BY DrainKeeps
<1>2. cancelRequested' \subseteq runs /\ runs \subseteq activeByRun'
  BY DEF Rest, Drain
<1>3. TypeOK'
  BY <1>1, <1>2 DEF TypeOK, Drained
<1>4. \A s \in Sessions : \A j \in pending'[s] : front'[s] <= rank'[j]
  BY <1>1 DEF Drained
<1>5. \A s \in Sessions :
         InBeforeAccept(s, jobState')
           = InBeforeAccept(s, st)
  BY <1>1 DEF Drained, InBeforeAccept
<1>6. \A s \in Sessions : admissions'[s] = Cardinality(InBeforeAccept(s, jobState'))
  BY <1>5 DEF Rest
<1>7. \A s \in sessionDeletionFences' :
         admissions'[s] = 0 /\ activeBySession'[s] = NoJob /\ pending'[s] = {}
  BY <1>1 DEF Drained, Rest
<1>8. quiesced' => /\ updateFenced'
                   /\ \A s \in Sessions : admissions'[s] = 0 /\ pending'[s] = {}
                   /\ activeByRun' \subseteq discardSteering'
  BY <1>1 DEF Drained, Rest, MayDrain
<1>9. \A j \in cancelInFlight' : jobState'[j] \notin CallStates \cup {"queued"}
  BY <1>1 DEF Drained, Rest, CallStates
<1>10. StoppingMarked(activeByRun', jobState', cancelInFlight', cancelRequested')
  <2> SUFFICES ASSUME NEW j \in activeByRun'
               PROVE jobState'[j] = "stopping" <=> j \in cancelInFlight' \cup cancelRequested'
    BY DEF StoppingMarked
  <2>1. CASE jobState'[j] = st[j]
    <3>1. j \in runs
      BY <2>1, <1>1 DEF Agree, Drained
    <3> QED
      BY <2>1, <3>1 DEF Rest, StoppingMarked
  <2>2. CASE jobState'[j] # st[j]
    <3>1. st[j] = "queued" /\ jobState'[j] = "running" /\ j \in Jobs
      BY <2>2, <1>1 DEF Drained
    <3>2. j \notin runs /\ j \notin cancelInFlight'
      BY <3>1 DEF Agree, Rest, LiveStates
    <3> QED
      BY <3>1, <3>2, <1>2
  <2> QED
    BY <2>1, <2>2
<1>11. RunIndexesAgree'
  BY <1>1 DEF Drained, Agree, RunIndexesAgree
<1>12. NoSessionStalls'
  <2>1. ready' = Waiting(pending', activeBySession') /\ (enabled => ready' = {})
    BY <1>1 DEF Drained
  <2>2. MayDrain' => ready' = {}
    BY <2>1
  <2> QED
    BY <2>1, <2>2 DEF NoSessionStalls, Waiting
<1>13. PublishedStatesAgree'
  BY <1>1, <1>10 DEF Drained, Agree, PublishedStatesAgree, StoppingMarked
<1>14. AdmissionsCounted'
  BY <1>6 DEF AdmissionsCounted, Persisting, InBeforeAccept
<1>15. DeletionIsExclusive'
  BY <1>7 DEF DeletionIsExclusive, HasInflightWork
<1>16. UpdateStaysQuiet'
  BY <1>8 DEF UpdateStaysQuiet
<1>17. CancelsFollowStart'
  BY <1>2, <1>9 DEF Rest, CancelsFollowStart
<1>18. RanksBounded'
  BY <1>4 DEF RanksBounded
<1>19. StartsOnly(st)
  BY <1>1 DEF Drained, StartsOnly
<1> QED
  BY <1>3, <1>11, <1>12, <1>13, <1>14, <1>15, <1>16, <1>17, <1>18, <1>19 DEF SchedulerInv

-----------------------------------------------------------------------------
(* The operations *)

\* What the invariant says of the present state, in the terms of DrainStep.
LEMMA InvNow ==
    ASSUME SchedulerInv
    PROVE  /\ Agree(pending, activeBySession, activeByRun, jobState)
           /\ ready = Waiting(pending, activeBySession)
           /\ Rest(pending, activeBySession, activeByRun, jobState, admissions,
                   sessionDeletionFences, quiesced, updateFenced, discardSteering,
                   cancelInFlight, cancelRequested)
<1>1. Agree(pending, activeBySession, activeByRun, jobState)
  BY DEF SchedulerInv, TypeOK, RunIndexesAgree, PublishedStatesAgree, Agree
<1>2. ready = Waiting(pending, activeBySession)
  BY DEF SchedulerInv, NoSessionStalls, Waiting
<1>3. \A s \in Sessions : admissions[s] = Cardinality(InBeforeAccept(s, jobState))
  BY DEF SchedulerInv, AdmissionsCounted, Persisting, InBeforeAccept
<1>4. \A s \in sessionDeletionFences :
         admissions[s] = 0 /\ activeBySession[s] = NoJob /\ pending[s] = {}
  BY DEF SchedulerInv, TypeOK, DeletionIsExclusive, HasInflightWork
<1>5. StoppingMarked(activeByRun, jobState, cancelInFlight, cancelRequested)
  BY DEF SchedulerInv, TypeOK, PublishedStatesAgree, StoppingMarked
<1> QED
  BY <1>1, <1>2, <1>3, <1>4, <1>5
  DEF Rest, SchedulerInv, UpdateStaysQuiet, CancelsFollowStart

\* markReady() completes the ready list when only the session s changed.
LEMMA MarkReadyCompletes ==
    ASSUME NEW s \in Sessions,
           NEW q \in [Sessions -> SUBSET Jobs],
           NEW a \in [Sessions -> Jobs \cup {NoJob}],
           ready = Waiting(pending, activeBySession),
           \A t \in Sessions \ {s} : q[t] = pending[t] /\ a[t] = activeBySession[t],
           s \in ready => q[s] # {} /\ a[s] = NoJob
    PROVE  MarkReady(s, q, ready, a) = Waiting(q, a)
  BY DEF MarkReady, Waiting

\* Waiting jobs keep the count of the jobs inside beforeAccept.
LEMMA PersistingEntered ==
    ASSUME SchedulerInv, NEW j \in Jobs, jobState[j] # "persisting",
           NEW st \in [Jobs -> JobStates],
           st = [jobState EXCEPT ![j] = "persisting"]
    PROVE  \A s \in Sessions :
              Cardinality(InBeforeAccept(s, st))
                = IF s = SessionOf[j] THEN admissions[s] + 1 ELSE admissions[s]
<1> SUFFICES ASSUME NEW s \in Sessions
             PROVE Cardinality(InBeforeAccept(s, st))
                      = IF s = SessionOf[j] THEN admissions[s] + 1 ELSE admissions[s]
  OBVIOUS
<1>1. admissions[s] = Cardinality(InBeforeAccept(s, jobState))
  BY InvNow DEF Rest
<1>2. jobState \in [Jobs -> JobStates]
  BY DEF SchedulerInv, TypeOK
<1>3. IsFiniteSet(InBeforeAccept(s, jobState))
  BY FS_Subset, SchedulerAssumption DEF InBeforeAccept
<1>4. j \notin InBeforeAccept(s, jobState)
  BY DEF InBeforeAccept
<1>5. InBeforeAccept(s, st) = IF s = SessionOf[j] THEN InBeforeAccept(s, jobState) \cup {j}
                              ELSE InBeforeAccept(s, jobState)
  BY <1>2 DEF InBeforeAccept
<1>6. Cardinality(InBeforeAccept(s, jobState) \cup {j})
         = Cardinality(InBeforeAccept(s, jobState)) + 1
  BY <1>3, <1>4, FS_AddElement
<1> QED
  BY <1>1, <1>5, <1>6

\* A job that leaves beforeAccept for any other state.
LEMMA PersistingLeft ==
    ASSUME SchedulerInv, NEW j \in Jobs, jobState[j] = "persisting",
           NEW st \in [Jobs -> JobStates],
           st[j] # "persisting", \A k \in Jobs \ {j} : st[k] = jobState[k]
    PROVE  \A s \in Sessions :
              /\ Cardinality(InBeforeAccept(s, st))
                   = IF s = SessionOf[j] THEN admissions[s] - 1 ELSE admissions[s]
              /\ s = SessionOf[j] => admissions[s] > 0
<1> SUFFICES ASSUME NEW s \in Sessions
             PROVE /\ Cardinality(InBeforeAccept(s, st))
                        = IF s = SessionOf[j] THEN admissions[s] - 1 ELSE admissions[s]
                   /\ s = SessionOf[j] => admissions[s] > 0
  OBVIOUS
<1>1. admissions[s] = Cardinality(InBeforeAccept(s, jobState)) /\ admissions[s] \in Nat
  BY InvNow DEF Rest, SchedulerInv, TypeOK
<1>2. IsFiniteSet(InBeforeAccept(s, jobState))
  BY FS_Subset, SchedulerAssumption DEF InBeforeAccept
<1>3. InBeforeAccept(s, st) = IF s = SessionOf[j] THEN InBeforeAccept(s, jobState) \ {j}
                              ELSE InBeforeAccept(s, jobState)
  BY DEF InBeforeAccept
<1>4. s = SessionOf[j] => j \in InBeforeAccept(s, jobState)
  BY DEF InBeforeAccept
<1>5. s = SessionOf[j] =>
         Cardinality(InBeforeAccept(s, jobState) \ {j}) = Cardinality(InBeforeAccept(s, jobState)) - 1
  BY <1>2, <1>4, FS_RemoveElement
<1>6. s = SessionOf[j] => admissions[s] # 0
  BY <1>1, <1>2, <1>4, FS_EmptySet
<1> QED
  BY <1>1, <1>3, <1>5, <1>6

\* enqueue() from the point where the job is accepted, with the admissions adm of
\* the next state; the fences and the update do not change with it.
LEMMA AcceptKeepsInv ==
    ASSUME SchedulerInv,
           NEW j \in Jobs, NEW opts \in SUBSET EnqueueOptions,
           jobState[j] \in {"new", "persisting"},
           SessionOf[j] \notin sessionDeletionFences,
           ~quiesced,
           admissions' \in [Sessions -> Nat],
           \A s \in Sessions \ {SessionOf[j]} : admissions'[s] = admissions[s],
           \A s \in Sessions :
              admissions'[s]
                = Cardinality(InBeforeAccept(s, [jobState EXCEPT ![j] = "queued"])),
           options' \in [Jobs -> SUBSET EnqueueOptions],
           Accept(j, opts),
           UNCHANGED <<cancelVars, runtimeReady, updateVars, fenceVars>>
    PROVE  /\ SchedulerInv'
           /\ StartsOnly([jobState EXCEPT ![j] = "queued"])
<1> DEFINE ses == SessionOf[j]
           q == [pending EXCEPT ![ses] = @ \cup {j}]
           st == [jobState EXCEPT ![j] = "queued"]
<1>1. TypeOK /\ ses \in Sessions
  BY SchedulerAssumption DEF SchedulerInv
<1>2. /\ q \in [Sessions -> SUBSET Jobs]
      /\ st \in [Jobs -> JobStates]
      /\ activeBySession \in [Sessions -> Jobs \cup {NoJob}]
      /\ activeByRun \in SUBSET Jobs
  BY <1>1 DEF TypeOK, JobStates
<1>3. /\ rank' \in [Jobs -> Int] /\ front' \in [Sessions -> Int] /\ back' \in [Sessions -> Int]
      /\ \A s \in Sessions : front'[s] <= front[s] /\ front'[s] <= back'[s]
      /\ front'[ses] <= rank'[j]
      /\ \A k \in Jobs \ {j} : rank'[k] = rank[k]
  BY <1>1 DEF Accept, TypeOK, SchedulerInv, RanksBounded
<1>4. \A s \in Sessions : \A k \in q[s] : front'[s] <= rank'[k]
  <2> SUFFICES ASSUME NEW s \in Sessions, NEW k \in q[s] PROVE front'[s] <= rank'[k]
    OBVIOUS
  <2>1. CASE k = j
    <3>1. s = ses
      BY <2>1, <1>1, InvNow DEF Agree, TypeOK
    <3> QED
      BY <2>1, <3>1, <1>3
  <2>2. CASE k # j
    <3>1. k \in pending[s] /\ k \in Jobs /\ front[s] <= rank[k]
      BY <2>2, <1>1 DEF TypeOK, SchedulerInv, RanksBounded
    <3> QED
      BY <2>2, <3>1, <1>1, <1>3 DEF TypeOK
  <2> QED
    BY <2>1, <2>2
<1>5. Agree(q, activeBySession, activeByRun, st)
  BY <1>1, InvNow DEF Agree, TypeOK, LiveStates
<1>6. Rest(q, activeBySession, activeByRun, st, admissions', sessionDeletionFences',
           quiesced', updateFenced', discardSteering', cancelInFlight', cancelRequested')
  <2>1. ~quiesced' /\ UNCHANGED <<sessionDeletionFences, cancelInFlight, cancelRequested>>
    BY DEF updateVars, fenceVars, cancelVars
  <2>2. j \notin activeByRun
    BY InvNow DEF Agree, LiveStates
  <2>3. j \notin cancelInFlight
    BY DEF SchedulerInv, CancelsFollowStart, CallStates
  <2>4. StoppingMarked(activeByRun, st, cancelInFlight', cancelRequested')
    BY <1>1, <2>1, <2>2, InvNow DEF Rest, StoppingMarked, TypeOK
  <2>5. \A k \in cancelInFlight' : st[k] \notin CallStates \cup {"queued"}
    BY <1>1, <2>1, <2>3, InvNow DEF Rest, TypeOK
  <2>6. \A s \in sessionDeletionFences' :
           admissions'[s] = 0 /\ activeBySession[s] = NoJob /\ q[s] = {}
    BY <1>1, <2>1, InvNow DEF Rest, TypeOK
  <2>7. cancelRequested' \subseteq activeByRun /\ cancelInFlight' \cap cancelRequested' = {}
    BY <2>1, InvNow DEF Rest
  <2> QED
    BY <2>1, <2>4, <2>5, <2>6, <2>7 DEF Rest
<1>7. Drain(q, Waiting(q, activeBySession), activeBySession, activeByRun, st, MayDrain)
  <2>1. MarkReady(ses, q, ready, activeBySession) = Waiting(q, activeBySession)
    <3>1. ses \in ready => q[ses] # {} /\ activeBySession[ses] = NoJob
      BY <1>1, InvNow DEF Waiting, TypeOK
    <3>2. \A t \in Sessions \ {ses} : q[t] = pending[t]
      BY <1>1 DEF TypeOK
    <3> HIDE DEF q, ses
    <3> QED
      BY <1>1, <1>2, <3>1, <3>2, InvNow, MarkReadyCompletes
  <2> QED
    BY <2>1 DEF Accept
<1>8. MayDrain \in BOOLEAN /\ (MayDrain <=> MayDrain')
  BY DEF MayDrain, updateVars
<1>9. /\ cancelInFlight' \subseteq Jobs /\ runtimeReady' \in BOOLEAN
      /\ updateFenced' \in BOOLEAN /\ quiesced' \in BOOLEAN /\ discardSteering' \subseteq Jobs
      /\ sessionDeletionFences' \subseteq Sessions
      /\ sessionKeyDeletionFences' \subseteq SessionKeys
      /\ deleting' \in [Sessions -> SUBSET SessionKeys]
  BY <1>1 DEF TypeOK, updateVars, fenceVars, cancelVars
<1> HIDE DEF q, st, ses
<1>10. SchedulerInv' /\ StartsOnly(st)
  BY <1>2, <1>3, <1>4, <1>5, <1>6, <1>7, <1>8, <1>9, DrainStep
<1> QED
  BY <1>10 DEF st

\* The states a step may lead a job through.
Moved(j) ==
    \/ jobState'[j] = jobState[j]
    \/ jobState[j] \in {"new", "persisting"} /\ jobState'[j] \in CallStates \cup {"queued", "running"}
    \/ jobState[j] = "queued" /\ jobState'[j] \in {"running", "cleared"}
    \/ jobState[j] \in LiveStates /\ jobState'[j] \in LiveStates \cup FinalStates

AllMove == \A j \in Jobs : Moved(j)

\* The completion of a run, whether or not its remaining steering returns as a job.
LEMMA HandleRuntimeEventKeepsInv ==
    ASSUME SchedulerInv, NEW j \in Jobs,
           NEW status \in {"completed", "cancelled", "error"},
           NEW k \in Jobs \cup {NoJob},
           HandleRuntimeEvent(j, status, k)
    PROVE  SchedulerInv' /\ AllMove /\ StopsKept
<1> DEFINE ses == SessionOf[j]
           requeued == k # NoJob /\ RequeuesSteering(j, status)
           a == [activeBySession EXCEPT ![ses] = NoJob]
           q == IF requeued THEN [pending EXCEPT ![ses] = @ \cup {k}] ELSE pending
           runs == activeByRun \ {j}
           ended == [jobState EXCEPT ![j] = OutcomeState(j, status)]
           st == IF requeued THEN [ended EXCEPT ![k] = "queued"] ELSE ended
<1>1. TypeOK /\ ses \in Sessions /\ j # NoJob
  BY SchedulerAssumption DEF SchedulerInv
<1>2. /\ j \in activeByRun
      /\ activeBySession[ses] = j
      /\ jobState[j] \in LiveStates
      /\ OutcomeState(j, status) \in {"cancelled", "completed", "error"}
  BY InvNow DEF HandleRuntimeEvent, Agree, OutcomeState
<1>3. ASSUME requeued
      PROVE  /\ k \in Jobs /\ jobState[k] = "new" /\ SessionOf[k] = ses /\ k # j
             /\ j \notin discardSteering
  BY <1>2, <1>3 DEF HandleRuntimeEvent, LiveStates, RequeuesSteering
<1>4. /\ q \in [Sessions -> SUBSET Jobs]
      /\ a \in [Sessions -> Jobs \cup {NoJob}]
      /\ runs \in SUBSET Jobs
      /\ st \in [Jobs -> JobStates]
  BY <1>1, <1>2, <1>3 DEF TypeOK, JobStates, FinalStates
<1>5. UNCHANGED <<back, admissions, options, cancelInFlight, runtimeReady, updateFenced,
                  quiesced, sessionDeletionFences, sessionKeyDeletionFences, deleting>>
      /\ cancelRequested' = cancelRequested \ {j}
      /\ discardSteering' = discardSteering \ {j}
  BY DEF HandleRuntimeEvent, fenceVars
<1>6. /\ rank' \in [Jobs -> Int] /\ front' \in [Sessions -> Int] /\ back' \in [Sessions -> Int]
      /\ \A s \in Sessions : front'[s] <= front[s] /\ front'[s] <= back'[s]
      /\ requeued => front'[ses] <= rank'[k]
      /\ \A i \in Jobs : ~requeued \/ i # k => rank'[i] = rank[i]
  BY <1>1, <1>3, <1>5 DEF HandleRuntimeEvent, TypeOK, SchedulerInv, RanksBounded
<1>7. \A s \in Sessions : \A i \in q[s] : front'[s] <= rank'[i]
  <2> SUFFICES ASSUME NEW s \in Sessions, NEW i \in q[s] PROVE front'[s] <= rank'[i]
    OBVIOUS
  <2>1. CASE requeued /\ i = k
    <3>1. s = ses
      BY <2>1, <1>1, <1>3, InvNow DEF Agree, TypeOK
    <3> QED
      BY <2>1, <3>1, <1>6
  <2>2. CASE ~(requeued /\ i = k)
    <3>1. i \in pending[s] /\ i \in Jobs /\ front[s] <= rank[i]
      BY <2>2, <1>1 DEF TypeOK, SchedulerInv, RanksBounded
    <3> QED
      BY <2>2, <3>1, <1>1, <1>6 DEF TypeOK
  <2> QED
    BY <2>1, <2>2
<1>8. Agree(q, a, runs, st)
  <2>1. \A s \in Sessions : a[s] # NoJob => a[s] \in runs /\ SessionOf[a[s]] = s
    BY <1>1, InvNow DEF Agree, TypeOK
  <2>2. \A i \in runs : a[SessionOf[i]] = i
    BY <1>1, <1>2, InvNow, SchedulerAssumption DEF Agree, TypeOK
  <2>3. \A i \in Jobs : st[i] = "queued" <=> \E s \in Sessions : i \in q[s]
    BY <1>1, <1>2, <1>3, InvNow DEF Agree, TypeOK, LiveStates
  <2>4. \A i \in Jobs : \A s \in Sessions : i \in q[s] => SessionOf[i] = s
    BY <1>1, <1>3, InvNow DEF Agree, TypeOK
  <2>5. \A i \in Jobs : st[i] \in LiveStates <=> i \in runs
    BY <1>1, <1>2, <1>3, InvNow DEF Agree, TypeOK, LiveStates
  <2> QED
    BY <2>1, <2>2, <2>3, <2>4, <2>5 DEF Agree
<1>9. Rest(q, a, runs, st, admissions', sessionDeletionFences', quiesced', updateFenced',
           discardSteering', cancelInFlight', cancelRequested')
  <2>1. \A s \in Sessions : admissions'[s] = Cardinality(InBeforeAccept(s, st))
    <3>1. \A s \in Sessions : InBeforeAccept(s, st) = InBeforeAccept(s, jobState)
      BY <1>1, <1>2, <1>3 DEF InBeforeAccept, TypeOK, LiveStates
    <3> QED
      BY <3>1, <1>5, InvNow DEF Rest
  <2>2. ses \notin sessionDeletionFences
    BY <1>1, <1>2, InvNow DEF Rest
  <2>3. \A s \in sessionDeletionFences' :
           admissions'[s] = 0 /\ a[s] = NoJob /\ q[s] = {}
    BY <1>1, <1>5, <2>2, InvNow DEF Rest, TypeOK
  <2>4. quiesced => j \in discardSteering
    BY <1>2, InvNow DEF Rest
  <2>5. quiesced' => /\ updateFenced'
                     /\ \A s \in Sessions : admissions'[s] = 0 /\ q[s] = {}
                     /\ runs \subseteq discardSteering'
    BY <1>3, <1>5, <2>4, InvNow DEF Rest
  <2>6. cancelRequested' \subseteq runs /\ cancelInFlight' \cap cancelRequested' = {}
    BY <1>5, InvNow DEF Rest
  <2>7. \A i \in cancelInFlight' : st[i] \notin CallStates \cup {"queued"}
    BY <1>1, <1>2, <1>3, <1>5, InvNow DEF Rest, TypeOK, CallStates
  <2>8. StoppingMarked(runs, st, cancelInFlight', cancelRequested')
    BY <1>1, <1>2, <1>3, <1>5, InvNow DEF Rest, StoppingMarked, TypeOK, Agree, LiveStates
  <2> QED
    BY <2>1, <2>3, <2>5, <2>6, <2>7, <2>8 DEF Rest
<1>10. Drain(q, Waiting(q, a), a, runs, st, MayDrain)
  <2>1. MarkReady(ses, q, ready, a) = Waiting(q, a)
    <3>1. ses \notin ready
      BY <1>1, <1>2, InvNow DEF Waiting
    <3>2. \A t \in Sessions \ {ses} : q[t] = pending[t] /\ a[t] = activeBySession[t]
      BY <1>1 DEF TypeOK
    <3> HIDE DEF q, a, ses
    <3> QED
      BY <1>1, <1>4, <3>1, <3>2, InvNow, MarkReadyCompletes
  <2> QED
    BY <2>1 DEF HandleRuntimeEvent
<1>11. MayDrain \in BOOLEAN /\ (MayDrain <=> MayDrain')
  BY <1>5 DEF MayDrain
<1>12. /\ cancelInFlight' \subseteq Jobs /\ runtimeReady' \in BOOLEAN
       /\ updateFenced' \in BOOLEAN /\ quiesced' \in BOOLEAN /\ discardSteering' \subseteq Jobs
       /\ sessionDeletionFences' \subseteq Sessions
       /\ sessionKeyDeletionFences' \subseteq SessionKeys
       /\ deleting' \in [Sessions -> SUBSET SessionKeys]
       /\ admissions' \in [Sessions -> Nat] /\ options' \in [Jobs -> SUBSET EnqueueOptions]
  BY <1>1, <1>5 DEF TypeOK
<1>13. SchedulerInv' /\ StartsOnly(st)
  <2> HIDE DEF q, a, runs, st
  <2> QED
    BY <1>4, <1>6, <1>7, <1>8, <1>9, <1>10, <1>11, <1>12, DrainStep
<1>14. jobState'[j] = OutcomeState(j, status)
  BY <1>1, <1>2, <1>3, <1>13 DEF StartsOnly, TypeOK, LiveStates
<1>15. AllMove
  <2> SUFFICES ASSUME NEW i \in Jobs PROVE Moved(i)
    BY DEF AllMove
  <2>1. CASE i = j
    BY <1>2, <1>14, <2>1 DEF Moved, FinalStates
  <2>2. CASE i # j /\ requeued /\ i = k
    BY <1>1, <1>3, <1>13, <2>2 DEF Moved, StartsOnly, TypeOK, CallStates
  <2>3. CASE i # j /\ ~(requeued /\ i = k)
    BY <1>1, <1>13, <2>3 DEF Moved, StartsOnly, TypeOK
  <2> QED
    BY <2>1, <2>2, <2>3
<1>16. StopsKept
  <2> SUFFICES ASSUME NEW i \in activeByRun \cap cancelRequested
               PROVE /\ i \in activeByRun' => i \in cancelRequested'
                     /\ i \notin activeByRun' =>
                           /\ jobState'[i] = "cancelled"
                           /\ \A n \in Jobs : jobState[n] = "new" => jobState'[n] = "new"
    BY DEF StopsKept
  <2>1. CASE i = j
    <3>1. OutcomeState(j, status) = "cancelled"
      BY <2>1 DEF OutcomeState
    <3>2. ~requeued
      BY <3>1 DEF RequeuesSteering
    <3>3. \A n \in Jobs : jobState[n] = "new" => jobState'[n] = "new"
      BY <1>1, <1>2, <1>13, <3>2 DEF StartsOnly, TypeOK, LiveStates
    <3>4. i \notin activeByRun'
      <4>1. j \in Jobs /\ jobState'[j] = "cancelled" /\ (SchedulerInv')
        BY <1>13, <1>14, <3>1
      <4> QED
        BY <2>1, <4>1 DEF SchedulerInv, PublishedStatesAgree, LiveStates
    <3> QED
      BY <1>14, <2>1, <3>1, <3>3, <3>4
  <2>2. CASE i # j
    <3>1. i \in cancelRequested'
      BY <1>5, <2>2
    <3>2. i \in activeByRun'
      BY <1>13, <3>1 DEF SchedulerInv, CancelsFollowStart
    <3> QED
      BY <3>1, <3>2
  <2> QED
    BY <2>1, <2>2
<1> QED
  BY <1>13, <1>15, <1>16

\* A change of readiness or fence after which drain() takes the queues as they are.
LEMMA ReopeningKeepsInv ==
    ASSUME SchedulerInv, NEW enabled \in BOOLEAN,
           enabled <=> MayDrain',
           Drain(pending, ready, activeBySession, activeByRun, jobState, enabled),
           runtimeReady' \in BOOLEAN, updateFenced' \in BOOLEAN, quiesced' \in BOOLEAN,
           quiesced' => quiesced /\ updateFenced',
           UNCHANGED <<rank, front, back, admissions, options, cancelVars,
                       discardSteering, fenceVars>>
    PROVE  SchedulerInv' /\ AllMove
<1>1. TypeOK
  BY DEF SchedulerInv
<1>2. UNCHANGED <<sessionDeletionFences, sessionKeyDeletionFences, deleting,
                  cancelInFlight, cancelRequested>>
  BY DEF fenceVars, cancelVars
<1>3. Rest(pending, activeBySession, activeByRun, jobState, admissions',
           sessionDeletionFences', quiesced', updateFenced', discardSteering',
           cancelInFlight', cancelRequested')
  <2>1. quiesced' => /\ updateFenced'
                     /\ \A s \in Sessions : admissions'[s] = 0 /\ pending[s] = {}
                     /\ activeByRun \subseteq discardSteering'
    BY InvNow DEF Rest
  <2> QED
    BY <1>2, <2>1, InvNow DEF Rest
<1>4. /\ rank' \in [Jobs -> Int] /\ front' \in [Sessions -> Int] /\ back' \in [Sessions -> Int]
      /\ \A s \in Sessions : front'[s] <= back'[s]
      /\ \A s \in Sessions : \A j \in pending[s] : front'[s] <= rank'[j]
  BY <1>1 DEF TypeOK, SchedulerInv, RanksBounded
<1>5. /\ cancelInFlight' \subseteq Jobs
      /\ discardSteering' \subseteq Jobs
      /\ sessionDeletionFences' \subseteq Sessions
      /\ sessionKeyDeletionFences' \subseteq SessionKeys
      /\ deleting' \in [Sessions -> SUBSET SessionKeys]
      /\ admissions' \in [Sessions -> Nat] /\ options' \in [Jobs -> SUBSET EnqueueOptions]
      /\ pending \in [Sessions -> SUBSET Jobs]
      /\ activeBySession \in [Sessions -> Jobs \cup {NoJob}]
      /\ activeByRun \in SUBSET Jobs
      /\ jobState \in [Jobs -> JobStates]
  BY <1>1, <1>2 DEF TypeOK
<1>6. Drain(pending, Waiting(pending, activeBySession), activeBySession, activeByRun,
            jobState, enabled)
  BY InvNow
<1>7. SchedulerInv' /\ StartsOnly(jobState)
  BY <1>3, <1>4, <1>5, <1>6, InvNow, DrainStep
<1> QED
  BY <1>7 DEF StartsOnly, AllMove, Moved

\* A step that moves one job between states of its enqueue call and, with it, at
\* most the admissions: queues, runs, cancellations, update and fences stay.
LEMMA QuietStep ==
    ASSUME SchedulerInv, NEW j \in Jobs, NEW state \in CallStates,
           jobState[j] \in CallStates,
           jobState' = [jobState EXCEPT ![j] = state],
           UNCHANGED <<queueVars, activeVars, cancelVars, runtimeReady, updateVars,
                       fenceVars>>,
           admissions' \in [Sessions -> Nat],
           options' \in [Jobs -> SUBSET EnqueueOptions],
           \A s \in Sessions : admissions'[s] = Cardinality(InBeforeAccept(s, jobState')),
           \A s \in sessionDeletionFences : admissions'[s] = 0,
           quiesced => \A s \in Sessions : admissions'[s] = 0
    PROVE  SchedulerInv'
<1>1. TypeOK
  BY DEF SchedulerInv
<1>2. /\ UNCHANGED <<pending, rank, front, back, ready, activeBySession, activeByRun>>
      /\ UNCHANGED <<cancelInFlight, cancelRequested, updateFenced, discardSteering, quiesced>>
      /\ UNCHANGED <<sessionDeletionFences, sessionKeyDeletionFences, deleting>>
  BY DEF queueVars, activeVars, cancelVars, updateVars, fenceVars
<1>3. TypeOK'
  BY <1>1, <1>2 DEF TypeOK, JobStates, CallStates
<1>4. RunIndexesAgree' /\ RanksBounded'
  BY <1>2 DEF SchedulerInv, RunIndexesAgree, RanksBounded
<1>5. NoSessionStalls'
  BY <1>2 DEF SchedulerInv, NoSessionStalls, MayDrain
<1>6. PublishedStatesAgree'
  BY <1>1, <1>2 DEF SchedulerInv, TypeOK, PublishedStatesAgree, CallStates, LiveStates
<1>7. AdmissionsCounted'
  BY DEF AdmissionsCounted, Persisting, InBeforeAccept
<1>8. DeletionIsExclusive'
  BY <1>1, <1>2, InvNow DEF Rest, DeletionIsExclusive, HasInflightWork, TypeOK
<1>9. UpdateStaysQuiet'
  BY <1>2, InvNow DEF Rest, UpdateStaysQuiet
<1>10. CancelsFollowStart'
  BY <1>1, <1>2 DEF SchedulerInv, TypeOK, CancelsFollowStart
<1> QED
  BY <1>3, <1>4, <1>5, <1>6, <1>7, <1>8, <1>9, <1>10 DEF SchedulerInv
-----------------------------------------------------------------------------
(* The invariant *)

\* The scheduler starts in a state of the invariant.
LEMMA InitInv ==
    ASSUME Init
    PROVE  SchedulerInv
<1>1. TypeOK
  <2>1. /\ rank \in [Jobs -> Int] /\ front \in [Sessions -> Int] /\ back \in [Sessions -> Int]
        /\ admissions \in [Sessions -> Nat]
    BY DEF Init
  <2>2. /\ pending \in [Sessions -> SUBSET Jobs]
        /\ options \in [Jobs -> SUBSET EnqueueOptions]
        /\ deleting \in [Sessions -> SUBSET SessionKeys]
    BY DEF Init
  <2>3. jobState \in [Jobs -> JobStates]
    BY DEF Init, JobStates, CallStates
  <2> QED
    BY <2>1, <2>2, <2>3 DEF Init, TypeOK
<1>2. \A s \in Sessions : Persisting(s) = {}
  BY DEF Init, Persisting
<1>3. AdmissionsCounted
  BY <1>2, FS_EmptySet DEF AdmissionsCounted, Init
<1> QED
  BY <1>1, <1>3 DEF Init, SchedulerInv, RunIndexesAgree, NoSessionStalls,
     PublishedStatesAgree, DeletionIsExclusive, HasInflightWork, UpdateStaysQuiet,
     CancelsFollowStart, RanksBounded, MayDrain, LiveStates

\* enqueue() without beforeAccept.
LEMMA EnqueueKeepsInv ==
    ASSUME SchedulerInv, NEW j \in Jobs, NEW opts \in SUBSET EnqueueOptions,
           Enqueue(j, opts)
    PROVE  SchedulerInv' /\ AllMove
<1>1. TypeOK /\ jobState[j] = "new" /\ SessionOf[j] \in Sessions
  BY SchedulerAssumption DEF SchedulerInv, Enqueue
<1>2. CASE Accept(j, opts)
  <2>1. ~quiesced /\ SessionOf[j] \notin sessionDeletionFences
    BY DEF Enqueue, AdmissionOpen, SchedulerInv, UpdateStaysQuiet
  <2>2. UNCHANGED <<admissions, options, cancelVars, runtimeReady, updateVars, fenceVars>>
    BY DEF Enqueue
  <2>3. \A s \in Sessions :
           InBeforeAccept(s, [jobState EXCEPT ![j] = "queued"]) = InBeforeAccept(s, jobState)
    BY <1>1 DEF InBeforeAccept, TypeOK
  <2>4. \A s \in Sessions :
           admissions'[s] = Cardinality(InBeforeAccept(s, [jobState EXCEPT ![j] = "queued"]))
    BY <2>2, <2>3, InvNow DEF Rest
  <2>5. admissions' \in [Sessions -> Nat] /\ options' \in [Jobs -> SUBSET EnqueueOptions]
        /\ \A s \in Sessions \ {SessionOf[j]} : admissions'[s] = admissions[s]
    BY <1>1, <2>2 DEF TypeOK
  <2> QED
    <3>1. SchedulerInv' /\ StartsOnly([jobState EXCEPT ![j] = "queued"])
      BY <1>1, <1>2, <2>1, <2>2, <2>4, <2>5, AcceptKeepsInv
    <3> QED
      BY <1>1, <3>1 DEF StartsOnly, AllMove, Moved, TypeOK, CallStates
<1>3. CASE Refuse(j)
  <2>1. UNCHANGED <<queueVars, activeVars, admissions, options, cancelVars, runtimeReady,
                    updateVars, fenceVars>>
        /\ jobState' = [jobState EXCEPT ![j] = "refused"]
    BY <1>3 DEF Enqueue, Refuse
  <2>2. \A s \in Sessions : InBeforeAccept(s, jobState') = InBeforeAccept(s, jobState)
    BY <1>1, <2>1 DEF InBeforeAccept, TypeOK
  <2>3. \A s \in Sessions : admissions'[s] = Cardinality(InBeforeAccept(s, jobState'))
    BY <2>1, <2>2, InvNow DEF Rest
  <2>4. /\ admissions' \in [Sessions -> Nat] /\ options' \in [Jobs -> SUBSET EnqueueOptions]
        /\ jobState[j] \in CallStates /\ "refused" \in CallStates
    BY <1>1, <2>1 DEF TypeOK, CallStates
  <2>5. /\ \A s \in sessionDeletionFences : admissions'[s] = 0
        /\ quiesced => \A s \in Sessions : admissions'[s] = 0
    BY <2>1, InvNow DEF Rest
  <2> QED
    <3>1. SchedulerInv'
      BY <2>1, <2>3, <2>4, <2>5, QuietStep
    <3> QED
      BY <1>1, <2>1, <3>1 DEF AllMove, Moved, TypeOK, CallStates
<1> QED
  BY <1>2, <1>3 DEF Enqueue

\* enqueue() up to the await of beforeAccept.
LEMMA EnqueuePersistingKeepsInv ==
    ASSUME SchedulerInv, NEW j \in Jobs, NEW opts \in SUBSET EnqueueOptions,
           EnqueuePersisting(j, opts)
    PROVE  SchedulerInv' /\ AllMove
<1>1. TypeOK /\ SessionOf[j] \in Sessions
  BY SchedulerAssumption DEF SchedulerInv
<1>2. /\ UNCHANGED <<queueVars, activeVars, cancelVars, runtimeReady, updateVars, fenceVars>>
      /\ jobState[j] = "new" /\ jobState' = [jobState EXCEPT ![j] = "persisting"]
      /\ admissions' = [admissions EXCEPT ![SessionOf[j]] = @ + 1]
      /\ options' = [options EXCEPT ![j] = opts]
      /\ ~updateFenced /\ SessionOf[j] \notin sessionDeletionFences
  BY DEF EnqueuePersisting, AdmissionOpen
<1>3. jobState' \in [Jobs -> JobStates]
  BY <1>1, <1>2 DEF TypeOK, JobStates, CallStates
<1>4. \A s \in Sessions : Cardinality(InBeforeAccept(s, jobState'))
                             = IF s = SessionOf[j] THEN admissions[s] + 1 ELSE admissions[s]
  BY <1>2, <1>3, PersistingEntered
<1>5. \A s \in Sessions : admissions'[s] = Cardinality(InBeforeAccept(s, jobState'))
  BY <1>1, <1>2, <1>4 DEF TypeOK
<1>6. admissions' \in [Sessions -> Nat] /\ options' \in [Jobs -> SUBSET EnqueueOptions]
  BY <1>1, <1>2 DEF TypeOK
<1>7. ~quiesced
  BY <1>2 DEF SchedulerInv, UpdateStaysQuiet
<1>8. \A s \in sessionDeletionFences : admissions'[s] = 0
  BY <1>1, <1>2, InvNow DEF Rest, TypeOK
<1>9. jobState[j] \in CallStates /\ "persisting" \in CallStates
  BY <1>2 DEF CallStates
<1>10. SchedulerInv'
  BY <1>2, <1>5, <1>6, <1>7, <1>8, <1>9, QuietStep
<1> QED
  BY <1>1, <1>2, <1>10 DEF AllMove, Moved, TypeOK, CallStates

\* beforeAccept resolved: the job is accepted, or its onlyIfIdle call refused.
LEMMA PersistSucceededKeepsInv ==
    ASSUME SchedulerInv, NEW j \in Jobs, PersistSucceeded(j)
    PROVE  SchedulerInv' /\ AllMove
<1>1. /\ TypeOK /\ SessionOf[j] \in Sessions
      /\ jobState[j] = "persisting"
      /\ admissions' = [admissions EXCEPT ![SessionOf[j]] = @ - 1]
      /\ options' = [options EXCEPT ![j] = {}]
      /\ UNCHANGED <<cancelVars, runtimeReady, updateVars, fenceVars>>
  BY SchedulerAssumption DEF SchedulerInv, PersistSucceeded, ReleaseAdmission
<1>2. ASSUME NEW state \in {"queued", "refused"}
      PROVE  \A s \in Sessions :
                /\ Cardinality(InBeforeAccept(s, [jobState EXCEPT ![j] = state]))
                     = IF s = SessionOf[j] THEN admissions[s] - 1 ELSE admissions[s]
                /\ s = SessionOf[j] => admissions[s] > 0
  <2> DEFINE st == [jobState EXCEPT ![j] = state]
  <2>1. st \in [Jobs -> JobStates] /\ st[j] # "persisting"
        /\ \A k \in Jobs \ {j} : st[k] = jobState[k]
    BY <1>1 DEF TypeOK, JobStates, CallStates
  <2> HIDE DEF st
  <2>2. \A s \in Sessions :
           /\ Cardinality(InBeforeAccept(s, st))
                = IF s = SessionOf[j] THEN admissions[s] - 1 ELSE admissions[s]
           /\ s = SessionOf[j] => admissions[s] > 0
    BY <1>1, <2>1, PersistingLeft
  <2> QED
    BY <2>2 DEF st
<1>3. /\ admissions' \in [Sessions -> Nat]
      /\ options' \in [Jobs -> SUBSET EnqueueOptions]
      /\ \A s \in Sessions \ {SessionOf[j]} : admissions'[s] = admissions[s]
      /\ admissions[SessionOf[j]] > 0
  BY <1>1, <1>2 DEF TypeOK
<1>4. ASSUME NEW state \in {"queued", "refused"}
      PROVE  \A s \in Sessions :
                admissions'[s] = Cardinality(InBeforeAccept(s, [jobState EXCEPT ![j] = state]))
  BY <1>1, <1>2 DEF TypeOK
<1>5. CASE Accept(j, options[j])
  <2>1. ~quiesced /\ SessionOf[j] \notin sessionDeletionFences
    BY <1>1, <1>3, InvNow DEF Rest
  <2>2. options[j] \in SUBSET EnqueueOptions
    BY <1>1 DEF TypeOK
  <2>3. \A s \in Sessions :
           admissions'[s] = Cardinality(InBeforeAccept(s, [jobState EXCEPT ![j] = "queued"]))
    BY <1>4
  <2> QED
    <3>1. SchedulerInv' /\ StartsOnly([jobState EXCEPT ![j] = "queued"])
      BY <1>1, <1>3, <1>5, <2>1, <2>2, <2>3, AcceptKeepsInv
    <3> QED
      BY <1>1, <3>1 DEF StartsOnly, AllMove, Moved, TypeOK, CallStates
<1>6. CASE Refuse(j)
  <2>1. UNCHANGED <<queueVars, activeVars>> /\ jobState' = [jobState EXCEPT ![j] = "refused"]
    BY <1>6 DEF Refuse
  <2>2. \A s \in Sessions : admissions'[s] = Cardinality(InBeforeAccept(s, jobState'))
    BY <1>4, <2>1
  <2>3. jobState[j] \in CallStates /\ "refused" \in CallStates
    BY <1>1 DEF CallStates
  <2>4. ~quiesced /\ \A s \in sessionDeletionFences : admissions'[s] = 0
    BY <1>1, <1>3, InvNow DEF Rest, TypeOK
  <2> QED
    <3>1. SchedulerInv'
      BY <1>1, <1>3, <2>1, <2>2, <2>3, <2>4, QuietStep
    <3> QED
      BY <1>1, <2>1, <3>1 DEF AllMove, Moved, TypeOK, CallStates
<1> QED
  BY <1>5, <1>6 DEF PersistSucceeded

\* beforeAccept rejected.
LEMMA PersistFailedKeepsInv ==
    ASSUME SchedulerInv, NEW j \in Jobs, PersistFailed(j)
    PROVE  SchedulerInv' /\ AllMove
<1>1. /\ TypeOK /\ SessionOf[j] \in Sessions
      /\ jobState[j] = "persisting" /\ jobState' = [jobState EXCEPT ![j] = "refused"]
      /\ admissions' = [admissions EXCEPT ![SessionOf[j]] = @ - 1]
      /\ options' = [options EXCEPT ![j] = {}]
      /\ UNCHANGED <<queueVars, activeVars, cancelVars, runtimeReady, updateVars, fenceVars>>
  BY SchedulerAssumption DEF SchedulerInv, PersistFailed, ReleaseAdmission, Refuse
<1>2. jobState' \in [Jobs -> JobStates] /\ jobState'[j] # "persisting"
      /\ \A k \in Jobs \ {j} : jobState'[k] = jobState[k]
  BY <1>1 DEF TypeOK, JobStates, CallStates
<1>3. \A s \in Sessions :
         /\ Cardinality(InBeforeAccept(s, jobState'))
              = IF s = SessionOf[j] THEN admissions[s] - 1 ELSE admissions[s]
         /\ s = SessionOf[j] => admissions[s] > 0
  BY <1>1, <1>2, PersistingLeft
<1>4. /\ admissions' \in [Sessions -> Nat]
      /\ options' \in [Jobs -> SUBSET EnqueueOptions]
      /\ \A s \in Sessions : admissions'[s] = Cardinality(InBeforeAccept(s, jobState'))
  <2>1. \A s \in Sessions :
           admissions'[s] = IF s = SessionOf[j] THEN admissions[s] - 1 ELSE admissions[s]
    BY <1>1 DEF TypeOK
  <2>2. admissions[SessionOf[j]] > 0 /\ admissions \in [Sessions -> Nat]
    BY <1>1, <1>3 DEF TypeOK
  <2>3. admissions' \in [Sessions -> Nat] /\ options' \in [Jobs -> SUBSET EnqueueOptions]
    BY <1>1, <2>2 DEF TypeOK
  <2> QED
    BY <1>3, <2>1, <2>2, <2>3
<1>5. jobState[j] \in CallStates /\ "refused" \in CallStates
  BY <1>1 DEF CallStates
<1>6. ~quiesced /\ \A s \in sessionDeletionFences : admissions'[s] = 0
  BY <1>1, <1>3, InvNow DEF Rest, TypeOK
<1>7. SchedulerInv'
  BY <1>1, <1>4, <1>5, <1>6, QuietStep
<1> QED
  BY <1>1, <1>7 DEF AllMove, Moved, TypeOK, CallStates

\* What a step that neither starts nor ends a run, and takes in no job, has to
\* show: the states of jobs may change, but no call of enqueue() moves.
LEMMA StillStep ==
    ASSUME SchedulerInv, TypeOK',
           UNCHANGED <<rank, front, back, activeBySession, activeByRun, admissions>>,
           \A s \in Sessions : pending'[s] \subseteq pending[s],
           \A j \in Jobs : jobState[j] \in CallStates \/ jobState'[j] \in CallStates =>
              jobState'[j] = jobState[j]
    PROVE  RunIndexesAgree' /\ AdmissionsCounted' /\ RanksBounded'
<1>1. RunIndexesAgree'
  BY DEF SchedulerInv, RunIndexesAgree
<1>2. \A s \in Sessions : Persisting(s)' = Persisting(s)
  BY DEF Persisting, CallStates
<1>3. AdmissionsCounted'
  BY <1>2 DEF SchedulerInv, AdmissionsCounted
<1>4. RanksBounded'
  BY DEF SchedulerInv, RanksBounded
<1> QED
  BY <1>1, <1>3, <1>4

\* clearPendingMatching() of a session.
LEMMA ClearPendingMatchingKeepsInv ==
    ASSUME SchedulerInv, NEW s \in Sessions, NEW c \in SUBSET pending[s],
           ClearPendingMatching(s, c)
    PROVE  SchedulerInv' /\ AllMove
<1>1. TypeOK /\ c \subseteq Jobs
  BY DEF SchedulerInv, TypeOK
<1>2. /\ pending' = [pending EXCEPT ![s] = @ \ c]
      /\ ready' = IF pending[s] \ c = {} THEN ready \ {s} ELSE ready
      /\ jobState' = [j \in Jobs |-> IF j \in c THEN "cleared" ELSE jobState[j]]
      /\ UNCHANGED <<rank, front, back, activeBySession, activeByRun, admissions, options>>
      /\ UNCHANGED <<cancelInFlight, cancelRequested, runtimeReady, updateFenced>>
      /\ UNCHANGED <<discardSteering, quiesced, sessionDeletionFences>>
      /\ UNCHANGED <<sessionKeyDeletionFences, deleting>>
  BY DEF ClearPendingMatching, activeVars, cancelVars, updateVars, fenceVars
<1>3. \A j \in c : jobState[j] = "queued" /\ j \notin activeByRun
  BY <1>1, InvNow DEF Agree, TypeOK, LiveStates
<1>4. TypeOK'
  BY <1>1, <1>2 DEF TypeOK, JobStates, FinalStates
<1>5. RunIndexesAgree' /\ AdmissionsCounted' /\ RanksBounded'
  <2>1. \A j \in Jobs : jobState[j] \in CallStates \/ jobState'[j] \in CallStates =>
              jobState'[j] = jobState[j]
    BY <1>2, <1>3 DEF CallStates
  <2>2. \A t \in Sessions : pending'[t] \subseteq pending[t]
    BY <1>1, <1>2 DEF TypeOK
  <2> QED
    BY <1>2, <1>4, <2>1, <2>2, StillStep
<1>6. NoSessionStalls'
  <2>1. ready' = Waiting(pending', activeBySession') /\ ready' \subseteq ready
    BY <1>1, <1>2, InvNow DEF Waiting, TypeOK
  <2>2. MayDrain' => ready = {}
    BY <1>2 DEF SchedulerInv, NoSessionStalls, MayDrain
  <2>3. MayDrain' => ready' = {}
    BY <2>1, <2>2
  <2> QED
    BY <2>1, <2>3 DEF NoSessionStalls, Waiting
<1>7. PublishedStatesAgree'
  <2>1. Agree(pending', activeBySession', activeByRun', jobState')
    BY <1>1, <1>2, <1>3, InvNow DEF Agree, TypeOK, LiveStates
  <2>2. StoppingMarked(activeByRun', jobState', cancelInFlight', cancelRequested')
    BY <1>1, <1>2, <1>3, InvNow DEF Rest, StoppingMarked, TypeOK
  <2> QED
    BY <2>1, <2>2 DEF Agree, StoppingMarked, PublishedStatesAgree
<1>8. DeletionIsExclusive'
  BY <1>1, <1>2, InvNow DEF Rest, DeletionIsExclusive, HasInflightWork, TypeOK
<1>9. UpdateStaysQuiet'
  BY <1>1, <1>2, InvNow DEF Rest, UpdateStaysQuiet, TypeOK
<1>10. CancelsFollowStart'
  BY <1>1, <1>2, InvNow DEF Rest, CancelsFollowStart, TypeOK, CallStates
<1>11. AllMove
  BY <1>2, <1>3 DEF AllMove, Moved
<1> QED
  BY <1>4, <1>5, <1>6, <1>7, <1>8, <1>9, <1>10, <1>11 DEF SchedulerInv

\* requestStop() and the two ways its cancelRequest settles.
LEMMA CancellationKeepsInv ==
    ASSUME SchedulerInv, NEW j \in Jobs,
           RequestStop(j) \/ CancelSucceeded(j) \/ CancelFailed(j)
    PROVE  SchedulerInv' /\ AllMove
<1>1. TypeOK
  BY DEF SchedulerInv
<1>2. /\ UNCHANGED <<pending, rank, front, back, ready, activeBySession, activeByRun>>
      /\ UNCHANGED <<admissions, options, runtimeReady, updateFenced, discardSteering>>
      /\ UNCHANGED <<quiesced, sessionDeletionFences, sessionKeyDeletionFences, deleting>>
  BY DEF RequestStop, CancelSucceeded, CancelFailed, DropsCancelRequest, queueVars, activeVars, updateVars,
     fenceVars
<1>3. /\ cancelInFlight' \subseteq cancelInFlight \cup {j}
      /\ cancelRequested' \subseteq activeByRun
      /\ cancelInFlight' \cap cancelRequested' = {}
      /\ \A k \in Jobs : jobState'[k] # jobState[k] =>
            k = j /\ j \in activeByRun /\ jobState'[k] \in {"stopping", "running"}
      /\ j \in cancelInFlight' => j \in activeByRun \/ j \in cancelInFlight
      /\ jobState' \in [Jobs -> JobStates]
  <2>1. cancelRequested \subseteq activeByRun /\ cancelInFlight \cap cancelRequested = {}
    BY InvNow DEF Rest
  <2>2. CASE RequestStop(j)
    BY <1>1, <2>1, <2>2 DEF RequestStop, Stoppable, TypeOK, JobStates, LiveStates
  <2>3. CASE CancelSucceeded(j)
    BY <1>1, <2>1, <2>3 DEF CancelSucceeded, TypeOK
  <2>4. CASE CancelFailed(j)
    BY <1>1, <2>1, <2>4 DEF CancelFailed, DropsCancelRequest, TypeOK, JobStates, LiveStates
  <2> QED
    BY <2>2, <2>3, <2>4
<1>4. StoppingMarked(activeByRun', jobState', cancelInFlight', cancelRequested')
  <2>1. StoppingMarked(activeByRun, jobState, cancelInFlight, cancelRequested)
        /\ cancelRequested \subseteq activeByRun
        /\ \A k \in activeByRun : k \in Jobs /\ jobState[k] \in LiveStates
    BY <1>1, InvNow DEF Rest, Agree, TypeOK
  <2>2. CASE RequestStop(j)
    BY <1>1, <2>1, <2>2 DEF RequestStop, Stoppable, TypeOK, StoppingMarked, activeVars
  <2>3. CASE CancelSucceeded(j)
    BY <1>1, <2>1, <2>3 DEF CancelSucceeded, TypeOK, StoppingMarked, activeVars
  <2>4. CASE CancelFailed(j)
    BY <1>1, <2>1, <2>4 DEF CancelFailed, DropsCancelRequest, TypeOK, StoppingMarked, activeVars
  <2> QED
    BY <2>2, <2>3, <2>4
<1>5. \A k \in Jobs : k \in activeByRun => jobState[k] \in LiveStates
  BY InvNow DEF Agree
<1>6. TypeOK'
  BY <1>1, <1>2, <1>3 DEF TypeOK
<1>7. RunIndexesAgree' /\ AdmissionsCounted' /\ RanksBounded'
  <2>1. \A k \in Jobs : jobState[k] \in CallStates \/ jobState'[k] \in CallStates =>
              jobState'[k] = jobState[k]
    BY <1>3, <1>5 DEF CallStates, LiveStates
  <2>2. \A s \in Sessions : pending'[s] \subseteq pending[s]
    BY <1>2
  <2> QED
    BY <1>2, <1>6, <2>1, <2>2, StillStep
<1>8. NoSessionStalls'
  BY <1>2 DEF SchedulerInv, NoSessionStalls, MayDrain
<1>9. PublishedStatesAgree'
  <2>1. \A k \in Jobs : /\ jobState'[k] = "queued" <=> jobState[k] = "queued"
                        /\ jobState'[k] \in LiveStates <=> jobState[k] \in LiveStates
    BY <1>3, <1>5 DEF LiveStates
  <2>2. Agree(pending', activeBySession', activeByRun', jobState')
    BY <1>2, <2>1, InvNow DEF Agree
  <2> QED
    BY <1>4, <2>2 DEF Agree, StoppingMarked, PublishedStatesAgree
<1>10. DeletionIsExclusive'
  BY <1>1, <1>2, InvNow DEF Rest, DeletionIsExclusive, HasInflightWork, TypeOK
<1>11. UpdateStaysQuiet'
  BY <1>2, InvNow DEF Rest, UpdateStaysQuiet
<1>12. CancelsFollowStart'
  <2>1. \A k \in cancelInFlight : k \in Jobs /\ jobState[k] \notin CallStates \cup {"queued"}
    BY <1>1, InvNow DEF Rest, TypeOK
  <2>2. \A k \in cancelInFlight' : jobState'[k] \notin CallStates \cup {"queued"}
    BY <1>3, <1>5, <2>1 DEF CallStates, LiveStates
  <2> QED
    BY <1>2, <1>3, <2>2 DEF CancelsFollowStart
<1>13. AllMove
  BY <1>3, <1>5 DEF AllMove, Moved, LiveStates
<1> QED
  BY <1>6, <1>7, <1>8, <1>9, <1>10, <1>11, <1>12, <1>13 DEF SchedulerInv

\* setRuntimeReady() and the release of an update drain the queues as they are.
LEMMA ReopeningSteps ==
    ASSUME SchedulerInv,
           (\E isReady \in BOOLEAN : SetRuntimeReady(isReady)) \/ ReleaseUpdate
    PROVE  SchedulerInv' /\ AllMove
<1>1. runtimeReady \in BOOLEAN /\ updateFenced \in BOOLEAN /\ quiesced \in BOOLEAN
  BY DEF SchedulerInv, TypeOK
<1>2. ASSUME NEW isReady \in BOOLEAN, SetRuntimeReady(isReady)
      PROVE  SchedulerInv' /\ AllMove
  <2>1. /\ UNCHANGED <<rank, front, back, admissions, options, cancelVars,
                       discardSteering, fenceVars>>
        /\ UNCHANGED <<updateFenced, quiesced>>
        /\ runtimeReady' = isReady
    BY <1>2 DEF SetRuntimeReady, updateVars
  <2> DEFINE enabled == isReady /\ ~updateFenced
  <2>2. enabled \in BOOLEAN /\ (enabled <=> MayDrain')
    BY <1>1, <2>1 DEF MayDrain
  <2>3. Drain(pending, ready, activeBySession, activeByRun, jobState, enabled)
    BY <1>2 DEF SetRuntimeReady
  <2>4. quiesced' => quiesced /\ updateFenced'
    BY <2>1 DEF SchedulerInv, UpdateStaysQuiet
  <2>5. runtimeReady' \in BOOLEAN /\ updateFenced' \in BOOLEAN /\ quiesced' \in BOOLEAN
    BY <1>1, <2>1
  <2> HIDE DEF enabled
  <2> QED
    BY <2>1, <2>2, <2>3, <2>4, <2>5, ReopeningKeepsInv
<1>3. CASE ReleaseUpdate
  <2>1. /\ UNCHANGED <<rank, front, back, admissions, options, cancelVars,
                       discardSteering, fenceVars>>
        /\ runtimeReady' = runtimeReady /\ updateFenced' = FALSE /\ quiesced' = FALSE
        /\ Drain(pending, ready, activeBySession, activeByRun, jobState, runtimeReady)
    BY <1>3 DEF ReleaseUpdate
  <2>2. runtimeReady <=> MayDrain'
    BY <1>1, <2>1 DEF MayDrain
  <2>3. quiesced' => quiesced /\ updateFenced'
    BY <2>1
  <2>4. runtimeReady' \in BOOLEAN /\ updateFenced' \in BOOLEAN /\ quiesced' \in BOOLEAN
    BY <1>1, <2>1
  <2> QED
    BY <1>1, <2>1, <2>2, <2>3, <2>4, ReopeningKeepsInv
<1> QED
  BY <1>2, <1>3

\* A step that changes fences only.
LEMMA FencedStep ==
    ASSUME SchedulerInv, TypeOK', NoSessionStalls', DeletionIsExclusive', UpdateStaysQuiet',
           UNCHANGED <<pending, rank, front, back, ready, activeBySession, activeByRun>>,
           UNCHANGED <<admissions, jobState, options, cancelInFlight, cancelRequested>>
    PROVE  SchedulerInv' /\ AllMove
<1>1. RunIndexesAgree' /\ PublishedStatesAgree'
  BY DEF SchedulerInv, RunIndexesAgree, PublishedStatesAgree
<1>2. AdmissionsCounted'
  <2>1. \A s \in Sessions : Persisting(s)' = Persisting(s)
    BY DEF Persisting
  <2> QED
    BY <2>1 DEF SchedulerInv, AdmissionsCounted
<1>3. CancelsFollowStart' /\ RanksBounded'
  BY DEF SchedulerInv, CancelsFollowStart, RanksBounded
<1> QED
  BY <1>1, <1>2, <1>3 DEF SchedulerInv, AllMove, Moved

\* Raising the update fence, and opening or ending the deletion of a session.
LEMMA FencingKeepsInv ==
    ASSUME SchedulerInv,
           \/ \E allowBusy \in BOOLEAN : BeginUpdate(allowBusy)
           \/ \E s \in Sessions : \E keys \in SUBSET SessionKeys : BeginSessionDeletion(s, keys)
           \/ \E s \in Sessions : EndSessionDeletion(s)
    PROVE  SchedulerInv' /\ AllMove
<1>1. TypeOK
  BY DEF SchedulerInv
<1>2. /\ UNCHANGED <<pending, rank, front, back, ready, activeBySession, activeByRun>>
      /\ UNCHANGED <<admissions, jobState, options, cancelInFlight, cancelRequested>>
      /\ UNCHANGED <<runtimeReady, discardSteering, quiesced>>
  BY DEF BeginUpdate, BeginSessionDeletion, EndSessionDeletion, queueVars, activeVars,
     cancelVars, updateVars
<1>3. CASE \E allowBusy \in BOOLEAN : BeginUpdate(allowBusy)
  <2>1. /\ UNCHANGED <<sessionDeletionFences, sessionKeyDeletionFences, deleting>>
        /\ updateFenced' = TRUE
    BY <1>3 DEF BeginUpdate, fenceVars
  <2>2. TypeOK'
    BY <1>1, <1>2, <2>1 DEF TypeOK
  <2>3. DeletionIsExclusive'
    BY <1>1, <1>2, <2>1, InvNow DEF Rest, DeletionIsExclusive, HasInflightWork, TypeOK
  <2>4. UpdateStaysQuiet'
    BY <1>2, <2>1, InvNow DEF Rest, UpdateStaysQuiet
  <2>5. ready' = Waiting(pending', activeBySession') /\ ~MayDrain'
    BY <1>2, <2>1, InvNow DEF MayDrain
  <2>6. NoSessionStalls'
    BY <2>5 DEF NoSessionStalls, Waiting
  <2> QED
    BY <1>2, <2>2, <2>3, <2>4, <2>6, FencedStep
<1>4. CASE ~\E allowBusy \in BOOLEAN : BeginUpdate(allowBusy)
  <2>1. /\ updateFenced' = updateFenced
        /\ sessionDeletionFences' \subseteq Sessions
        /\ sessionKeyDeletionFences' \subseteq SessionKeys
        /\ deleting' \in [Sessions -> SUBSET SessionKeys]
        /\ \A s \in sessionDeletionFences' \ sessionDeletionFences : ~HasInflightWork(s)
    BY <1>1, <1>4 DEF TypeOK, BeginSessionDeletion, EndSessionDeletion, updateVars
  <2>2. TypeOK'
    BY <1>1, <1>2, <2>1 DEF TypeOK
  <2>3. DeletionIsExclusive'
    <3>1. \A s \in sessionDeletionFences' : ~HasInflightWork(s)
      BY <2>1 DEF SchedulerInv, DeletionIsExclusive
    <3> QED
      BY <1>2, <3>1 DEF DeletionIsExclusive, HasInflightWork
  <2>4. UpdateStaysQuiet'
    BY <1>2, <2>1, InvNow DEF Rest, UpdateStaysQuiet
  <2>5. NoSessionStalls'
    BY <1>2, <2>1 DEF SchedulerInv, NoSessionStalls, MayDrain
  <2> QED
    BY <1>2, <2>2, <2>3, <2>4, <2>5, FencedStep
<1> QED
  BY <1>3, <1>4

\* cancelForUpdate(), after the admissions have settled.
LEMMA CancelForUpdateKeepsInv ==
    ASSUME SchedulerInv, CancelForUpdate
    PROVE  SchedulerInv' /\ AllMove
<1>1. TypeOK
  BY DEF SchedulerInv
<1> DEFINE cleared == UNION {pending[s] : s \in Sessions}
           stopping == Stoppable(activeByRun)
<1>2. /\ UNCHANGED <<rank, front, back, activeBySession, activeByRun, admissions, options>>
      /\ UNCHANGED <<cancelRequested, runtimeReady, updateFenced>>
      /\ UNCHANGED <<sessionDeletionFences, sessionKeyDeletionFences, deleting>>
      /\ pending' = [s \in Sessions |-> {}] /\ ready' = {}
      /\ cancelInFlight' = cancelInFlight \cup stopping
      /\ discardSteering' = discardSteering \cup activeByRun
      /\ quiesced' = TRUE /\ updateFenced
      /\ \A s \in Sessions : admissions[s] = 0
      /\ jobState' = [j \in Jobs |-> IF j \in cleared THEN "cleared"
                                     ELSE IF j \in stopping THEN "stopping"
                                     ELSE jobState[j]]
  BY DEF CancelForUpdate, activeVars, fenceVars
<1>3. /\ stopping \subseteq activeByRun /\ cleared \subseteq Jobs
      /\ activeByRun \subseteq cancelInFlight' \cup cancelRequested
      /\ cancelInFlight' \subseteq Jobs
  BY <1>1, <1>2 DEF Stoppable, TypeOK
<1>4. \A j \in Jobs : /\ j \in cleared <=> jobState[j] = "queued"
                      /\ j \in activeByRun <=> jobState[j] \in LiveStates
  BY InvNow DEF Agree
<1> HIDE DEF cleared, stopping
<1>5. TypeOK'
  BY <1>1, <1>2, <1>3 DEF TypeOK, JobStates, LiveStates, FinalStates
<1>6. RunIndexesAgree' /\ AdmissionsCounted' /\ RanksBounded'
  <2>1. \A j \in Jobs : jobState[j] \in CallStates \/ jobState'[j] \in CallStates =>
              jobState'[j] = jobState[j]
    BY <1>1, <1>2, <1>3, <1>4 DEF CallStates, LiveStates, TypeOK
  <2>2. \A s \in Sessions : pending'[s] \subseteq pending[s]
    BY <1>2
  <2> QED
    BY <1>2, <1>5, <2>1, <2>2, StillStep
<1>7. NoSessionStalls'
  BY <1>2 DEF NoSessionStalls, MayDrain
<1>8. PublishedStatesAgree'
  <2>1. \A j \in Jobs : jobState'[j] # "queued" /\ \A s \in Sessions : j \notin pending'[s]
    BY <1>2, <1>4
  <2>2. \A j \in Jobs : jobState'[j] \in LiveStates <=> j \in activeByRun'
    BY <1>1, <1>2, <1>3, <1>4 DEF LiveStates, TypeOK
  <2>3. \A j \in Jobs : j \in activeByRun' =>
           (jobState'[j] = "stopping" <=> j \in cancelInFlight' \cup cancelRequested')
    <3> SUFFICES ASSUME NEW j \in Jobs, j \in activeByRun
                 PROVE jobState'[j] = "stopping" /\ j \in cancelInFlight' \cup cancelRequested'
      BY <1>2
    <3>1. j \notin cleared
      BY <1>4 DEF LiveStates
    <3>2. j \notin stopping => j \in cancelInFlight \cup cancelRequested
      BY DEF stopping, Stoppable
    <3>3. j \in cancelInFlight \cup cancelRequested => jobState[j] = "stopping"
      BY InvNow DEF Rest, StoppingMarked
    <3> QED
      BY <1>2, <1>3, <3>1, <3>2, <3>3
  <2> QED
    BY <2>1, <2>2, <2>3 DEF PublishedStatesAgree
<1>9. DeletionIsExclusive'
  BY <1>1, <1>2, InvNow DEF Rest, DeletionIsExclusive, HasInflightWork, TypeOK
<1>10. UpdateStaysQuiet'
  BY <1>2 DEF UpdateStaysQuiet
<1>11. CancelsFollowStart'
  <2>1. \A j \in cancelInFlight' : j \in Jobs /\ jobState'[j] \notin CallStates \cup {"queued"}
    <3> SUFFICES ASSUME NEW j \in cancelInFlight'
                 PROVE j \in Jobs /\ jobState'[j] \notin CallStates \cup {"queued"}
      OBVIOUS
    <3>1. j \in Jobs /\ jobState[j] \notin CallStates \cup {"queued"}
      <4>1. CASE j \in cancelInFlight
        BY <1>1, <4>1, InvNow DEF Rest, TypeOK
      <4>2. CASE j \in stopping
        BY <1>1, <1>3, <1>4, <4>2 DEF TypeOK, LiveStates, CallStates
      <4> QED
        BY <1>2, <4>1, <4>2
    <3> QED
      BY <1>2, <3>1 DEF CallStates
  <2>2. cancelInFlight' \cap cancelRequested' = {}
    BY <1>2, InvNow DEF Rest, stopping, Stoppable
  <2> QED
    BY <1>2, <2>1, <2>2, InvNow DEF CancelsFollowStart, Rest
<1>12. AllMove
  BY <1>2, <1>3, <1>4 DEF AllMove, Moved, LiveStates
<1> QED
  BY <1>5, <1>6, <1>7, <1>8, <1>9, <1>10, <1>11, <1>12 DEF SchedulerInv

\* Every step keeps the invariant, moves jobs forward only, and keeps the stops.
LEMMA NextKeepsInv ==
    ASSUME SchedulerInv, [Next]_vars
    PROVE  SchedulerInv' /\ AllMove /\ StopsKept
<1>1. ASSUME SchedulerInv', cancelRequested \subseteq cancelRequested'
      PROVE  StopsKept
  BY <1>1 DEF StopsKept, SchedulerInv, CancelsFollowStart
<1>2. ASSUME NEW j \in Jobs, NEW opts \in SUBSET EnqueueOptions, Enqueue(j, opts)
      PROVE  SchedulerInv' /\ AllMove /\ StopsKept
  BY <1>1, <1>2, EnqueueKeepsInv DEF Enqueue, cancelVars
<1>3. ASSUME NEW j \in Jobs, NEW opts \in SUBSET EnqueueOptions, EnqueuePersisting(j, opts)
      PROVE  SchedulerInv' /\ AllMove /\ StopsKept
  BY <1>1, <1>3, EnqueuePersistingKeepsInv DEF EnqueuePersisting, cancelVars
<1>4. ASSUME NEW j \in Jobs, PersistSucceeded(j)
      PROVE  SchedulerInv' /\ AllMove /\ StopsKept
  BY <1>1, <1>4, PersistSucceededKeepsInv DEF PersistSucceeded, cancelVars
<1>5. ASSUME NEW j \in Jobs, PersistFailed(j)
      PROVE  SchedulerInv' /\ AllMove /\ StopsKept
  BY <1>1, <1>5, PersistFailedKeepsInv DEF PersistFailed, cancelVars
<1>6. ASSUME NEW s \in Sessions, NEW c \in SUBSET pending[s], ClearPendingMatching(s, c)
      PROVE  SchedulerInv' /\ AllMove /\ StopsKept
  BY <1>1, <1>6, ClearPendingMatchingKeepsInv DEF ClearPendingMatching, cancelVars
<1>7. ASSUME NEW j \in Jobs, RequestStop(j) \/ CancelSucceeded(j) \/ CancelFailed(j)
      PROVE  SchedulerInv' /\ AllMove /\ StopsKept
  <2>1. cancelRequested \subseteq cancelRequested'
    BY <1>7, InvNow DEF RequestStop, CancelSucceeded, CancelFailed, DropsCancelRequest, Rest
  <2> QED
    BY <1>1, <1>7, <2>1, CancellationKeepsInv
<1>8. ASSUME NEW j \in Jobs, NEW status \in {"completed", "cancelled", "error"},
             NEW k \in Jobs \cup {NoJob}, HandleRuntimeEvent(j, status, k)
      PROVE  SchedulerInv' /\ AllMove /\ StopsKept
  BY <1>8, HandleRuntimeEventKeepsInv
<1>9. ASSUME (\E isReady \in BOOLEAN : SetRuntimeReady(isReady)) \/ ReleaseUpdate
      PROVE  SchedulerInv' /\ AllMove /\ StopsKept
  BY <1>1, <1>9, ReopeningSteps DEF SetRuntimeReady, ReleaseUpdate, cancelVars
<1>10. ASSUME \/ \E allowBusy \in BOOLEAN : BeginUpdate(allowBusy)
              \/ \E s \in Sessions : \E keys \in SUBSET SessionKeys : BeginSessionDeletion(s, keys)
              \/ \E s \in Sessions : EndSessionDeletion(s)
       PROVE  SchedulerInv' /\ AllMove /\ StopsKept
  BY <1>1, <1>10, FencingKeepsInv
  DEF BeginUpdate, BeginSessionDeletion, EndSessionDeletion, cancelVars
<1>11. CASE CancelForUpdate
  BY <1>1, <1>11, CancelForUpdateKeepsInv DEF CancelForUpdate
<1>12. CASE UNCHANGED vars
  <2>1. UNCHANGED <<pending, rank, front, back, ready, activeBySession, activeByRun>>
        /\ UNCHANGED <<admissions, jobState, options, cancelInFlight, cancelRequested>>
        /\ UNCHANGED <<runtimeReady, updateFenced, discardSteering, quiesced>>
        /\ UNCHANGED <<sessionDeletionFences, sessionKeyDeletionFences, deleting>>
    BY <1>12 DEF vars, queueVars, activeVars, cancelVars, updateVars, fenceVars
  <2>2. TypeOK' /\ NoSessionStalls' /\ UpdateStaysQuiet'
    BY <2>1 DEF SchedulerInv, TypeOK, NoSessionStalls, MayDrain, UpdateStaysQuiet
  <2>3. DeletionIsExclusive'
    BY <2>1 DEF SchedulerInv, DeletionIsExclusive, HasInflightWork
  <2> QED
    BY <1>1, <2>1, <2>2, <2>3, FencedStep
<1> QED
  BY <1>2, <1>3, <1>4, <1>5, <1>6, <1>7, <1>8, <1>9, <1>10, <1>11, <1>12 DEF Next

\* The scheduler always is in a state of the inductive invariant: its two run
\* indexes, queues, ready list, published states, admission counters, deletion
\* fences and update fence agree, whatever interleaves with its awaits.
THEOREM SchedulerInvariant == Spec => []SchedulerInv
<1>1. Init => SchedulerInv
  BY InitInv
<1>2. SchedulerInv /\ [Next]_vars => SchedulerInv'
  BY NextKeepsInv
<1> QED
  BY <1>1, <1>2, PTL DEF Spec

\* The scheduler's variables keep their types.
THEOREM TypeCorrect == Spec => []TypeOK
<1>1. SchedulerInv => TypeOK
  BY DEF SchedulerInv
<1> QED
  BY <1>1, SchedulerInvariant, PTL

\* drain() never hands the runtime two runs of one session.
THEOREM RunsAreSerial == Spec => []OneRunPerSession
<1>1. SchedulerInv => OneRunPerSession
  BY DEF SchedulerInv, RunIndexesAgree, OneRunPerSession
<1> QED
  BY <1>1, SchedulerInvariant, PTL

\* No session that waits without a run is forgotten by the ready list.
THEOREM WakeupsAreKept == Spec => []NoSessionStalls
<1>1. SchedulerInv => NoSessionStalls
  BY DEF SchedulerInv
<1> QED
  BY <1>1, SchedulerInvariant, PTL

\* beginSessionDeletion() keeps everything of the session out until its release.
THEOREM DeletionExcludes == Spec => []DeletionIsExclusive
<1>1. SchedulerInv => DeletionIsExclusive
  BY DEF SchedulerInv
<1> QED
  BY <1>1, SchedulerInvariant, PTL

\* After cancelForUpdate() nothing waits or is admitted until the fence is lifted.
THEOREM UpdateQuiesces == Spec => []UpdateStaysQuiet
<1>1. SchedulerInv => UpdateStaysQuiet
  BY DEF SchedulerInv
<1> QED
  BY <1>1, SchedulerInvariant, PTL

\* What observers were last told of a job agrees with what the scheduler holds.
THEOREM PublishedStatesHold == Spec => []PublishedStatesAgree
<1>1. SchedulerInv => PublishedStatesAgree
  BY DEF SchedulerInv
<1> QED
  BY <1>1, SchedulerInvariant, PTL

\* A published outcome is never revised.
THEOREM FinalOutcomes == Spec => OutcomesAreFinal
<1>1. SchedulerInv /\ [Next]_vars =>
         [\A j \in Jobs : jobState[j] \in FinalStates \cup {"refused"} =>
             jobState'[j] = jobState[j]]_vars
  BY NextKeepsInv DEF AllMove, Moved, FinalStates, LiveStates
<1> QED
  BY <1>1, SchedulerInvariant, PTL DEF Spec, OutcomesAreFinal

\* A run whose stop was acknowledged ends as cancelled and is not continued.
THEOREM StopsHold == Spec => AcknowledgedStopHolds
<1>1. SchedulerInv /\ [Next]_vars => [StopsKept]_vars
  BY NextKeepsInv
<1> QED
  BY <1>1, SchedulerInvariant, PTL DEF Spec, AcknowledgedStopHolds

-----------------------------------------------------------------------------
(* The scheduler implements serial turns *)

\* The phase of each job, without the case distinction.
PhasesAgree ==
    \A j \in Jobs :
       /\ TurnPhase[j] \in Promise!Phases
       /\ TurnPhase[j] = "absent" <=> jobState[j] \in CallStates
       /\ TurnPhase[j] = "waiting" <=> jobState[j] = "queued"
       /\ TurnPhase[j] = "running" <=> jobState[j] \in LiveStates
       /\ TurnPhase[j] = "ended" <=> jobState[j] \in FinalStates

LEMMA PhasesOfStates == TypeOK => PhasesAgree
<1> SUFFICES ASSUME TypeOK, NEW j \in Jobs
             PROVE  /\ TurnPhase[j] \in Promise!Phases
                    /\ TurnPhase[j] = "absent" <=> jobState[j] \in CallStates
                    /\ TurnPhase[j] = "waiting" <=> jobState[j] = "queued"
                    /\ TurnPhase[j] = "running" <=> jobState[j] \in LiveStates
                    /\ TurnPhase[j] = "ended" <=> jobState[j] \in FinalStates
  BY DEF PhasesAgree
<1>1. jobState[j] \in JobStates
  BY DEF TypeOK
<1>2. CASE jobState[j] \in CallStates
  BY <1>2 DEF TurnPhase, CallStates, LiveStates, FinalStates, Promise!Phases
<1>3. CASE jobState[j] = "queued"
  BY <1>3 DEF TurnPhase, CallStates, LiveStates, FinalStates, Promise!Phases
<1>4. CASE jobState[j] \in LiveStates
  BY <1>4 DEF TurnPhase, CallStates, LiveStates, FinalStates, Promise!Phases
<1>5. CASE jobState[j] \in FinalStates
  BY <1>5 DEF TurnPhase, CallStates, LiveStates, FinalStates, Promise!Phases
<1> QED
  BY <1>1, <1>2, <1>3, <1>4, <1>5 DEF JobStates

\* At most one running turn per session, by the run index.
LEMMA PhasesAreSerial ==
    ASSUME SchedulerInv
    PROVE  Promise!Serial(TurnPhase)
<1> SUFFICES ASSUME NEW t \in Jobs, NEW u \in Jobs,
                    SessionOf[t] = SessionOf[u],
                    TurnPhase[t] = "running", TurnPhase[u] = "running"
             PROVE t = u
  BY DEF Promise!Serial
<1>1. t \in activeByRun /\ u \in activeByRun
  BY PhasesOfStates, InvNow DEF SchedulerInv, Agree, PhasesAgree
<1> QED
  BY <1>1, InvNow DEF Agree

\* A step of the scheduler is a step of serial turns, or leaves them alone.
LEMMA StepRefines ==
    ASSUME SchedulerInv, SchedulerInv', AllMove
    PROVE  Promise!SerialNext
<1>1. PhasesAgree
  BY PhasesOfStates DEF SchedulerInv
<1>2. PhasesAgree'
  <2>1. (TypeOK => PhasesAgree)'
    BY PhasesOfStates, PTL
  <2> QED
    BY <2>1 DEF SchedulerInv
<1>3. TurnPhase' \in [Jobs -> Promise!Phases]
  <2>1. \A j \in Jobs : TurnPhase'[j] \in Promise!Phases
    BY <1>2 DEF PhasesAgree
  <2> QED
    BY <2>1 DEF TurnPhase
<1>4. Promise!Serial(TurnPhase')
  <2>1. (SchedulerInv => Promise!Serial(TurnPhase))'
    BY PhasesAreSerial, PTL
  <2> QED
    BY <2>1
<1>5. ASSUME NEW t \in Jobs
      PROVE  TurnPhase'[t] \in Promise!Successors(TurnPhase[t])
  <2>1. Moved(t)
    BY DEF AllMove
  <2> QED
    BY <1>1, <1>2, <2>1 DEF PhasesAgree, Moved, Promise!Successors, Promise!Phases, CallStates, LiveStates, FinalStates
<1>6. ASSUME NEW t \in Jobs, TurnPhase[t] # "running", TurnPhase'[t] = "running",
             NEW u \in Jobs, SessionOf[u] = SessionOf[t], TurnPhase[u] = "running"
      PROVE  TurnPhase'[u] = "ended"
  <2>1. u # t /\ TurnPhase'[u] # "running"
    BY <1>4, <1>6 DEF Promise!Serial
  <2> QED
    BY <1>5, <1>6, <2>1 DEF Promise!Successors
<1> QED
  BY <1>3, <1>4, <1>5, <1>6 DEF Promise!SerialNext, Promise!Advance

\* Every behaviour of the scheduler is one of SerialTurns: an accepted turn waits,
\* runs while no other turn of its session does, ends, and never goes back.
THEOREM Refinement == Spec => ImplementsSerialTurns
<1>1. Init => Promise!SerialInit
  <2> SUFFICES ASSUME Init PROVE TurnPhase = [t \in Jobs |-> "absent"]
    BY DEF Promise!SerialInit
  <2>1. \A j \in Jobs : TurnPhase[j] = "absent"
    BY InitInv, PhasesOfStates DEF SchedulerInv, PhasesAgree, Init, CallStates
  <2> QED
    BY <2>1 DEF TurnPhase
<1>2. SchedulerInv /\ SchedulerInv' /\ [Next]_vars => [Promise!SerialNext]_TurnPhase
  BY NextKeepsInv, StepRefines
<1> QED
  BY <1>1, <1>2, SchedulerInvariant, PTL DEF Spec, ImplementsSerialTurns, Promise!SerialSpec

-----------------------------------------------------------------------------
(* The order of a session's queue *)

\* No job of the states st waits behind one of its session accepted later.
InOrder(st) ==
    \A j, k \in Jobs :
       /\ SessionOf[j] = SessionOf[k]
       /\ 0 < rank'[j] /\ rank'[j] < rank'[k]
       /\ st[j] = "queued"
       => st[k] \in {"queued", "cleared"}

\* drain() keeps the order: it starts the least job of every queue it takes from.
LEMMA DrainKeepsOrder ==
    ASSUME NEW q \in [Sessions -> SUBSET Jobs], NEW r, NEW a, NEW runs,
           NEW st \in [Jobs -> JobStates], NEW enabled \in BOOLEAN,
           rank' \in [Jobs -> Int], front' \in [Sessions -> Int],
           \A s \in Sessions : \A j \in q[s] : front'[s] <= rank'[j] /\ SessionOf[j] = s,
           \A j \in Jobs : st[j] = "queued" => j \in q[SessionOf[j]],
           r \subseteq Sessions,
           Drain(q, r, a, runs, st, enabled),
           InOrder(st)
    PROVE  /\ NoOvertaking'
           /\ \A j \in Jobs : jobState'[j] \in CallStates => st[j] = jobState'[j]
<1> DEFINE starting == IF enabled THEN {s \in r : a[s] = NoJob /\ q[s] # {}} ELSE {}
           next(s) == First(q[s], rank')
           started == {next(s) : s \in starting}
<1>1. jobState' = [j \in Jobs |-> IF j \in started THEN "running" ELSE st[j]]
  BY DEF Drain
<1>2. \A s \in starting : /\ s \in Sessions
                          /\ next(s) \in q[s]
                          /\ \A k \in q[s] : rank'[next(s)] <= rank'[k]
  <2> SUFFICES ASSUME NEW s \in starting
               PROVE /\ s \in Sessions
                     /\ next(s) \in q[s]
                     /\ \A k \in q[s] : rank'[next(s)] <= rank'[k]
    OBVIOUS
  <2>1. s \in Sessions /\ q[s] # {} /\ q[s] \in SUBSET Jobs
    OBVIOUS
  <2>2. front'[s] \in Int /\ \A j \in q[s] : front'[s] <= rank'[j]
    BY <2>1
  <2> QED
    BY <2>1, <2>2, FirstIsLeast
<1> HIDE DEF starting, next
<1>3. ASSUME NEW j \in Jobs, NEW k \in Jobs, SessionOf[j] = SessionOf[k],
             0 < rank'[j], rank'[j] < rank'[k], jobState'[j] = "queued"
      PROVE  jobState'[k] \in {"queued", "cleared"}
  <2>1. st[j] = "queued" /\ j \in q[SessionOf[j]]
    BY <1>1, <1>3
  <2>2. k \notin started
    <3> SUFFICES ASSUME k \in started PROVE FALSE
      OBVIOUS
    <3>1. PICK s \in starting : k = next(s)
      OBVIOUS
    <3>2. SessionOf[k] = s
      BY <1>2, <3>1
    <3>3. rank'[k] <= rank'[j]
      BY <1>2, <1>3, <2>1, <3>1, <3>2
    <3> QED
      BY <1>3, <3>3
  <2>3. st[k] \in {"queued", "cleared"}
    BY <1>3, <2>1 DEF InOrder
  <2> QED
    BY <1>1, <2>2, <2>3
<1>4. NoOvertaking'
  BY <1>3 DEF NoOvertaking
<1>5. \A j \in Jobs : jobState'[j] \in CallStates => st[j] = jobState'[j]
  BY <1>1 DEF CallStates
<1> QED
  BY <1>4, <1>5

\* A step that hands out no rank keeps the order when no job turns queued, none
\* goes back into its enqueue call, and no queued job is taken out otherwise
\* than by clearing it.
LEMMA RanksUntouched ==
    ASSUME QueueOrderInv, UNCHANGED <<rank, front, back>>,
           \A j \in Jobs : jobState'[j] \in CallStates => jobState[j] \in CallStates,
           \A j \in Jobs : jobState'[j] = "queued" => jobState[j] = "queued",
           \A j \in Jobs : jobState[j] \in {"queued", "cleared"} =>
              jobState'[j] \in {"queued", "cleared"}
    PROVE  QueueOrderInv'
  BY DEF QueueOrderInv, NoOvertaking

\* enqueue() from the point where the job is accepted.
LEMMA AcceptKeepsOrder ==
    ASSUME SchedulerInv, QueueOrderInv,
           NEW j \in Jobs, NEW opts \in SUBSET EnqueueOptions,
           jobState[j] \in {"new", "persisting"},
           Accept(j, opts)
    PROVE  QueueOrderInv'
<1> DEFINE ses == SessionOf[j]
           q == [pending EXCEPT ![ses] = @ \cup {j}]
           st == [jobState EXCEPT ![j] = "queued"]
           r == MarkReady(ses, q, ready, activeBySession)
<1>1. TypeOK /\ ses \in Sessions
  BY SchedulerAssumption DEF SchedulerInv
<1>2. /\ rank' \in [Jobs -> Int] /\ front' \in [Sessions -> Int] /\ back' \in [Sessions -> Int]
      /\ \A k \in Jobs \ {j} : rank'[k] = rank[k]
      /\ \A s \in Sessions : front'[s] <= front[s] /\ back[s] <= back'[s]
      /\ front'[ses] <= rank'[j] /\ rank'[j] <= back'[ses]
      /\ rank'[j] < 0 \/ \A k \in Jobs : SessionOf[k] = ses => rank[k] < rank'[j]
  <2>1. rank \in [Jobs -> Int] /\ front \in [Sessions -> Int] /\ back \in [Sessions -> Int]
        /\ front[ses] <= 0 /\ 0 <= back[ses]
        /\ \A k \in Jobs : SessionOf[k] = ses => rank[k] <= back[ses]
    BY <1>1 DEF TypeOK, QueueOrderInv
  <2>2. CASE "front" \in opts
    <3>1. /\ front' = [front EXCEPT ![ses] = @ - 1] /\ back' = back
          /\ rank' = [rank EXCEPT ![j] = front[ses] - 1]
      BY <2>2 DEF Accept
    <3> QED
      BY <1>1, <2>1, <3>1
  <2>3. CASE "front" \notin opts
    <3>1. /\ back' = [back EXCEPT ![ses] = @ + 1] /\ front' = front
          /\ rank' = [rank EXCEPT ![j] = back[ses] + 1]
      BY <2>3 DEF Accept
    <3> QED
      BY <1>1, <2>1, <3>1
  <2> QED
    BY <2>2, <2>3
<1>3. /\ \A s \in Sessions : front'[s] <= 0 /\ 0 <= back'[s]
      /\ \A k \in Jobs : rank'[k] <= back'[SessionOf[k]]
  <2>1. \A s \in Sessions : front[s] \in Int /\ back[s] \in Int /\ front'[s] \in Int
                            /\ back'[s] \in Int /\ front[s] <= 0 /\ 0 <= back[s]
    BY <1>1, <1>2 DEF TypeOK, QueueOrderInv
  <2>2. \A k \in Jobs : rank[k] \in Int /\ rank'[k] \in Int /\ SessionOf[k] \in Sessions
                        /\ rank[k] <= back[SessionOf[k]]
    BY <1>1, <1>2, SchedulerAssumption DEF TypeOK, QueueOrderInv
  <2> QED
    BY <1>2, <2>1, <2>2
<1>4. \A s \in Sessions : \A k \in q[s] : front'[s] <= rank'[k] /\ SessionOf[k] = s
  <2> SUFFICES ASSUME NEW s \in Sessions, NEW k \in q[s]
               PROVE  front'[s] <= rank'[k] /\ SessionOf[k] = s
    OBVIOUS
  <2>1. CASE k = j
    <3>1. s = ses
      BY <1>1, <2>1, InvNow DEF Agree, TypeOK
    <3> QED
      BY <1>2, <2>1, <3>1
  <2>2. CASE k # j
    <3>1. k \in pending[s] /\ k \in Jobs
      BY <1>1, <2>2 DEF TypeOK
    <3>2. front[s] <= rank[k] /\ SessionOf[k] = s
      BY <3>1, InvNow DEF SchedulerInv, RanksBounded, Agree
    <3> QED
      BY <1>1, <1>2, <2>2, <3>1, <3>2 DEF TypeOK
  <2> QED
    BY <2>1, <2>2
<1>5. \A k \in Jobs : st[k] = "queued" => k \in q[SessionOf[k]]
  BY <1>1, InvNow, SchedulerAssumption DEF Agree, TypeOK
<1>6. InOrder(st)
  <2> SUFFICES ASSUME NEW i \in Jobs, NEW k \in Jobs, SessionOf[i] = SessionOf[k],
                      0 < rank'[i], rank'[i] < rank'[k], st[i] = "queued"
               PROVE  st[k] \in {"queued", "cleared"}
    BY DEF InOrder
  <2>1. CASE k = j
    BY <1>1, <2>1 DEF TypeOK
  <2>2. CASE k # j /\ i = j
    <3>1. rank'[k] = rank[k] /\ SessionOf[k] = ses
      BY <1>2, <2>2
    <3>2. rank[k] < rank'[j]
      BY <1>1, <1>2, <2>2, <3>1
    <3> QED
      BY <1>1, <1>2, <2>2, <3>1, <3>2 DEF TypeOK
  <2>3. CASE k # j /\ i # j
    <3>1. rank'[k] = rank[k] /\ rank'[i] = rank[i] /\ jobState[i] = "queued"
          /\ st[k] = jobState[k]
      BY <1>1, <1>2, <2>3 DEF TypeOK
    <3> QED
      BY <3>1 DEF QueueOrderInv, NoOvertaking
  <2> QED
    BY <2>1, <2>2, <2>3
<1>7. /\ q \in [Sessions -> SUBSET Jobs]
      /\ st \in [Jobs -> JobStates]
      /\ r \subseteq Sessions
      /\ MayDrain \in BOOLEAN
      /\ Drain(q, r, activeBySession, activeByRun, st, MayDrain)
  BY <1>1 DEF TypeOK, JobStates, MarkReady, MayDrain, Accept
<1>8. /\ NoOvertaking'
      /\ \A k \in Jobs : jobState'[k] \in CallStates => st[k] = jobState'[k]
  <2> HIDE DEF q, st, r
  <2> QED
    BY <1>2, <1>4, <1>5, <1>6, <1>7, DrainKeepsOrder
<1>9. \A k \in Jobs : jobState'[k] \in CallStates => rank'[k] = 0
  <2>1. \A k \in Jobs : jobState'[k] \in CallStates => k # j /\ jobState[k] \in CallStates
    BY <1>1, <1>8 DEF TypeOK, CallStates
  <2> QED
    BY <1>2, <2>1 DEF QueueOrderInv
<1> QED
  BY <1>3, <1>8, <1>9 DEF QueueOrderInv

\* The completion of a run: remaining steering returns at the front, and the rest
\* of the queue is taken in order.
LEMMA HandleRuntimeEventKeepsOrder ==
    ASSUME SchedulerInv, QueueOrderInv, NEW j \in Jobs,
           NEW status \in {"completed", "cancelled", "error"},
           NEW k \in Jobs \cup {NoJob},
           HandleRuntimeEvent(j, status, k)
    PROVE  QueueOrderInv'
<1> DEFINE ses == SessionOf[j]
           requeued == k # NoJob /\ RequeuesSteering(j, status)
           a == [activeBySession EXCEPT ![ses] = NoJob]
           q == IF requeued THEN [pending EXCEPT ![ses] = @ \cup {k}] ELSE pending
           ended == [jobState EXCEPT ![j] = OutcomeState(j, status)]
           st == IF requeued THEN [ended EXCEPT ![k] = "queued"] ELSE ended
           r == MarkReady(ses, q, ready, a)
<1>1. TypeOK /\ ses \in Sessions
  BY SchedulerAssumption DEF SchedulerInv
<1>2. /\ jobState[j] \in LiveStates
      /\ OutcomeState(j, status) \in {"cancelled", "completed", "error"}
      /\ requeued => k \in Jobs /\ jobState[k] = "new" /\ SessionOf[k] = ses /\ k # j
  BY InvNow DEF HandleRuntimeEvent, Agree, OutcomeState, LiveStates
<1>3. /\ rank' \in [Jobs -> Int] /\ front' \in [Sessions -> Int] /\ back' = back
      /\ \A s \in Sessions : front'[s] <= front[s]
      /\ requeued => front'[ses] <= rank'[k] /\ rank'[k] < 0
      /\ \A i \in Jobs : ~requeued \/ i # k => rank'[i] = rank[i]
  <2>1. rank \in [Jobs -> Int] /\ front \in [Sessions -> Int] /\ front[ses] <= 0
    BY <1>1 DEF TypeOK, QueueOrderInv
  <2>2. back' = back
    BY DEF HandleRuntimeEvent
  <2>3. CASE requeued
    <3>1. /\ front' = [front EXCEPT ![ses] = @ - 1]
          /\ rank' = [rank EXCEPT ![k] = front[ses] - 1]
      BY <2>3 DEF HandleRuntimeEvent
    <3> QED
      BY <1>1, <1>2, <2>1, <2>2, <2>3, <3>1
  <2>4. CASE ~requeued
    <3>1. front' = front /\ rank' = rank
      BY <2>4 DEF HandleRuntimeEvent
    <3> QED
      BY <2>1, <2>2, <2>4, <3>1
  <2> QED
    BY <2>3, <2>4
<1>4. /\ \A s \in Sessions : front'[s] <= 0 /\ 0 <= back'[s]
      /\ \A i \in Jobs : rank'[i] <= back'[SessionOf[i]]
  <2>1. \A s \in Sessions : front[s] \in Int /\ back[s] \in Int /\ front'[s] \in Int
                            /\ front[s] <= 0 /\ 0 <= back[s]
    BY <1>1, <1>3 DEF TypeOK, QueueOrderInv
  <2>2. \A i \in Jobs : rank[i] \in Int /\ rank'[i] \in Int /\ SessionOf[i] \in Sessions
                        /\ rank[i] <= back[SessionOf[i]]
    BY <1>1, <1>3, SchedulerAssumption DEF TypeOK, QueueOrderInv
  <2> QED
    BY <1>3, <2>1, <2>2
<1>5. \A s \in Sessions : \A i \in q[s] : front'[s] <= rank'[i] /\ SessionOf[i] = s
  <2> SUFFICES ASSUME NEW s \in Sessions, NEW i \in q[s]
               PROVE  front'[s] <= rank'[i] /\ SessionOf[i] = s
    OBVIOUS
  <2>1. CASE requeued /\ i = k
    <3>1. s = ses
      BY <1>1, <1>2, <2>1, InvNow DEF Agree, TypeOK
    <3> QED
      BY <1>2, <1>3, <2>1, <3>1
  <2>2. CASE ~(requeued /\ i = k)
    <3>1. i \in pending[s] /\ i \in Jobs
      BY <1>1, <2>2 DEF TypeOK
    <3>2. front[s] <= rank[i] /\ SessionOf[i] = s
      BY <3>1, InvNow DEF SchedulerInv, RanksBounded, Agree
    <3> QED
      BY <1>1, <1>3, <2>2, <3>1, <3>2 DEF TypeOK
  <2> QED
    BY <2>1, <2>2
<1>6. \A i \in Jobs : st[i] = "queued" => i \in q[SessionOf[i]]
  BY <1>1, <1>2, InvNow, SchedulerAssumption DEF Agree, TypeOK
<1>7. InOrder(st)
  <2> SUFFICES ASSUME NEW i \in Jobs, NEW n \in Jobs, SessionOf[i] = SessionOf[n],
                      0 < rank'[i], rank'[i] < rank'[n], st[i] = "queued"
               PROVE  st[n] \in {"queued", "cleared"}
    BY DEF InOrder
  <2>1. ~(requeued /\ i = k) /\ ~(requeued /\ n = k)
    BY <1>3
  <2>2. rank'[i] = rank[i] /\ rank'[n] = rank[n]
    BY <1>3, <2>1
  <2>3. i # j /\ jobState[i] = "queued"
    BY <1>1, <1>2, <2>1 DEF TypeOK
  <2>4. jobState[n] \in {"queued", "cleared"}
    BY <2>2, <2>3 DEF QueueOrderInv, NoOvertaking
  <2>5. n # j
    BY <1>2, <2>4 DEF LiveStates
  <2> QED
    BY <1>1, <2>1, <2>4, <2>5 DEF TypeOK
<1>8. /\ q \in [Sessions -> SUBSET Jobs]
      /\ st \in [Jobs -> JobStates]
      /\ r \subseteq Sessions
      /\ MayDrain \in BOOLEAN
      /\ Drain(q, r, a, activeByRun \ {j}, st, MayDrain)
  BY <1>1, <1>2 DEF TypeOK, JobStates, FinalStates, MarkReady, MayDrain, HandleRuntimeEvent
<1>9. /\ NoOvertaking'
      /\ \A i \in Jobs : jobState'[i] \in CallStates => st[i] = jobState'[i]
  <2> HIDE DEF q, st, r, a
  <2> QED
    BY <1>3, <1>5, <1>6, <1>7, <1>8, DrainKeepsOrder
<1>10. \A i \in Jobs : jobState'[i] \in CallStates => rank'[i] = 0
  <2>1. \A i \in Jobs : jobState'[i] \in CallStates =>
           ~(requeued /\ i = k) /\ i # j /\ jobState[i] \in CallStates
    BY <1>1, <1>2, <1>9 DEF TypeOK, CallStates
  <2> QED
    BY <1>3, <2>1 DEF QueueOrderInv
<1> QED
  BY <1>4, <1>9, <1>10 DEF QueueOrderInv

\* A change of readiness or of the update fence, after which drain() runs.
LEMMA ReopeningKeepsOrder ==
    ASSUME SchedulerInv, QueueOrderInv, NEW enabled \in BOOLEAN,
           UNCHANGED <<rank, front, back>>,
           Drain(pending, ready, activeBySession, activeByRun, jobState, enabled)
    PROVE  QueueOrderInv'
<1>1. TypeOK
  BY DEF SchedulerInv
<1>2. rank' \in [Jobs -> Int] /\ front' \in [Sessions -> Int]
      /\ pending \in [Sessions -> SUBSET Jobs] /\ jobState \in [Jobs -> JobStates]
      /\ ready \subseteq Sessions
  BY <1>1 DEF TypeOK
<1>3. \A s \in Sessions : \A j \in pending[s] : front'[s] <= rank'[j] /\ SessionOf[j] = s
  BY <1>2, InvNow DEF SchedulerInv, RanksBounded, Agree
<1>4. \A j \in Jobs : jobState[j] = "queued" => j \in pending[SessionOf[j]]
  BY InvNow DEF Agree
<1>5. InOrder(jobState)
  BY DEF InOrder, QueueOrderInv, NoOvertaking
<1>6. /\ NoOvertaking'
      /\ \A j \in Jobs : jobState'[j] \in CallStates => jobState[j] = jobState'[j]
  BY <1>2, <1>3, <1>4, <1>5, DrainKeepsOrder
<1> QED
  BY <1>6 DEF QueueOrderInv

\* Every step keeps the order of the queues.
LEMMA NextKeepsOrder ==
    ASSUME SchedulerInv, QueueOrderInv, [Next]_vars
    PROVE  QueueOrderInv'
<1>1. TypeOK
  BY DEF SchedulerInv
<1>2. ASSUME NEW j \in Jobs, jobState[j] \in {"new", "persisting"}, Refuse(j)
      PROVE  QueueOrderInv'
  BY <1>1, <1>2, RanksUntouched DEF Refuse, queueVars, TypeOK, CallStates
<1>3. ASSUME NEW j \in Jobs, NEW opts \in SUBSET EnqueueOptions,
             Enqueue(j, opts) \/ EnqueuePersisting(j, opts)
      PROVE  QueueOrderInv'
  <2>1. CASE Enqueue(j, opts)
    BY <1>2, <2>1, AcceptKeepsOrder DEF Enqueue
  <2>2. CASE EnqueuePersisting(j, opts)
    BY <1>1, <2>2, RanksUntouched DEF EnqueuePersisting, queueVars, TypeOK, CallStates
  <2> QED
    BY <1>3, <2>1, <2>2
<1>4. ASSUME NEW j \in Jobs, PersistSucceeded(j) \/ PersistFailed(j)
      PROVE  QueueOrderInv'
  <2>1. jobState[j] = "persisting" /\ options[j] \in SUBSET EnqueueOptions
    BY <1>1, <1>4 DEF PersistSucceeded, PersistFailed, TypeOK
  <2>2. Accept(j, options[j]) \/ Refuse(j)
    BY <1>4 DEF PersistSucceeded, PersistFailed
  <2> QED
    BY <1>2, <2>1, <2>2, AcceptKeepsOrder
<1>5. ASSUME NEW s \in Sessions, NEW c \in SUBSET pending[s], ClearPendingMatching(s, c)
      PROVE  QueueOrderInv'
  <2>1. UNCHANGED <<rank, front, back>>
        /\ jobState' = [j \in Jobs |-> IF j \in c THEN "cleared" ELSE jobState[j]]
    BY <1>5 DEF ClearPendingMatching
  <2> QED
    BY <2>1, RanksUntouched DEF CallStates
<1>6. ASSUME NEW j \in Jobs, RequestStop(j) \/ CancelSucceeded(j) \/ CancelFailed(j)
      PROVE  QueueOrderInv'
  <2>1. UNCHANGED <<rank, front, back>>
    BY <1>6 DEF RequestStop, CancelSucceeded, CancelFailed, DropsCancelRequest, queueVars
  <2>2. \A i \in Jobs : jobState'[i] # jobState[i] =>
           jobState[i] \in LiveStates /\ jobState'[i] \in LiveStates
    BY <1>1, <1>6, InvNow DEF RequestStop, Stoppable, CancelSucceeded, CancelFailed,
       DropsCancelRequest, TypeOK, Agree, LiveStates
  <2> QED
    BY <2>1, <2>2, RanksUntouched DEF LiveStates, CallStates
<1>7. ASSUME NEW j \in Jobs, NEW status \in {"completed", "cancelled", "error"},
             NEW k \in Jobs \cup {NoJob}, HandleRuntimeEvent(j, status, k)
      PROVE  QueueOrderInv'
  BY <1>7, HandleRuntimeEventKeepsOrder
<1>8. ASSUME NEW isReady \in BOOLEAN, SetRuntimeReady(isReady)
      PROVE  QueueOrderInv'
  <2>1. (isReady /\ ~updateFenced) \in BOOLEAN
    OBVIOUS
  <2> QED
    BY <1>8, <2>1, ReopeningKeepsOrder DEF SetRuntimeReady
<1>9. CASE ReleaseUpdate
  BY <1>1, <1>9, ReopeningKeepsOrder DEF ReleaseUpdate, TypeOK
<1>10. CASE CancelForUpdate
  <2>1. UNCHANGED <<rank, front, back>>
    BY <1>10 DEF CancelForUpdate
  <2>2. \A j \in Jobs : jobState'[j] # jobState[j] =>
           \/ jobState'[j] = "cleared"
           \/ jobState[j] \in LiveStates /\ jobState'[j] = "stopping"
    BY <1>1, <1>10, InvNow DEF CancelForUpdate, Stoppable, TypeOK, Agree
  <2> QED
    BY <2>1, <2>2, RanksUntouched DEF LiveStates, CallStates
<1>11. CASE UNCHANGED <<rank, front, back, jobState>>
  BY <1>11, RanksUntouched DEF CallStates
<1>12. ASSUME NEW allowBusy \in BOOLEAN, BeginUpdate(allowBusy)
       PROVE  QueueOrderInv'
  BY <1>11, <1>12 DEF BeginUpdate, queueVars
<1>13. ASSUME NEW s \in Sessions, NEW keys \in SUBSET SessionKeys,
              BeginSessionDeletion(s, keys)
       PROVE  QueueOrderInv'
  BY <1>11, <1>13 DEF BeginSessionDeletion, queueVars
<1>14. ASSUME NEW s \in Sessions, EndSessionDeletion(s)
       PROVE  QueueOrderInv'
  BY <1>11, <1>14 DEF EndSessionDeletion, queueVars
<1>15. CASE UNCHANGED vars
  BY <1>11, <1>15 DEF vars, queueVars
<1> QED
  BY <1>3, <1>4, <1>5, <1>6, <1>7, <1>8, <1>9, <1>10, <1>12, <1>13, <1>14, <1>15 DEF Next

\* A job accepted at the back of its session's queue is never overtaken by one
\* accepted after it, whatever is put at the front, cleared, stopped or fenced.
THEOREM QueuesKeepOrder == Spec => []NoOvertaking
<1>1. Init => QueueOrderInv
  BY SchedulerAssumption DEF Init, QueueOrderInv, NoOvertaking
<1>2. SchedulerInv /\ QueueOrderInv /\ [Next]_vars => QueueOrderInv'
  BY NextKeepsOrder
<1>3. QueueOrderInv => NoOvertaking
  BY DEF QueueOrderInv
<1> QED
  BY <1>1, <1>2, <1>3, SchedulerInvariant, PTL DEF Spec

-----------------------------------------------------------------------------
(* The session keys held by deletions *)

\* The fenced keys are the members of the sets the open deletions hold.
LEMMA KeysHeld ==
    ASSUME KeyFencesHeldOnce
    PROVE  \A x : x \in sessionKeyDeletionFences <=>
                     \E t \in sessionDeletionFences : x \in deleting[t]
<1>1. sessionKeyDeletionFences = UNION {deleting[t] : t \in sessionDeletionFences}
  BY DEF KeyFencesHeldOnce
<1>2. \A x : x \in UNION {deleting[t] : t \in sessionDeletionFences} <=>
                \E t \in sessionDeletionFences : x \in deleting[t]
  OBVIOUS
<1> QED
  BY <1>1, <1>2

\* The converse, of the next state.
LEMMA KeysHeldNext ==
    ASSUME \A x : x \in sessionKeyDeletionFences' <=>
                     \E t \in sessionDeletionFences' : x \in deleting'[t],
           \A t, u \in Sessions : t # u => deleting'[t] \cap deleting'[u] = {}
    PROVE  KeyFencesHeldOnce'
<1>1. \A x : x \in UNION {deleting'[t] : t \in sessionDeletionFences'} <=>
                \E t \in sessionDeletionFences' : x \in deleting'[t]
  OBVIOUS
<1>2. sessionKeyDeletionFences' = UNION {deleting'[t] : t \in sessionDeletionFences'}
  BY <1>1
<1> QED
  BY <1>2 DEF KeyFencesHeldOnce

\* Every step keeps the fenced keys and their holders in agreement.
LEMMA NextKeepsKeyFences ==
    ASSUME SchedulerInv, KeyFencesInv, [Next]_vars
    PROVE  KeyFencesInv'
<1>1. deleting \in [Sessions -> SUBSET SessionKeys] /\ sessionDeletionFences \subseteq Sessions
  BY DEF SchedulerInv, TypeOK
<1>2. CASE UNCHANGED fenceVars
  BY <1>2 DEF KeyFencesInv, KeyFencesHeldOnce, fenceVars
<1>3. ASSUME NEW s \in Sessions, NEW keys \in SUBSET SessionKeys,
             BeginSessionDeletion(s, keys)
      PROVE  KeyFencesInv'
  <2>1. /\ s \notin sessionDeletionFences /\ keys \cap sessionKeyDeletionFences = {}
        /\ sessionDeletionFences' = sessionDeletionFences \cup {s}
        /\ sessionKeyDeletionFences' = sessionKeyDeletionFences \cup keys
        /\ deleting' = [deleting EXCEPT ![s] = keys]
    BY <1>3 DEF BeginSessionDeletion
  <2>2. /\ deleting'[s] = keys
        /\ \A t \in Sessions \ {s} : deleting'[t] = deleting[t]
    BY <1>1, <2>1
  <2>3. \A t \in Sessions : deleting[t] \subseteq sessionKeyDeletionFences
    BY DEF KeyFencesInv, KeyFencesHeldOnce
  <2>4. \A t \in Sessions \ sessionDeletionFences' : deleting'[t] = {}
    BY <2>1, <2>2 DEF KeyFencesInv
  <2>5. \A x : x \in sessionKeyDeletionFences' <=>
                  \E t \in sessionDeletionFences' : x \in deleting'[t]
    BY <1>1, <2>1, <2>2, KeysHeld DEF KeyFencesInv
  <2>6. \A t, u \in Sessions : t # u => deleting'[t] \cap deleting'[u] = {}
    <3> SUFFICES ASSUME NEW t \in Sessions, NEW u \in Sessions, t # u
                 PROVE  deleting'[t] \cap deleting'[u] = {}
      OBVIOUS
    <3>1. deleting[t] \cap deleting[u] = {}
      BY DEF KeyFencesInv, KeyFencesHeldOnce
    <3> QED
      BY <2>1, <2>2, <2>3, <3>1
  <2> QED
    BY <2>4, <2>5, <2>6, KeysHeldNext DEF KeyFencesInv
<1>4. ASSUME NEW s \in Sessions, EndSessionDeletion(s)
      PROVE  KeyFencesInv'
  <2>1. /\ s \in sessionDeletionFences
        /\ sessionDeletionFences' = sessionDeletionFences \ {s}
        /\ sessionKeyDeletionFences' = sessionKeyDeletionFences \ deleting[s]
        /\ deleting' = [deleting EXCEPT ![s] = {}]
    BY <1>4 DEF EndSessionDeletion
  <2>2. /\ deleting'[s] = {}
        /\ \A t \in Sessions \ {s} : deleting'[t] = deleting[t]
    BY <1>1, <2>1
  <2>3. \A t \in Sessions \ sessionDeletionFences' : deleting'[t] = {}
    BY <2>1, <2>2 DEF KeyFencesInv
  <2>4. \A t, u \in Sessions : t # u => deleting[t] \cap deleting[u] = {}
    BY DEF KeyFencesInv, KeyFencesHeldOnce
  <2>5. \A x : x \in sessionKeyDeletionFences' <=>
                  \E t \in sessionDeletionFences' : x \in deleting'[t]
    <3>1. \A t \in sessionDeletionFences \ {s} : deleting[t] \cap deleting[s] = {}
      BY <1>1, <1>4, <2>4
    <3> QED
      BY <1>1, <2>1, <2>2, <3>1, KeysHeld DEF KeyFencesInv
  <2>6. \A t, u \in Sessions : t # u => deleting'[t] \cap deleting'[u] = {}
    BY <2>2, <2>4
  <2> QED
    BY <2>3, <2>5, <2>6, KeysHeldNext DEF KeyFencesInv
<1>5. ASSUME Next,
             ~\E s \in Sessions : \E keys \in SUBSET SessionKeys : BeginSessionDeletion(s, keys),
             ~\E s \in Sessions : EndSessionDeletion(s)
      PROVE  UNCHANGED fenceVars
  BY <1>5 DEF Next, Enqueue, EnqueuePersisting, PersistSucceeded, PersistFailed,
     ClearPendingMatching, RequestStop, CancelSucceeded, CancelFailed, DropsCancelRequest,
     HandleRuntimeEvent, SetRuntimeReady, BeginUpdate, CancelForUpdate, ReleaseUpdate
<1> QED
  BY <1>2, <1>3, <1>4, <1>5 DEF vars

\* A fenced session key is held by exactly one deletion, so that the release of
\* one deletion never lifts the fence of another.
THEOREM KeysAreFencedOnce == Spec => []KeyFencesHeldOnce
<1>1. Init => KeyFencesInv
  BY DEF Init, KeyFencesInv, KeyFencesHeldOnce
<1>2. SchedulerInv /\ KeyFencesInv /\ [Next]_vars => KeyFencesInv'
  BY NextKeepsKeyFences
<1>3. KeyFencesInv => KeyFencesHeldOnce
  BY DEF KeyFencesInv
<1> QED
  BY <1>1, <1>2, <1>3, SchedulerInvariant, PTL DEF Spec

-----------------------------------------------------------------------------
\* The server has every turn from the first reported to n.
HasTo(n) == (base + 1)..n \subseteq stored

\* The reports begin where the cursor first stood, and the server has what was confirmed.
CursorIsConfirmed ==
    /\ base = -1 <=> cursor = -1
    /\ base <= cursor
    /\ HasTo(cursor)

\* The request in flight begins behind the cursor; if it was taken, the server has it.
FlightFollowsCursor ==
    flight.at = "upload" =>
       /\ base # -1
       /\ flight.first = cursor + 1
       /\ flight.first <= flight.last
       /\ flight.batches < MaxBatches
       /\ flight.taken => flight.first..flight.last \subseteq stored

\* A request that was given up begins no later than behind what the server has.
LateLeavesNoGap ==
    \A r \in late : base # -1 /\ base < r[1] /\ r[1] <= r[2] /\ HasTo(r[1] - 1)

\* What a flight may be.
Flights ==
    [at : {"idle", "upload", "pause", "over"}, first : 0..recorded, last : 0..recorded,
     more : BOOLEAN, taken : BOOLEAN, batches : 0..MaxBatches, again : BOOLEAN]

\* The inductive invariant.
UsageInv == Usage!TypeOK /\ CursorIsConfirmed /\ FlightFollowsCursor /\ LateLeavesNoGap

-----------------------------------------------------------------------------
\* Nothing was reported.
LEMMA InitUsage ==
    ASSUME Usage!TurnUsageSyncAssumption, Usage!Init
    PROVE  UsageInv
<1>1. /\ recorded \in 0..MaxTurns /\ old \in 0..recorded /\ cursor = -1 /\ base = -1
      /\ stored = {} /\ late = {} /\ rerun = FALSE /\ backlogTimer = FALSE
      /\ service = "new" /\ stops = 0 /\ MaxBatches \in Nat /\ MaxStops \in Nat
      /\ recorded \in Nat
      /\ flight = [at |-> "idle", first |-> 0, last |-> 0, more |-> FALSE, taken |-> FALSE,
                   batches |-> 0, again |-> FALSE]
  BY DEF Usage!Init, Usage!Idle, Usage!TurnUsageSyncAssumption
<1>2. Usage!TypeOK
  <2>1. flight \in Flights
    BY <1>1 DEF Flights
  <2>2. rerun \in BOOLEAN /\ backlogTimer \in BOOLEAN
    BY <1>1
  <2>3. cursor \in -1..recorded /\ base \in -1..recorded /\ stops \in 0..MaxStops
    BY <1>1
  <2> QED
    BY <1>1, <2>1, <2>2, <2>3 DEF Usage!TypeOK, Flights
<1>3. CursorIsConfirmed /\ LateLeavesNoGap
  BY <1>1 DEF CursorIsConfirmed, LateLeavesNoGap, HasTo
<1>4. FlightFollowsCursor
  BY <1>1 DEF FlightFollowsCursor
<1> QED
  BY <1>2, <1>3, <1>4 DEF UsageInv

\* The fields of the flight.
LEMMA FlightTyped ==
    ASSUME Usage!TypeOK
    PROVE  /\ flight.at \in {"idle", "upload", "pause", "over"}
           /\ flight.first \in 0..recorded /\ flight.last \in 0..recorded
           /\ flight.more \in BOOLEAN /\ flight.taken \in BOOLEAN
           /\ flight.batches \in 0..MaxBatches /\ flight.again \in BOOLEAN
           /\ recorded \in Nat /\ cursor \in -1..recorded /\ base \in -1..recorded
BY DEF Usage!TypeOK

\* Where a batch that begins behind c ends at the latest.
LEMMA BatchBounds ==
    ASSUME NEW c \in Nat, NEW k \in Nat, NEW b \in Nat
    PROVE  Usage!Min2(c + k, b) \in Nat /\ Usage!Min2(c + k, b) <= b
BY DEF Usage!Min2

\* A number of a stretch that ends before r.
LEMMA Stretch ==
    ASSUME NEW c \in Nat, NEW e \in Nat, NEW r \in Nat, e <= r, NEW n \in (c + 1)..e
    PROVE  n \in Nat /\ c + 1 <= n /\ n <= r /\ c + 1 \in 0..r /\ n \in 0..r
OBVIOUS

\* A step that leaves the turns, the cursor and what the server has as they are, makes no
\* request, and at most gives up the one in flight.
LEMMA UsageRests ==
    ASSUME UsageInv, UNCHANGED <<recorded, old, cursor, base, stored>>,
           \/ late' \subseteq late
           \/ flight.at = "upload" /\ late' = late \cup {<<flight.first, flight.last>>},
           flight' \in Flights, flight'.at # "upload" \/ flight' = flight,
           rerun' \in BOOLEAN, backlogTimer' \in BOOLEAN,
           service' \in {"new", "running", "stopped"}, stops' \in 0..MaxStops
    PROVE  UsageInv' /\ UNCHANGED <<recorded, base, stored, cursor>>
<1>1. late' \subseteq (1..recorded) \X (1..recorded) /\ LateLeavesNoGap'
  <2>1. CASE late' \subseteq late
    BY <2>1 DEF UsageInv, Usage!TypeOK, LateLeavesNoGap, HasTo
  <2>2. CASE flight.at = "upload" /\ late' = late \cup {<<flight.first, flight.last>>}
    <3>1. /\ base # -1 /\ flight.first = cursor + 1 /\ flight.first <= flight.last
          /\ cursor # -1 /\ base <= cursor /\ HasTo(cursor)
      BY <2>2 DEF UsageInv, FlightFollowsCursor, CursorIsConfirmed
    <3>2. /\ cursor \in -1..recorded /\ base \in -1..recorded /\ recorded \in Nat
          /\ flight.first \in 0..recorded /\ flight.last \in 0..recorded
      BY FlightTyped DEF UsageInv
    <3>3. /\ flight.first \in 1..recorded /\ flight.last \in 1..recorded
          /\ base < flight.first /\ flight.first - 1 = cursor
      BY <3>1, <3>2
    <3>4. \A r \in late' : r \in late \/ r = <<flight.first, flight.last>>
      BY <2>2
    <3>5. LateLeavesNoGap'
      <4>1. ASSUME NEW r \in late'
            PROVE  base # -1 /\ base < r[1] /\ r[1] <= r[2] /\ HasTo(r[1] - 1)
        <5>1. CASE r \in late
          BY <5>1 DEF UsageInv, LateLeavesNoGap
        <5>2. CASE r = <<flight.first, flight.last>>
          BY <3>1, <3>3, <5>2
        <5> QED
          BY <3>4, <4>1, <5>1, <5>2
      <4> QED
        BY <4>1 DEF LateLeavesNoGap, HasTo
    <3>6. late' \subseteq (1..recorded) \X (1..recorded)
      BY <2>2, <3>3 DEF UsageInv, Usage!TypeOK
    <3> QED
      BY <3>5, <3>6
  <2> QED
    BY <2>1, <2>2
<1>2. Usage!TypeOK'
  BY <1>1 DEF UsageInv, Usage!TypeOK, Flights
<1>3. CursorIsConfirmed'
  BY DEF UsageInv, CursorIsConfirmed, HasTo
<1>4. FlightFollowsCursor'
  BY DEF UsageInv, FlightFollowsCursor
<1> QED
  BY <1>1, <1>2, <1>3, <1>4 DEF UsageInv

\* An export and what follows it: the reports begin, or nothing that they promise changes.
LEMMA BatchKeeps ==
    ASSUME UsageInv, Usage!TurnUsageSyncAssumption, NEW f, NEW timer \in BOOLEAN,
           Usage!Batch(f, timer),
           f \in Flights,
           f.batches < MaxBatches,
           rerun' \in BOOLEAN
    PROVE  UsageInv' /\ (Usage!Reports!Begin \/ UNCHANGED <<recorded, base, stored, cursor>>)
<1>1. /\ recorded \in Nat /\ old \in 0..recorded /\ BatchLimit \in Nat /\ MaxBatches \in Nat
      /\ cursor \in -1..recorded /\ base \in -1..recorded
      /\ service \in {"new", "running", "stopped"}
      /\ Usage!TypeOK /\ CursorIsConfirmed /\ LateLeavesNoGap
  BY DEF UsageInv, Usage!TypeOK, Usage!TurnUsageSyncAssumption
<1>2. /\ cursor' = Usage!StartingCursor
      /\ base' = IF base = -1 THEN cursor' ELSE base
      /\ UNCHANGED <<recorded, old, stored, late, service, stops>>
  BY DEF Usage!Batch, Usage!server
<1>3. \/ cursor # -1 /\ base # -1 /\ cursor' = cursor /\ base' = base
      \/ base = -1 /\ cursor = -1 /\ cursor' \in 0..recorded /\ base' = cursor'
  BY <1>1, <1>2 DEF CursorIsConfirmed, Usage!StartingCursor, Usage!Min2
<1>4. Usage!Reports!Begin \/ UNCHANGED <<recorded, base, stored, cursor>>
  BY <1>2, <1>3 DEF Usage!Reports!Begin
<1>5. /\ cursor' \in 0..recorded /\ base' \in 0..recorded /\ base' <= cursor'
  BY <1>1, <1>3 DEF CursorIsConfirmed
<1>6. CursorIsConfirmed'
  BY <1>1, <1>2, <1>3, <1>5 DEF CursorIsConfirmed, HasTo
<1>7. LateLeavesNoGap'
  BY <1>1, <1>2, <1>3 DEF LateLeavesNoGap, HasTo
<1>8. \/ flight' = Usage!Over(f)
      \/ \E last \in Usage!Sendable(cursor') :
            flight' = [f EXCEPT !.at = "upload", !.first = cursor' + 1, !.last = last,
                                !.more = last < recorded, !.taken = FALSE]
  BY DEF Usage!Batch
<1>9. backlogTimer' \in BOOLEAN
  BY DEF Usage!Batch, Usage!Backlog
<1>10. ASSUME flight' \in Flights,
              flight'.at = "upload" =>
                 /\ flight'.first = cursor' + 1 /\ flight'.first <= flight'.last
                 /\ flight'.batches < MaxBatches /\ ~flight'.taken
       PROVE  UsageInv'
  <2>1. FlightFollowsCursor'
    BY <1>1, <1>5, <1>10 DEF FlightFollowsCursor
  <2>2. Usage!TypeOK'
    BY <1>1, <1>2, <1>5, <1>9, <1>10 DEF Usage!TypeOK, Flights
  <2> QED
    BY <1>6, <1>7, <2>1, <2>2 DEF UsageInv
<1>11. CASE flight' = Usage!Over(f)
  <2>1. /\ f.again \in BOOLEAN /\ 0 \in 0..recorded /\ 0 \in 0..MaxBatches
        /\ flight' = [at |-> "over", first |-> 0, last |-> 0, more |-> FALSE, taken |-> FALSE,
                      batches |-> 0, again |-> f.again]
    <3>1. f.again \in BOOLEAN
      BY DEF Flights
    <3>2. 0 \in 0..recorded /\ 0 \in 0..MaxBatches
      BY <1>1
    <3>3. flight' = [at |-> "over", first |-> 0, last |-> 0, more |-> FALSE, taken |-> FALSE,
                     batches |-> 0, again |-> f.again]
      BY <1>11 DEF Usage!Over, Usage!Idle
    <3> QED
      BY <3>1, <3>2, <3>3
  <2>2. flight' \in Flights
    BY <2>1 DEF Flights
  <2>3. flight'.at # "upload"
    BY <2>1
  <2> QED
    BY <2>2, <2>3, <1>4, <1>10
<1>12. ASSUME NEW last \in Usage!Sendable(cursor'),
              flight' = [f EXCEPT !.at = "upload", !.first = cursor' + 1, !.last = last,
                                  !.more = last < recorded, !.taken = FALSE]
       PROVE  UsageInv'
  <2> DEFINE end == Usage!Min2(cursor' + BatchLimit, recorded)
  <2>1. end \in Nat /\ end <= recorded /\ cursor' \in Nat /\ recorded \in Nat
    <3>1. cursor' \in Nat
      BY <1>1, <1>5
    <3>2. cursor' \in Nat /\ recorded \in Nat /\ BatchLimit \in Nat
      BY <1>1, <3>1
    <3> QED
      BY <3>2, BatchBounds
  <2>2. last \in (cursor' + 1)..end
    BY DEF Usage!Sendable, Usage!Exported
  <2> HIDE DEF end
  <2>3. /\ last \in Nat /\ cursor' + 1 <= last /\ last <= recorded
        /\ cursor' + 1 \in 0..recorded /\ last \in 0..recorded
    BY <2>1, <2>2, Stretch
  <2>4. /\ flight'.at = "upload" /\ flight'.first = cursor' + 1 /\ flight'.last = last
        /\ flight'.taken = FALSE /\ flight'.batches = f.batches
    BY <1>12 DEF Flights
  <2>5. flight' \in Flights
    <3>1. (last < recorded) \in BOOLEAN
      OBVIOUS
    <3> QED
      BY <1>12, <2>3, <3>1 DEF Flights
  <2> QED
    BY <2>3, <2>4, <2>5, <1>10
<1> QED
  BY <1>4, <1>8, <1>11, <1>12

\* No flight, and a flight that is over.
LEMMA RestingFlights ==
    ASSUME UsageInv, Usage!TurnUsageSyncAssumption, NEW again \in BOOLEAN
    PROVE  /\ Usage!Idle \in Flights /\ Usage!Idle.at # "upload"
           /\ Usage!Idle.batches < MaxBatches
           /\ [Usage!Idle EXCEPT !.again = again] \in Flights
           /\ [Usage!Idle EXCEPT !.again = again].batches < MaxBatches
           /\ Usage!Over(flight) \in Flights /\ Usage!Over(flight).at # "upload"
<1>1. /\ 0 \in 0..recorded /\ 0 \in 0..MaxBatches /\ 0 < MaxBatches
      /\ flight.again \in BOOLEAN
  <2>1. recorded \in Nat /\ flight.again \in BOOLEAN
    BY FlightTyped DEF UsageInv
  <2>2. MaxBatches \in Nat \ {0}
    BY DEF Usage!TurnUsageSyncAssumption
  <2> QED
    BY <2>1, <2>2
<1>2. Usage!Idle \in Flights /\ Usage!Idle.at # "upload" /\ Usage!Idle.batches < MaxBatches
  BY <1>1 DEF Usage!Idle, Flights
<1>3. [Usage!Idle EXCEPT !.again = again] \in Flights
  BY <1>2 DEF Flights
<1>4. [Usage!Idle EXCEPT !.again = again].batches < MaxBatches
  BY <1>1 DEF Usage!Idle
<1>5. Usage!Over(flight) \in Flights /\ Usage!Over(flight).at # "upload"
  BY <1>1, <1>2 DEF Usage!Over, Usage!Idle, Flights
<1> QED
  BY <1>2, <1>3, <1>4, <1>5

\* A timer fires.
LEMMA TimersKeep ==
    ASSUME UsageInv, Usage!TurnUsageSyncAssumption, Usage!Tick \/ Usage!BacklogFires
    PROVE  UsageInv' /\ (Usage!Reports!Begin \/ UNCHANGED <<recorded, base, stored, cursor>>)
<1>1. PICK timer \in BOOLEAN : Usage!Request(timer)
  BY DEF Usage!Tick, Usage!BacklogFires, UsageInv, Usage!TypeOK
<1>2. CASE flight.at = "idle"
  <2>1. Usage!Batch(Usage!Idle, FALSE) /\ rerun' \in BOOLEAN
    BY <1>1, <1>2 DEF Usage!Request, UsageInv, Usage!TypeOK
  <2> QED
    BY <2>1, RestingFlights, BatchKeeps
<1>3. CASE flight.at # "idle"
  <2>1. /\ rerun' = TRUE /\ backlogTimer' = timer
        /\ UNCHANGED <<recorded, old, cursor, base, stored, late, flight, service, stops>>
    BY <1>1, <1>3 DEF Usage!Request, Usage!server
  <2>2. flight' \in Flights /\ rerun' \in BOOLEAN /\ backlogTimer' \in BOOLEAN
    BY <2>1 DEF UsageInv, Usage!TypeOK, Flights
  <2>3. service' \in {"new", "running", "stopped"} /\ stops' \in 0..MaxStops
    BY <2>1 DEF UsageInv, Usage!TypeOK
  <2> QED
    BY <2>1, <2>2, <2>3, UsageRests
<1> QED
  BY <1>2, <1>3

\* The server takes what the client sent, or what it gave up: what it has stays without a gap.
LEMMA ServerKeeps ==
    ASSUME UsageInv, Usage!ServerTakes \/ Usage!ServerTakesLate
    PROVE  UsageInv' /\ Usage!Reports!Report
<1>1. /\ recorded \in Nat /\ base \in -1..recorded /\ cursor \in -1..recorded
      /\ stored \subseteq 1..recorded
      /\ UNCHANGED <<recorded, old, cursor, base, rerun, backlogTimer, service, stops>>
  BY DEF UsageInv, Usage!TypeOK, Usage!ServerTakes, Usage!ServerTakesLate
<1>2. \E f, l \in 1..recorded :
         /\ stored' = stored \cup f..l
         /\ base # -1 /\ base < f /\ f <= l /\ HasTo(f - 1)
  <2>1. CASE Usage!ServerTakes
    <3>1. /\ flight.at = "upload" /\ stored' = stored \cup flight.first..flight.last
      BY <2>1 DEF Usage!ServerTakes
    <3>2. /\ base # -1 /\ flight.first = cursor + 1 /\ flight.first <= flight.last
          /\ cursor # -1 /\ base <= cursor /\ HasTo(cursor)
      BY <3>1 DEF UsageInv, FlightFollowsCursor, CursorIsConfirmed
    <3>3. flight.first \in 0..recorded /\ flight.last \in 0..recorded
      BY FlightTyped DEF UsageInv
    <3>4. /\ flight.first \in 1..recorded /\ flight.last \in 1..recorded
          /\ base < flight.first /\ flight.first - 1 = cursor
      BY <1>1, <3>2, <3>3
    <3> QED
      BY <3>1, <3>2, <3>4
  <2>2. CASE Usage!ServerTakesLate
    <3>1. PICK r \in late : stored' = stored \cup r[1]..r[2]
      BY <2>2 DEF Usage!ServerTakesLate
    <3>2. r[1] \in 1..recorded /\ r[2] \in 1..recorded
      BY DEF UsageInv, Usage!TypeOK
    <3>3. base # -1 /\ base < r[1] /\ r[1] <= r[2] /\ HasTo(r[1] - 1)
      BY DEF UsageInv, LateLeavesNoGap
    <3> QED
      BY <3>1, <3>2, <3>3
  <2> QED
    BY <2>1, <2>2
<1>3. PICK f, l \in 1..recorded :
         /\ stored' = stored \cup f..l
         /\ base # -1 /\ base < f /\ f <= l /\ HasTo(f - 1)
  BY <1>2
<1>4. f \in Nat /\ l \in Nat /\ l <= recorded /\ base \in Nat /\ 1 <= f
  BY <1>1, <1>3
<1>5. stored' = stored \cup (base + 1)..l
  <2>1. \A n \in (base + 1)..l : n \in (base + 1)..(f - 1) \/ n \in f..l
    BY <1>4
  <2>2. \A n \in f..l : n \in (base + 1)..l
    BY <1>3, <1>4
  <2> QED
    BY <1>3, <2>1, <2>2 DEF HasTo
<1>6. Usage!Reports!Report
  <2>1. l \in base..recorded
    BY <1>3, <1>4
  <2> QED
    BY <1>1, <1>3, <1>5, <2>1 DEF Usage!Reports!Report
<1>7. stored \subseteq stored' /\ stored' \subseteq 1..recorded
  <2>1. f..l \subseteq 1..recorded
    BY <1>1, <1>4
  <2> QED
    BY <1>1, <1>3, <2>1
<1>8. late' \subseteq late
  BY DEF Usage!ServerTakes, Usage!ServerTakesLate
<1>9. /\ flight' \in Flights
      /\ flight'.at = flight.at /\ flight'.first = flight.first /\ flight'.last = flight.last
      /\ flight'.batches = flight.batches
      /\ flight'.taken =>
            \/ flight.taken
            \/ flight.at = "upload" /\ flight.first..flight.last \subseteq stored'
  <2>1. flight \in Flights
    BY DEF UsageInv, Usage!TypeOK, Flights
  <2>2. \/ flight' = flight
        \/ /\ flight' = [flight EXCEPT !.taken = TRUE] /\ flight.at = "upload"
           /\ stored' = stored \cup flight.first..flight.last
    BY DEF Usage!ServerTakes, Usage!ServerTakesLate
  <2>3. CASE flight' = flight
    <3>1. flight'.taken => flight.taken
      BY <2>3, Zenon
    <3>2. /\ flight' \in Flights /\ flight'.at = flight.at /\ flight'.first = flight.first
          /\ flight'.last = flight.last /\ flight'.batches = flight.batches
      BY <2>1, <2>3, Zenon
    <3> QED
      BY <3>1, <3>2
  <2>4. CASE /\ flight' = [flight EXCEPT !.taken = TRUE] /\ flight.at = "upload"
             /\ stored' = stored \cup flight.first..flight.last
    <3>1. flight' \in Flights
      BY <2>1, <2>4 DEF Flights
    <3>2. /\ flight'.at = flight.at /\ flight'.first = flight.first
          /\ flight'.last = flight.last /\ flight'.batches = flight.batches
      BY <2>1, <2>4 DEF Flights
    <3>3. flight.at = "upload" /\ flight.first..flight.last \subseteq stored'
      BY <2>4
    <3> QED
      BY <3>1, <3>2, <3>3
  <2> QED
    BY <2>2, <2>3, <2>4
<1>10. Usage!TypeOK'
  BY <1>1, <1>7, <1>8, <1>9 DEF UsageInv, Usage!TypeOK, Flights
<1>11. CursorIsConfirmed' /\ LateLeavesNoGap'
  BY <1>1, <1>7, <1>8 DEF UsageInv, CursorIsConfirmed, LateLeavesNoGap, HasTo
<1>12. FlightFollowsCursor'
  <2>1. ASSUME flight'.at = "upload"
        PROVE  /\ base # -1 /\ flight'.first = cursor + 1 /\ flight'.first <= flight'.last
               /\ flight'.batches < MaxBatches
               /\ flight'.taken => flight'.first..flight'.last \subseteq stored'
    BY <1>7, <1>9, <2>1 DEF UsageInv, FlightFollowsCursor
  <2> QED
    BY <1>1, <2>1 DEF FlightFollowsCursor
<1> QED
  BY <1>6, <1>10, <1>11, <1>12 DEF UsageInv

\* The cursor moves to what the server has taken.
LEMMA AcknowledgedKeeps ==
    ASSUME UsageInv, Usage!TurnUsageSyncAssumption, Usage!Acknowledged
    PROVE  UsageInv' /\ Usage!Reports!Confirm
<1>1. /\ recorded \in Nat /\ base \in -1..recorded /\ cursor \in -1..recorded
      /\ flight.first \in 0..recorded /\ flight.last \in 0..recorded
      /\ flight.batches \in 0..MaxBatches /\ MaxBatches \in Nat
  BY FlightTyped DEF UsageInv, Usage!TurnUsageSyncAssumption
<1>2. /\ flight.at = "upload" /\ flight.taken /\ cursor' = Usage!Max2(cursor, flight.last)
      /\ UNCHANGED <<recorded, old, base, stored, late, rerun, backlogTimer, service, stops>>
  BY DEF Usage!Acknowledged, Usage!server
<1>3. /\ base # -1 /\ flight.first = cursor + 1 /\ flight.first <= flight.last
      /\ flight.first..flight.last \subseteq stored /\ flight.batches < MaxBatches
      /\ cursor # -1 /\ base <= cursor /\ HasTo(cursor)
  BY <1>2 DEF UsageInv, FlightFollowsCursor, CursorIsConfirmed
<1>4. /\ cursor' = flight.last /\ cursor' \in 0..recorded /\ cursor < cursor' /\ base <= cursor'
  BY <1>1, <1>2, <1>3 DEF Usage!Max2
<1>5. HasTo(flight.last)
  <2>1. \A n \in (base + 1)..flight.last :
           n \in (base + 1)..cursor \/ n \in flight.first..flight.last
    BY <1>1, <1>3
  <2> QED
    BY <1>3, <2>1 DEF HasTo
<1>6. Usage!Reports!Confirm
  <2>1. flight.last \in stored
    BY <1>1, <1>3
  <2> QED
    BY <1>2, <1>4, <1>5, <2>1 DEF Usage!Reports!Confirm, HasTo
<1>7. flight' \in Flights /\ flight'.at # "upload"
  <2>1. flight \in Flights
    BY DEF UsageInv, Usage!TypeOK, Flights
  <2>2. CASE flight' = Usage!Over(flight)
    BY <2>2, RestingFlights
  <2>3. CASE flight' = [flight EXCEPT !.at = "pause", !.batches = @ + 1]
    <3>1. flight.batches + 1 \in 0..MaxBatches
      BY <1>1, <1>3
    <3> QED
      BY <2>1, <2>3, <3>1 DEF Flights
  <2> QED
    BY <2>2, <2>3 DEF Usage!Acknowledged
<1>8. Usage!TypeOK'
  BY <1>2, <1>4, <1>7 DEF UsageInv, Usage!TypeOK, Flights
<1>9. CursorIsConfirmed'
  BY <1>1, <1>2, <1>3, <1>4, <1>5 DEF CursorIsConfirmed, HasTo
<1>10. LateLeavesNoGap' /\ FlightFollowsCursor'
  BY <1>2, <1>7 DEF UsageInv, LateLeavesNoGap, HasTo, FlightFollowsCursor
<1> QED
  BY <1>6, <1>8, <1>9, <1>10 DEF UsageInv

\* A turn is recorded, or grows old.
LEMMA RecordsKeep ==
    ASSUME UsageInv, Usage!TurnUsageSyncAssumption, Usage!RecordTurn \/ Usage!Age
    PROVE  UsageInv' /\ (Usage!Reports!Record \/ UNCHANGED <<recorded, base, stored, cursor>>)
<1>1. /\ recorded \in 0..MaxTurns /\ old \in 0..recorded /\ MaxTurns \in Nat /\ recorded \in Nat
      /\ cursor \in -1..recorded /\ base \in -1..recorded
  BY DEF UsageInv, Usage!TypeOK, Usage!TurnUsageSyncAssumption
<1>2. UNCHANGED <<cursor, base, stored, late, flight, rerun, backlogTimer, service, stops>>
  BY DEF Usage!RecordTurn, Usage!Age, Usage!server
<1>3. /\ recorded' \in 0..MaxTurns /\ old' \in 0..recorded' /\ recorded' \in Nat
      /\ recorded <= recorded'
  BY <1>1 DEF Usage!RecordTurn, Usage!Age
<1>4. Usage!Reports!Record \/ UNCHANGED <<recorded, base, stored, cursor>>
  BY <1>2 DEF Usage!RecordTurn, Usage!Age, Usage!Reports!Record
<1>5. /\ 0..recorded \subseteq 0..recorded' /\ 1..recorded \subseteq 1..recorded'
      /\ -1..recorded \subseteq -1..recorded'
  BY <1>1, <1>3
<1>6. flight \in Flights'
  <2>1. flight \in Flights
    BY DEF UsageInv, Usage!TypeOK, Flights
  <2> QED
    BY <1>5, <2>1 DEF Flights
<1>7. Usage!TypeOK'
  <2>1. /\ stored \subseteq 1..recorded' /\ late \subseteq (1..recorded') \X (1..recorded')
        /\ cursor \in -1..recorded' /\ base \in -1..recorded'
    BY <1>1, <1>5 DEF UsageInv, Usage!TypeOK
  <2> QED
    BY <1>2, <1>3, <1>6, <2>1 DEF UsageInv, Usage!TypeOK, Flights
<1>8. CursorIsConfirmed' /\ LateLeavesNoGap' /\ FlightFollowsCursor'
  BY <1>2 DEF UsageInv, CursorIsConfirmed, LateLeavesNoGap, HasTo, FlightFollowsCursor
<1> QED
  BY <1>4, <1>7, <1>8 DEF UsageInv

\* What ends a flight, or the process, or starts it.
LEMMA EndingsKeep ==
    ASSUME UsageInv, Usage!TurnUsageSyncAssumption,
           Usage!Start \/ Usage!UploadFails \/ Usage!Stop \/ Usage!Exit
    PROVE  UsageInv' /\ UNCHANGED <<recorded, base, stored, cursor>>
<1>1. UNCHANGED <<recorded, old, cursor, base, stored>>
  BY DEF Usage!Start, Usage!UploadFails, Usage!Stop, Usage!Exit, Usage!GiveUp, Usage!server
<1>2. \/ late' \subseteq late
      \/ flight.at = "upload" /\ late' = late \cup {<<flight.first, flight.last>>}
  BY DEF Usage!Start, Usage!UploadFails, Usage!Stop, Usage!Exit, Usage!GiveUp, Usage!server
<1>3. flight' \in Flights /\ (flight'.at # "upload" \/ flight' = flight)
  <2>1. flight \in Flights
    BY DEF UsageInv, Usage!TypeOK, Flights
  <2>2. flight' \in {flight, Usage!Idle,
  Usage!Over(flight)} /\ (flight' = flight => flight' = flight)
    BY DEF Usage!Start, Usage!UploadFails, Usage!Stop, Usage!Exit, Usage!server
  <2> QED
    BY <2>1, <2>2, RestingFlights
<1>4. rerun' \in BOOLEAN /\ service' \in {"new", "running", "stopped"}
  BY DEF Usage!Start, Usage!UploadFails, Usage!Stop, Usage!Exit, UsageInv, Usage!TypeOK
<1>5. backlogTimer' \in BOOLEAN
  BY DEF Usage!Start, Usage!UploadFails, Usage!Stop, Usage!Exit, UsageInv, Usage!TypeOK,
     Usage!Backlog
<1>6. stops' \in 0..MaxStops
  <2>1. stops \in 0..MaxStops /\ MaxStops \in Nat
    BY DEF UsageInv, Usage!TypeOK, Usage!TurnUsageSyncAssumption
  <2>2. stops' = stops \/ (stops < MaxStops /\ stops' = stops + 1)
    BY DEF Usage!Start, Usage!UploadFails, Usage!Stop, Usage!Exit
  <2> QED
    BY <2>1, <2>2
<1> QED
  BY <1>1, <1>2, <1>3, <1>4, <1>5, <1>6, UsageRests

\* The next batch of a run, and the end of a run.
LEMMA RunsKeep ==
    ASSUME UsageInv, Usage!TurnUsageSyncAssumption, Usage!NextBatch \/ Usage!RunEnds
    PROVE  UsageInv' /\ (Usage!Reports!Begin \/ UNCHANGED <<recorded, base, stored, cursor>>)
<1>1. /\ flight \in Flights /\ rerun \in BOOLEAN /\ backlogTimer \in BOOLEAN
      /\ service \in {"new", "running", "stopped"} /\ stops \in 0..MaxStops
  BY DEF UsageInv, Usage!TypeOK, Flights
<1>2. CASE Usage!NextBatch /\ flight.batches < MaxBatches
  <2>1. Usage!Batch(flight, backlogTimer) /\ rerun' \in BOOLEAN
    BY <1>1, <1>2 DEF Usage!NextBatch
  <2> QED
    BY <1>1, <1>2, <2>1, BatchKeeps
<1>3. CASE Usage!NextBatch /\ ~(flight.batches < MaxBatches)
  <2>1. /\ flight' = Usage!Over(flight) /\ rerun' = rerun
        /\ backlogTimer' = Usage!Backlog(backlogTimer)
        /\ UNCHANGED <<recorded, old, cursor, base, stored, late, service, stops>>
    BY <1>3 DEF Usage!NextBatch, Usage!server
  <2>2. flight' \in Flights /\ flight'.at # "upload"
    BY <2>1, RestingFlights
  <2>3. backlogTimer' \in BOOLEAN
    BY <2>1 DEF Usage!Backlog
  <2>4. rerun' \in BOOLEAN /\ service' \in {"new", "running", "stopped"} /\ stops' \in 0..MaxStops
    BY <1>1, <2>1
  <2> QED
    BY <2>1, <2>2, <2>3, <2>4, UsageRests
<1>4. CASE Usage!RunEnds /\ service = "running" /\ rerun /\ ~flight.again
  <2>1. Usage!Batch([Usage!Idle EXCEPT !.again = TRUE], FALSE) /\ rerun' = FALSE
    BY <1>4 DEF Usage!RunEnds
  <2>2. /\ [Usage!Idle EXCEPT !.again = TRUE] \in Flights
        /\ [Usage!Idle EXCEPT !.again = TRUE].batches < MaxBatches
    BY RestingFlights
  <2>3. rerun' \in BOOLEAN
    BY <2>1
  <2> QED
    BY <2>1, <2>2, <2>3, BatchKeeps
<1>5. CASE Usage!RunEnds /\ ~(service = "running" /\ rerun /\ ~flight.again)
  <2>1. /\ flight' = Usage!Idle /\ rerun' = FALSE
        /\ UNCHANGED <<recorded, old, cursor, base, stored, late, backlogTimer, service, stops>>
    BY <1>5 DEF Usage!RunEnds, Usage!server
  <2>2. flight' \in Flights /\ flight'.at # "upload"
    BY <2>1, RestingFlights
  <2>3. rerun' \in BOOLEAN /\ backlogTimer' \in BOOLEAN
    BY <1>1, <2>1
  <2>4. service' \in {"new", "running", "stopped"} /\ stops' \in 0..MaxStops
    BY <1>1, <2>1
  <2> QED
    BY <2>1, <2>2, <2>3, <2>4, UsageRests
<1> QED
  BY <1>2, <1>3, <1>4, <1>5

\* Every step keeps the invariant, and is a step of TurnReports or none.
LEMMA NextKeepsUsage ==
    ASSUME UsageInv, Usage!TurnUsageSyncAssumption, [Usage!Next]_(Usage!vars)
    PROVE  UsageInv' /\ [Usage!Reports!Next]_(Usage!Reports!vars)
<1>1. CASE UNCHANGED Usage!vars
  <2>1. UNCHANGED <<recorded, old, cursor, base, stored, late, flight, rerun, backlogTimer,
                    service, stops>>
    BY <1>1 DEF Usage!vars, Usage!server
  <2>2. UsageInv'
    BY <2>1 DEF UsageInv, Usage!TypeOK, CursorIsConfirmed, FlightFollowsCursor, LateLeavesNoGap,
       HasTo
  <2> QED
    BY <2>1, <2>2 DEF Usage!Reports!vars
<1>2. CASE Usage!Next
  <2>1. UsageInv' /\ (Usage!Reports!Next \/ UNCHANGED <<recorded, base, stored, cursor>>)
    BY <1>2, RecordsKeep, TimersKeep, ServerKeeps, AcknowledgedKeeps, EndingsKeep, RunsKeep
       DEF Usage!Next, Usage!Reports!Next
  <2> QED
    BY <2>1 DEF Usage!Reports!vars
<1> QED
  BY <1>1, <1>2

-----------------------------------------------------------------------------
(* The theorems *)

\* The inductive invariant holds: among it that the server has all that was confirmed.
THEOREM UsageInvariant == ASSUME Usage!TurnUsageSyncAssumption PROVE Usage!Spec => []UsageInv
<1>1. Usage!Init => UsageInv
  BY InitUsage
<1>2. UsageInv /\ [Usage!Next]_(Usage!vars) => UsageInv'
  BY NextKeepsUsage
<1> QED
  BY <1>1, <1>2, PTL DEF Usage!Spec

\* However the uploads fail, are repeated or are taken late, and wherever the process ends,
\* the server gets the turns in order and without a gap, and the cursor follows it.
THEOREM UsageIsReported ==
    ASSUME Usage!TurnUsageSyncAssumption
    PROVE  Usage!Spec => Usage!ImplementsTurnReports
<1>1. Usage!Init => Usage!Reports!Init
  BY DEF Usage!Init, Usage!Reports!Init
<1>2. UsageInv /\ [Usage!Next]_(Usage!vars) => [Usage!Reports!Next]_(Usage!Reports!vars)
  BY NextKeepsUsage
<1> QED
  BY <1>1, <1>2, UsageInvariant, PTL DEF Usage!Spec, Usage!Reports!Spec, Usage!ImplementsTurnReports
=============================================================================
