--------------------------- MODULE CodingProcesses ---------------------------
(***************************************************************************)
(* The commands of one session: the calls of exec that start them, one at  *)
(* a time and within a capacity, the calls of wait that observe or end     *)
(* them, the pumps of their output, the updates a window gets, and the     *)
(* closing of the session or of the runtime.                               *)
(*                                                                         *)
(* Output is counted in chunks.  A command that was told to terminate dies *)
(* in the end: terminate() of the shell goes from signals to kills.        *)
(***************************************************************************)
EXTENDS Integers, Sequences, SequencesExt

CONSTANTS
    Execs,           \* calls of exec, each with the command it starts
    Waits,           \* calls of wait
    MaxRecords,      \* MAX_EXEC_RECORDS_PER_SESSION
    ProtectedRecent, \* PROTECTED_RECENT_EXEC_RECORDS
    MaxChunks,       \* bound: chunks a command writes
    Watched,         \* whether onUpdate is set
    NoExec

VARIABLES
    exec,       \* where each execute() stands
    admission,  \* admissionTails: the calls that hold or wait for the admission
    victim,     \* the record enforceCapacity() removes once its command has ended
    child,      \* the command: alive, exited (its output is drained) or ended
    cause,      \* terminalCause
    entries,    \* entries, from the least recent to the most recent
    output,     \* chunks written, chunks captured, acceptingOutput, outputIncomplete
    told,       \* finalObserved
    wait,       \* where each wait() stands, on which command, and whether it terminates it
    lock,       \* observationLocked and observationQueue: the holder and who is behind it
    update,     \* updateDirty, updateSending, updateTimer, and what the window was sent
    closing     \* terminateSession() or stop(): what it still waits for

execVars == <<exec, admission, victim>>
childVars == <<child, cause, output>>
waitVars == <<told, wait, lock>>
vars == <<execVars, childVars, entries, waitVars, update, closing>>

-----------------------------------------------------------------------------
ExecStates == {"none", "queued", "preparing", "observing", "running", "ended", "failed"}
WaitStates == {"none", "queued", "observing", "running", "ended", "refused"}

\* How often the snapshot of a command has changed: revision.
RevisionOf(o, c) == o.captured + (IF c = "ended" THEN 1 ELSE 0)
Revision(e) == RevisionOf(output[e], child[e])

Init ==
    /\ exec = [e \in Execs |-> "none"] /\ admission = <<>> /\ victim = NoExec
    /\ child = [e \in Execs |-> "none"] /\ cause = [e \in Execs |-> "none"]
    /\ entries = <<>>
    /\ output = [e \in Execs |->
                   [written |-> 0, captured |-> 0, accepting |-> TRUE, incomplete |-> FALSE]]
    /\ told = [e \in Execs |-> FALSE]
    /\ wait = [w \in Waits |-> [state |-> "none", on |-> NoExec, terminate |-> FALSE]]
    /\ lock = [e \in Execs |-> <<>>]
    /\ update = [e \in Execs |->
                   [dirty |-> FALSE, sending |-> 0, timer |-> FALSE, shown |-> 0]]
    /\ closing = [state |-> "open", after |-> NoExec, killed |-> {}]

\* Fault: the session is closed when everything of it is known to have ended.
ClosedAtLast == closing.state = "closed"

Closed == closing.state # "open"

Live == {e \in Execs : child[e] \in {"alive", "exited"}}

\* requestTermination(): not of a command that has exited by itself.
Terminated(es) ==
    [e \in Execs |-> IF e \in es /\ cause[e] = "none" THEN "terminated" ELSE cause[e]]

\* flushUpdate(): one update under way, and not more than one per interval before the end.
Sent(e, rev) == [dirty |-> FALSE, sending |-> rev, timer |-> FALSE, shown |-> update[e].shown]
Flushed(u, e, rev, ended) ==
    IF ~u.dirty \/ u.sending > 0 \/ u.timer THEN {u}
    ELSE {Sent(e, rev)} \cup (IF u.shown = 0 \/ ended THEN {} ELSE {[u EXCEPT !.timer = TRUE]})

\* queueUpdate(): the end clears the timer.
Queued(e, rev, ended) ==
    IF ~Watched THEN {update[e]} ELSE
    Flushed([update[e] EXCEPT !.dirty = TRUE, !.timer = @ /\ ~ended], e, rev, ended)

-----------------------------------------------------------------------------
\* execute(), withAdmission(): one call of the session at a time is let in.
Execute(e) ==
    /\ exec[e] = "none"
    /\ exec' = [exec EXCEPT ![e] = "queued"]
    /\ admission' = Append(admission, e)
    /\ UNCHANGED <<victim, childVars, entries, waitVars, update, closing>>

LeaveAdmission == admission' = Tail(admission)

\* The candidates are those that are not the most recent; ended ones go first.
Victims ==
    LET candidates == SubSeq(entries, 1, Len(entries) - ProtectedRecent)
        ended == SelectSeq(candidates, LAMBDA e : child[e] = "ended")
    IN  IF ended # <<>> THEN ended ELSE candidates

\* enforceCapacity(): a victim that runs is killed, and its end awaited.
ChooseVictim(e) ==
    /\ admission # <<>> /\ Head(admission) = e
    /\ exec[e] = "queued" /\ victim = NoExec /\ Len(entries) >= MaxRecords
    /\ IF Victims = <<>>
       THEN exec' = [exec EXCEPT ![e] = "failed"] /\ LeaveAdmission /\ UNCHANGED <<victim, cause>>
       ELSE victim' = Head(Victims) /\ cause' = Terminated({victim'}) /\ UNCHANGED <<exec, admission>>
    /\ UNCHANGED <<child, output, entries, waitVars, update, closing>>

RemoveVictim ==
    /\ victim # NoExec /\ child[victim] = "ended"
    /\ entries' = Remove(entries, victim) /\ victim' = NoExec
    /\ UNCHANGED <<exec, admission, childVars, waitVars, update, closing>>

Fails(e) ==
    /\ exec' = [exec EXCEPT ![e] = "failed"] /\ LeaveAdmission
    /\ UNCHANGED <<victim, childVars, entries, waitVars, update, closing>>

\* spawnEntry(): nothing is prepared in a session that was closed.
Prepare(e) ==
    /\ admission # <<>> /\ Head(admission) = e
    /\ exec[e] = "queued" /\ victim = NoExec /\ Len(entries) < MaxRecords
    /\ IF Closed THEN Fails(e)
       ELSE /\ exec' = [exec EXCEPT ![e] = "preparing"]
            /\ UNCHANGED <<admission, victim, childVars, entries, waitVars, update, closing>>

Spawned(e) ==
    /\ exec' = [exec EXCEPT ![e] = "observing"] /\ LeaveAdmission
    /\ child' = [child EXCEPT ![e] = "alive"]
    /\ entries' = Append(entries, e)
    /\ UNCHANGED <<victim, cause, output, waitVars, update, closing>>

\* The session is looked at again after the preparation; spawning may fail.
Spawn(e) == exec[e] = "preparing" /\ (Fails(e) \/ (~Closed /\ Spawned(e)))

\* The observation of exec is over, by time, an abort or the end.
ExecuteReturns(e) ==
    /\ exec[e] = "observing"
    /\ exec' = [exec EXCEPT ![e] = IF child[e] = "ended" THEN "ended" ELSE "running"]
    /\ told' = [told EXCEPT ![e] = child[e] = "ended"]
    /\ UNCHANGED <<admission, victim, childVars, entries, wait, lock, update, closing>>

-----------------------------------------------------------------------------
\* A command, or a descendant that has its pipes, writes.
Write(e) ==
    /\ child[e] \in {"alive", "exited"} /\ output[e].written < MaxChunks
    /\ output' = [output EXCEPT ![e].written = @ + 1]
    /\ UNCHANGED <<execVars, child, cause, entries, waitVars, update, closing>>

Pump(e) ==
    /\ output[e].captured < output[e].written /\ output[e].accepting
    /\ output' = [output EXCEPT ![e].captured = @ + 1]
    /\ \E u \in Queued(e, Revision(e) + 1, FALSE) : update' = [update EXCEPT ![e] = u]
    /\ UNCHANGED <<execVars, child, cause, entries, waitVars, closing>>

\* child.exited
Exit(e) ==
    /\ child[e] = "alive"
    /\ child' = [child EXCEPT ![e] = "exited"]
    /\ cause' = [cause EXCEPT ![e] = IF @ = "none" THEN "natural" ELSE @]
    /\ UNCHANGED <<execVars, output, entries, waitVars, update, closing>>

Ended(e, incomplete) ==
    /\ child' = [child EXCEPT ![e] = "ended"]
    /\ output' = [output EXCEPT ![e].accepting = FALSE, ![e].incomplete = incomplete]
    /\ \E u \in Queued(e, output[e].captured + 1, TRUE) : update' = [update EXCEPT ![e] = u]
    /\ UNCHANGED <<execVars, cause, entries, waitVars, closing>>

\* drainOutput(): the pipes are read to their end, or a deadline or an error ends that.
Drain(e) ==
    /\ child[e] = "exited"
    /\ \E incomplete \in BOOLEAN :
         /\ incomplete \/ output[e].captured = output[e].written
         /\ Ended(e, incomplete)

\* Fault: what changed while an update was under way is forgotten.
UpdateForgets(e) ==
    /\ update[e].sending > 0
    /\ update' = [update EXCEPT ![e].sending = 0, ![e].shown = update[e].sending]
    /\ UNCHANGED <<execVars, childVars, entries, waitVars, closing>>

\* The update that was sent is answered, or fails; what changed meanwhile is sent next.
UpdateEnds(e) ==
    /\ update[e].sending > 0
    /\ LET u == [update[e] EXCEPT !.sending = 0, !.shown = update[e].sending]
           next == IF u.dirty THEN {[Sent(e, Revision(e)) EXCEPT !.shown = u.shown]}
                                  \cup (IF child[e] = "ended" THEN {}
                                        ELSE {[u EXCEPT !.timer = TRUE]})
                   ELSE {u}
       IN  \E n \in next : update' = [update EXCEPT ![e] = n]
    /\ UNCHANGED <<execVars, childVars, entries, waitVars, closing>>

UpdateTimer(e) ==
    /\ update[e].timer
    /\ update' = [update EXCEPT ![e] = Sent(e, Revision(e))]
    /\ UNCHANGED <<execVars, childVars, entries, waitVars, closing>>

-----------------------------------------------------------------------------
\* acquireObservation(): calls that terminate go before those that do not, and behind
\* the one that observes.
Behind(q, w) ==
    LET ordinary == {n \in 2..Len(q) : ~wait[q[n]].terminate}
        place == IF ordinary = {} THEN Len(q) + 1
                 ELSE CHOOSE n \in ordinary : \A m \in ordinary : n <= m
    IN  InsertAt(q, place, w)

\* wait(): a command that is unknown, or whose end was told, is refused.
Wait(w, e, terminate) ==
    /\ wait[w].state = "none" /\ exec[e] \in {"running", "ended"}
    /\ IF ~Contains(entries, e) \/ told[e]
       THEN /\ wait' = [wait EXCEPT ![w] = [state |-> "refused", on |-> e,
                                            terminate |-> terminate]]
            /\ UNCHANGED <<cause, lock>>
       ELSE /\ wait' = [wait EXCEPT ![w] = [state |-> "queued", on |-> e,
                                            terminate |-> terminate]]
            /\ cause' = IF terminate /\ child[e] # "ended" THEN Terminated({e}) ELSE cause
            /\ lock' = [lock EXCEPT ![e] = IF terminate THEN Behind(@, w) ELSE Append(@, w)]
    /\ UNCHANGED <<execVars, child, output, entries, told, update, closing>>

Leave(w, e, state) ==
    /\ wait' = [wait EXCEPT ![w].state = state]
    /\ lock' = [lock EXCEPT ![e] = Tail(@)]

\* The lock is held: who does not terminate is refused when the end was told meanwhile.
Observe(w) ==
    LET e == wait[w].on
    IN  /\ wait[w].state = "queued" /\ Head(lock[e]) = w
        /\ IF told[e] /\ ~wait[w].terminate
           THEN Leave(w, e, "refused") /\ UNCHANGED entries
           ELSE /\ wait' = [wait EXCEPT ![w].state = "observing"]
                /\ entries' = IF Contains(entries, e) THEN Append(Remove(entries, e), e)
                              ELSE entries
                /\ UNCHANGED lock
        /\ UNCHANGED <<execVars, childVars, told, update, closing>>

\* The observation is over: at the end, or by time or an abort if it does not terminate.
WaitReturns(w) ==
    LET e == wait[w].on
    IN  /\ wait[w].state = "observing"
        /\ wait[w].terminate => child[e] = "ended"
        /\ Leave(w, e, IF child[e] = "ended" THEN "ended" ELSE "running")
        /\ told' = [told EXCEPT ![e] = @ \/ child[e] = "ended"]
        /\ UNCHANGED <<execVars, childVars, entries, update, closing>>

-----------------------------------------------------------------------------
\* terminateSession(), stop(): closed at once; the calls that were let in are awaited.
Close ==
    /\ closing.state = "open"
    /\ closing' = [state |-> "admitted", killed |-> {},
                   after |-> IF admission = <<>> THEN NoExec ELSE admission[Len(admission)]]
    /\ UNCHANGED <<execVars, childVars, entries, waitVars, update>>

CloseKills ==
    /\ closing.state = "admitted" /\ ~Contains(admission, closing.after)
    /\ LET live == {e \in ToSet(entries) : child[e] # "ended"}
       IN  cause' = Terminated(live) /\ closing' = [closing EXCEPT !.state = "killing",
                                                                  !.killed = live]
    /\ UNCHANGED <<execVars, child, output, entries, waitVars, update>>

CloseEnds ==
    /\ closing.state = "killing" /\ \A e \in closing.killed : child[e] = "ended"
    /\ closing' = [closing EXCEPT !.state = "closed"]
    /\ UNCHANGED <<execVars, childVars, entries, waitVars, update>>

Next ==
    \/ \E e \in Execs :
         \/ Execute(e) \/ ChooseVictim(e) \/ Prepare(e) \/ Spawn(e) \/ ExecuteReturns(e)
         \/ Write(e) \/ Pump(e) \/ Exit(e) \/ Drain(e)
         \/ UpdateEnds(e) \/ UpdateTimer(e)
    \/ \E w \in Waits, e \in Execs, terminate \in BOOLEAN : Wait(w, e, terminate)
    \/ \E w \in Waits : Observe(w) \/ WaitReturns(w)
    \/ RemoveVictim \/ Close \/ CloseKills \/ CloseEnds

Spec == Init /\ [][Next]_vars

-----------------------------------------------------------------------------
TypeOK ==
    /\ exec \in [Execs -> ExecStates]
    /\ ToSet(admission) \subseteq Execs /\ victim \in Execs \cup {NoExec}
    /\ child \in [Execs -> {"none", "alive", "exited", "ended"}]
    /\ cause \in [Execs -> {"none", "natural", "terminated"}]
    /\ ToSet(entries) \subseteq Execs /\ Len(entries) <= MaxRecords
    /\ told \in [Execs -> BOOLEAN]
    /\ \A w \in Waits : wait[w].state \in WaitStates /\ wait[w].on \in Execs \cup {NoExec}
    /\ \A e \in Execs : ToSet(lock[e]) \subseteq Waits
    /\ closing.state \in {"open", "admitted", "killing", "closed"}

\* When terminateSession() or stop() returns, no command of the session runs, and none
\* does later: what was let in before is known to them, and nothing is let in after.
NoneAfterClose == closing.state = "closed" => Live = {}

\* A command that runs has a record, by which it can be found, waited for and killed.
LiveAreRecorded == \A e \in Live : Contains(entries, e)

\* An end is told with all the output there was, or with the word that it is incomplete.
EndsAreComplete ==
    \A e \in Execs : child[e] = "ended" /\ ~output[e].incomplete =>
      output[e].captured = output[e].written

\* At rest the window was sent the last revision of every command (queueUpdate).
UpdatesSettle ==
    Watched => \A e \in Execs : update[e].sending = 0 /\ ~update[e].timer =>
      update[e].shown = Revision(e)

Owned == NoneAfterClose /\ LiveAreRecorded

\* The end of a command is told once to those who did not ask for it: after that, only a
\* call that terminates the command, made before, is answered.
EndsAreToldOnce ==
    \A w \in Waits : wait'[w].state = "ended" /\ wait[w].state # "ended" =>
      ~told[wait[w].on] \/ wait[w].terminate

=============================================================================
