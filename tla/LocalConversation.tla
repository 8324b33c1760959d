-------------------------- MODULE LocalConversation --------------------------
(***************************************************************************)
(* The messages the window and the automations submit to one session: the  *)
(* steps of send() between its awaits, what the conversation keeps of each *)
(* turn from the scheduler's events, stop() with its wait for the agent,   *)
(* and a deletion of the session that overlaps them.  The scheduler also   *)
(* holds the jobs of channels, of which the conversation knows nothing.    *)
(*                                                                         *)
(* Texts, attachments and times are left out; the answer of a turn is in   *)
(* LiveAnswer.  A message without a session makes one nobody else knows,   *)
(* so that only messages to a session that exists are here.                *)
(***************************************************************************)
EXTENDS Integers, Sequences, SequencesExt, FiniteSets

CONSTANTS
    Turns,       \* messages of the window and runs of automations, by turn_id
    Plans,       \* the automations' runs among them
    Others,      \* jobs of channels, wakes and requeued steering
    None,
    MaxFaults    \* bound: calls that fail, and agents that go down

LocalConversationAssumption ==
    /\ Plans \subseteq Turns /\ Turns \cap Others = {} /\ None \notin Turns \cup Others

VARIABLES
    session,     \* the session in the store: precreated and blank, used, or gone
    deletion,    \* sessions.delete, whose fence is up from "asked" to its end
    update,      \* updateFenced
    ready,       \* runtimeReady
    send,        \* where send() is for each turn; blank: what it read of the session
    queue,       \* the scheduler's pending jobs
    run,         \* its active run: the job, and what its handle says of a stop
    asks,        \* runs whose cancelTurn() is under way
    waits,       \* calls that await one: the run, and who stops it
    conv,        \* turns with their states, active, queued and latest turn; suspended;
                 \* heard: bookkeeping, the last thing the user asked of the session
    faults

scheduler == <<queue, run, asks>>
vars == <<session, deletion, update, ready, send, scheduler, waits, conv, faults>>

Idle == [job |-> None, stop |-> "no"]
Ended == {"completed", "cancelled", "error"}

Init ==
    /\ session \in {"blank", "used"} /\ deletion = "idle" /\ update = FALSE /\ ready = TRUE
    /\ send = [t \in Turns |-> [at |-> "none", blank |-> FALSE]]
    /\ queue = <<>> /\ run = Idle /\ asks = {} /\ waits = {}
    /\ conv = [turns |-> [t \in Turns |-> "none"], active |-> None, queued |-> <<>>,
               latest |-> None, suspended |-> FALSE, heard |-> "nothing"]
    /\ faults = 0

Fault == faults < MaxFaults /\ faults' = faults + 1

Fenced == deletion \in {"asked", "handled"}
Admitting == {t \in Turns : send[t].at = "admitting"}
Inflight(admissions) == admissions # {} \/ run # Idle \/ queue # <<>>

Without(s, j) == SelectSeq(s, LAMBDA x : x # j)

-----------------------------------------------------------------------------
(* handleSchedulerEvent(), for the jobs the conversation keeps.            *)

Kept(c, j) == j \in Turns /\ c.turns[j] # "none"

Says(c, j, state) == IF Kept(c, j) THEN [c EXCEPT !.turns[j] = state] ELSE c

\* resumeAutonomy(), for something the user wants done.
Resumes(c) == [c EXCEPT !.suspended = FALSE,
                        !.heard = IF waits = {} THEN "message" ELSE "overtaken"]

Starts(c, j) ==
    IF ~Kept(c, j) THEN c
    ELSE [(IF j \in Plans THEN Resumes(c) ELSE c) EXCEPT
             !.turns[j] = "running", !.queued = Without(@, j), !.active = j]

\* The turn that was the latest one until now is given up.
ClearLatest(c) ==
    IF c.latest = None THEN c
    ELSE [c EXCEPT !.turns[c.latest] = "none", !.latest = None]

Settles(c, j, state) ==
    IF ~Kept(c, j) THEN c
    ELSE [ClearLatest(IF c.latest = j THEN [c EXCEPT !.latest = None] ELSE c) EXCEPT
             !.turns[j] = state, !.queued = Without(@, j),
             !.active = IF @ = j THEN None ELSE @, !.latest = j]

RemoveTurn(c, t) == [c EXCEPT !.turns[t] = "none", !.queued = Without(@, t)]

-----------------------------------------------------------------------------
(* The scheduler.                                                          *)

\* drain(), after a step that leaves no run, the queue q and the conversation c.
Drains(c, q, up, fenced) ==
    IF up /\ ~fenced /\ q # <<>>
    THEN /\ run' = [job |-> Head(q), stop |-> "no"] /\ queue' = Tail(q)
         /\ conv' = Starts(c, Head(q))
    ELSE run' = Idle /\ queue' = q /\ conv' = c

Enqueues(c, j) ==
    IF run = Idle THEN Drains(c, Append(queue, j), ready, update)
    ELSE queue' = Append(queue, j) /\ conv' = c /\ UNCHANGED run

\* handleRuntimeEvent(): the run is over, and steering it has not handled goes first.
RunEnds(status) ==
    /\ run # Idle
    /\ status \in CASE run.stop = "no" -> {"completed", "error"}
                    [] run.stop = "asked" -> Ended
                    [] OTHER -> {"cancelled"}
    /\ LET c == Settles(conv, run.job, status)
       IN \/ Drains(c, queue, ready, update)
          \/ \E o \in Others \ (ToSet(queue) \cup {run.job}) :
                status # "cancelled" /\ Drains(c, <<o>> \o queue, ready, update)
    /\ UNCHANGED <<session, deletion, update, ready, send, asks, waits, faults>>

\* A channel's message, or a wake.
OtherJob(o) ==
    /\ ~Fenced /\ ~update /\ o \notin ToSet(queue) \cup {run.job}
    /\ Enqueues(conv, o)
    /\ UNCHANGED <<session, deletion, update, ready, send, asks, waits, faults>>

AgentDown ==
    /\ ready /\ Fault /\ ready' = FALSE
    /\ UNCHANGED <<session, deletion, update, send, scheduler, waits, conv>>

AgentReady ==
    /\ ~ready /\ ready' = TRUE
    /\ IF run = Idle THEN Drains(conv, queue, TRUE, update)
       ELSE UNCHANGED <<queue, run, conv>>
    /\ UNCHANGED <<session, deletion, update, send, asks, waits, faults>>

\* beginUpdate(), and its release.
BeginUpdate ==
    /\ ~update /\ update' = TRUE
    /\ UNCHANGED <<session, deletion, ready, send, scheduler, waits, conv, faults>>

EndUpdate ==
    /\ update /\ update' = FALSE
    /\ IF run = Idle THEN Drains(conv, queue, ready, FALSE)
       ELSE UNCHANGED <<queue, run, conv>>
    /\ UNCHANGED <<session, deletion, ready, send, asks, waits, faults>>

-----------------------------------------------------------------------------
(* send()                                                                  *)

Goes(t, at) == send' = [send EXCEPT ![t].at = at]

Send(t) ==
    /\ send[t].at = "none"
    /\ Goes(t, IF Fenced THEN "refused" ELSE "reading")
    /\ UNCHANGED <<session, deletion, update, ready, scheduler, waits, conv, faults>>

\* getSession(), and for an automation's run assertCurrent().
Reads(t) ==
    /\ send[t].at = "reading"
    /\ \/ session # "gone" /\ send' = [send EXCEPT ![t] = [at |-> "routing",
                                                          blank |-> session = "blank"]]
       \/ (session = "gone" \/ t \in Plans) /\ Goes(t, "refused")
    /\ UNCHANGED <<session, deletion, update, ready, scheduler, waits, conv, faults>>

RouteFails(t) ==
    /\ send[t].at = "routing" /\ Fault /\ Goes(t, "refused")
    /\ UNCHANGED <<session, deletion, update, ready, scheduler, waits, conv>>

Refuses(c, t) ==
    /\ Goes(t, "refused")
    /\ conv' = RemoveTurn(c, t)
    /\ UNCHANGED <<queue, run>>

\* The end of enqueue(): an automation's run joins no other work.
Admits(c, t, admissions) ==
    \/ /\ t \in Plans => ready /\ ~Inflight(admissions) /\ ~update /\ ~Fenced
       /\ Goes(t, "accepted") /\ Enqueues(c, t)
    \/ t \in Plans /\ Refuses(c, t)

\* upsertResponseRoute() is back: the turn is kept, the session may go on by itself again,
\* and enqueue() refuses, persists a blank session first, or takes the job.
Registers(t) ==
    /\ send[t].at = "routing"
    /\ LET kept == [ClearLatest(conv) EXCEPT !.turns[t] = "queued", !.queued = Append(@, t)]
           c == IF t \in Plans THEN kept ELSE Resumes(kept)
       IN IF update \/ Fenced THEN Refuses(c, t)
          ELSE IF send[t].blank THEN Goes(t, "admitting") /\ conv' = c /\ UNCHANGED <<queue, run>>
          ELSE Admits(c, t, Admitting)
    /\ UNCHANGED <<session, deletion, update, ready, asks, waits, faults>>

\* beforeAccept() is back, and the admission given up with it.
Admitted(t) ==
    /\ send[t].at = "admitting"
    /\ \/ session' = "used" /\ Admits(conv, t, Admitting \ {t}) /\ UNCHANGED faults
       \/ Fault /\ Refuses(conv, t) /\ UNCHANGED session
    /\ UNCHANGED <<deletion, update, ready, asks, waits>>

-----------------------------------------------------------------------------
(* Stops                                                                   *)

\* clearPendingMatching(): each of the jobs cleared is told of.
Cleared(c, jobs) ==
    FoldLeft(LAMBDA acc, j : Settles(acc, j, "cancelled"), c,
             SelectSeq(queue, LAMBDA j : j \in jobs))

\* requestStop(), which asks the agent unless it was asked; what the callers do after it.
StopsRun(c, by) ==
    /\ run' = [run EXCEPT !.stop = IF @ = "no" THEN "asked" ELSE @]
    /\ asks' = IF run.stop = "no" THEN asks \cup {run.job} ELSE asks
    /\ waits' = IF run.stop = "granted" \/ by = "update" THEN waits
                ELSE waits \cup {[job |-> run.job, by |-> by]}
    /\ conv' = LET told == IF run.stop = "no" THEN Says(c, run.job, "stopping") ELSE c
               IN [told EXCEPT !.suspended = @ \/ (run.stop = "granted" /\ by # "update")]

\* Fault: the jobs that do not match are dropped with those that do.
RetainsNothing(jobs) == <<>>

\* What clearPendingMatching() leaves queued.
Retained(jobs) == SelectSeq(queue, LAMBDA j : j \notin jobs)

\* stop(), which clears what the window and the automations have queued and stops their run.
Stop ==
    LET jobs == {conv.active} \cup ToSet(conv.queued)
        c == [Cleared(conv, jobs) EXCEPT !.heard = "stop"]
    IN /\ jobs # {None}
       /\ queue' = Retained(jobs)
       /\ IF conv.active # None THEN StopsRun(c, "window")
          ELSE conv' = c /\ UNCHANGED <<run, asks, waits>>
       /\ UNCHANGED <<session, deletion, update, ready, send, faults>>

\* /stop of a channel, which clears everything and suspends in any case.
ChannelStop ==
    /\ Inflight({})
    /\ queue' = <<>>
    /\ LET c == [Cleared(conv, ToSet(queue)) EXCEPT !.heard = "stop"]
       IN IF run # Idle THEN StopsRun(c, "channel")
          ELSE conv' = [c EXCEPT !.suspended = TRUE] /\ UNCHANGED <<run, asks, waits>>
    /\ UNCHANGED <<session, deletion, update, ready, send, faults>>

\* cancelForUpdate(), once no admission is under way.
CancelForUpdate ==
    /\ update /\ Admitting = {} /\ Inflight({})
    /\ queue' = <<>>
    /\ LET c == Cleared(conv, ToSet(queue))
       IN IF run # Idle THEN StopsRun(c, "update")
          ELSE conv' = c /\ UNCHANGED <<run, asks, waits>>
    /\ UNCHANGED <<session, deletion, update, ready, send, faults>>

\* cancelTurn() is back, and its callers; told is the conversation once the run has been told.
Answered(j, how, told) ==
    /\ j \in asks /\ asks' = asks \ {j}
    /\ waits' = {w \in waits : w.job # j}
    /\ run' = IF run.job # j THEN run
              ELSE [run EXCEPT !.stop = IF how = "taken" THEN "granted" ELSE "no"]
    /\ LET suspends == \/ [job |-> j, by |-> "window"] \in waits /\ how = "taken"
                       \/ [job |-> j, by |-> "channel"] \in waits /\ how # "failed"
       IN conv' = [told EXCEPT !.suspended = @ \/ suspends]
    /\ IF how = "failed" THEN Fault ELSE UNCHANGED faults
    /\ UNCHANGED <<session, deletion, update, ready, send, queue>>

\* The agent took it, knows no such run, or could not be asked; a run that goes on is told.
Answer(j, how) ==
    Answered(j, how, IF how # "taken" /\ run.job = j THEN Says(conv, j, "running") ELSE conv)

-----------------------------------------------------------------------------
(* sessions.delete: the fence, the row, and what the gateway keeps.        *)

BeginDeletion ==
    /\ deletion = "idle" /\ ~Inflight(Admitting)
    /\ deletion' = "asked"
    /\ UNCHANGED <<session, update, ready, send, scheduler, waits, conv, faults>>

RowDeleted ==
    /\ deletion = "asked"
    /\ session' = "gone" /\ deletion' = "handled"
    /\ UNCHANGED <<update, ready, send, scheduler, waits, conv, faults>>

\* forgetSession(), and forget() of the runtime state.
Forgotten ==
    [conv EXCEPT
        !.turns = [t \in Turns |->
                      IF t \in {conv.active, conv.latest} \cup ToSet(conv.queued)
                      THEN "none" ELSE @[t]],
        !.active = None, !.queued = <<>>, !.latest = None, !.suspended = FALSE]

Deleted ==
    /\ deletion = "handled" /\ deletion' = "over"
    /\ conv' = Forgotten
    /\ UNCHANGED <<session, update, ready, send, scheduler, waits, faults>>

\* The call fails, with the row or without it; the user may try again.
DeletionFails ==
    /\ Fenced /\ Fault /\ deletion' = "idle"
    /\ UNCHANGED <<session, update, ready, send, scheduler, waits, conv>>

Next ==
    \/ \E t \in Turns : Send(t) \/ Reads(t) \/ RouteFails(t) \/ Registers(t) \/ Admitted(t)
    \/ \E o \in Others : OtherJob(o)
    \/ \E status \in Ended : RunEnds(status)
    \/ AgentDown \/ AgentReady \/ BeginUpdate \/ EndUpdate
    \/ Stop \/ ChannelStop \/ CancelForUpdate
    \/ \E j \in asks, how \in {"taken", "unknown", "failed"} : Answer(j, how)
    \/ BeginDeletion \/ RowDeleted \/ Deleted \/ DeletionFails

Spec == Init /\ [][Next]_vars

-----------------------------------------------------------------------------
AllWork == Turns \cup Others
Live == {"queued", "running", "stopping"}

TypeOK ==
    /\ session \in {"blank", "used", "gone"}
    /\ deletion \in {"idle", "asked", "handled", "over"}
    /\ {update, ready} \subseteq BOOLEAN
    /\ send \in [Turns -> [at : {"none", "reading", "routing", "admitting", "accepted",
                                "refused"}, blank : BOOLEAN]]
    /\ ToSet(queue) \cup asks \subseteq AllWork
    /\ run \in [job : AllWork \cup {None}, stop : {"no", "asked", "granted"}]
    /\ waits \subseteq [job : AllWork, by : {"window", "channel"}]
    /\ conv.turns \in [Turns -> {"none"} \cup Live \cup Ended]
    /\ {conv.active, conv.latest} \subseteq Turns \cup {None}
    /\ conv.heard \in {"nothing", "message", "stop", "overtaken"}
    /\ faults \in 0..MaxFaults

\* The three maps of the conversation agree with each other and with the scheduler, after
\* every step: a turn is kept exactly while it is active, queued or the latest; the active
\* one is the run, and is stopping while the run is; those queued are the scheduler's and
\* those being admitted; and a submission that was refused has left nothing behind.
TurnsFollowTheRun ==
    /\ {t \in Turns : conv.turns[t] # "none"}
         = ({conv.active, conv.latest} \ {None}) \cup ToSet(conv.queued)
    /\ conv.active = IF run.job \in Turns THEN run.job ELSE None
    /\ conv.active # None =>
          conv.turns[conv.active] = IF run.stop = "no" THEN "running" ELSE "stopping"
    /\ IsInjective(conv.queued)
    /\ ToSet(conv.queued) = (ToSet(queue) \cap Turns) \cup Admitting
    /\ \A t \in ToSet(conv.queued) : conv.turns[t] = "queued"
    /\ conv.latest # None => conv.turns[conv.latest] \in Ended
    /\ \A t \in Turns : send[t].at = "refused" =>
          conv.turns[t] = "none" /\ t \notin ToSet(queue) \cup {run.job}

\* An automation's run never waits behind other work of its session.
PlansRunAtOnce == ToSet(queue) \cap Plans = {}

\* While a deletion is under way the session has no work, and none that comes up.
DeletionIsAlone == Fenced => ~Inflight(Admitting)

\* A message of the window lifts the suspension a stop has left, and what follows it may go
\* on by itself; unless it overtook the stop, which then suspends its work as well.
MessagesResume == conv.suspended => conv.heard # "message"

ConversationInv == TypeOK /\ TurnsFollowTheRun /\ PlansRunAtOnce /\ DeletionIsAlone
                   /\ MessagesResume

\* A result stays what it is for as long as it is kept: no answer to a stop that comes late
\* turns a turn that has ended, or been cleared, into a running one.
ResultsAreFinal ==
    \A t \in Turns : conv.turns[t] \in Ended => conv'.turns[t] \in {conv.turns[t], "none"}

\* Work is forgotten only when its submission fails or its job was cleared: neither a
\* deletion nor the turns that follow take a turn away that is queued or runs.
WorkIsKept ==
    \A t \in Turns : conv.turns[t] \in Live /\ conv'.turns[t] = "none" =>
        \/ send'[t].at = "refused"
        \/ t \in ToSet(queue) /\ t \notin ToSet(queue') \cup {run'.job}

\* stop() of the window leaves the jobs of channels alone.
OthersAreSpared ==
    \A o \in Others : o \in ToSet(queue) =>
        o \in ToSet(queue') \cup {run'.job} \/ ChannelStop \/ CancelForUpdate
=============================================================================
