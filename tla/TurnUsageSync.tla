---------------------------- MODULE TurnUsageSync ----------------------------
(***************************************************************************)
(* The upload of turn usage: TurnUsageSyncService with the turns and the   *)
(* cursor in SQLite, the timers, one flight with one rerun, and a server   *)
(* that may answer, refuse, stay silent or take a request after the client *)
(* gave it up.                                                             *)
(*                                                                         *)
(* The service runs without a break from a timer to its request, from the  *)
(* answer to the pause between two batches, and from there to the next     *)
(* request.                                                                *)
(***************************************************************************)
EXTENDS Integers

CONSTANTS
    MaxTurns,       \* bound: turns recorded
    BatchLimit,     \* TURN_USAGE_BATCH_LIMIT
    MaxBatches,     \* TURN_USAGE_MAX_BATCHES_PER_RUN
    Oversized,      \* the turns whose record does not fit into a batch
    MaxStops        \* bound: times the process ends

TurnUsageSyncAssumption ==
    /\ MaxTurns \in Nat /\ BatchLimit \in Nat /\ MaxStops \in Nat
    /\ MaxBatches \in Nat \ {0}

VARIABLES
    recorded,   \* turn_usage: turns have the sequence numbers 1..recorded
    old,        \* how many of them are past the retention
    cursor,     \* acknowledged_sequence of the server, -1 without a row
    base,       \* the first value of the cursor, -1 before (history)
    stored,     \* the turns the server has (external)
    late,       \* requests given up by the client that the server may still take (external)
    flight,     \* the single flight and the request it waits for
    rerun, backlogTimer,
    service,    \* "new", "running", or "stopped" for good
    stops       \* how often the process has ended (bound)

server == <<stored, late>>
vars == <<recorded, old, cursor, base, server, flight, rerun, backlogTimer, service, stops>>

-----------------------------------------------------------------------------
Idle == [at |-> "idle", first |-> 0, last |-> 0, more |-> FALSE, taken |-> FALSE,
         batches |-> 0, again |-> FALSE]

Min2(a, b) == IF a < b THEN a ELSE b
Max2(a, b) == IF a < b THEN b ELSE a

\* exportTurnUsageBatch(): the first export begins at the oldest turn kept.
StartingCursor == IF cursor # -1 THEN cursor ELSE Min2(old, recorded)
Exported(c) == (c + 1)..Min2(c + BatchLimit, recorded)

\* The turns of an export that are sent: as many as fit into 1 MiB.
Sendable(c) == {n \in Exported(c) : \A m \in (c + 1)..n : m \notin Oversized}

\* A failure, and a run that leaves something behind, come back by a timer.
Backlog(timer) == timer \/ service = "running"

Over(f) == [Idle EXCEPT !.at = "over", !.again = f.again]

\* syncTurnUsageTarget() from an export to its request; timer is the backlog timer.
Batch(f, timer) ==
    /\ cursor' = StartingCursor
    /\ base' = IF base = -1 THEN cursor' ELSE base
    /\ \/ /\ Exported(cursor') = {}
          /\ flight' = Over(f)
          /\ backlogTimer' = timer
       \/ /\ Exported(cursor') # {} /\ Sendable(cursor') = {}
          /\ flight' = Over(f)
          /\ backlogTimer' = Backlog(timer)
       \/ /\ \E last \in Sendable(cursor') :
               flight' = [f EXCEPT !.at = "upload", !.first = cursor' + 1, !.last = last,
                                   !.more = last < recorded, !.taken = FALSE]
          /\ backlogTimer' = timer
    /\ UNCHANGED <<recorded, old, server, service, stops>>

\* requestSingleFlight(): what comes during a flight is one rerun.  A run clears the
\* backlog timer as it begins.
Request(timer) ==
    IF flight.at = "idle"
    THEN Batch(Idle, FALSE) /\ UNCHANGED rerun
    ELSE /\ rerun' = TRUE
         /\ backlogTimer' = timer
         /\ UNCHANGED <<recorded, old, cursor, base, server, flight, service, stops>>

-----------------------------------------------------------------------------
Init ==
    /\ recorded \in 0..MaxTurns
    /\ old \in 0..recorded
    /\ cursor = -1 /\ base = -1
    /\ stored = {} /\ late = {}
    /\ flight = Idle
    /\ rerun = FALSE /\ backlogTimer = FALSE /\ service = "new"
    /\ stops = 0

\* recordTurn(): every turn gets the next number.
RecordTurn ==
    /\ recorded < MaxTurns
    /\ recorded' = recorded + 1
    /\ UNCHANGED <<old, cursor, base, server, flight, rerun, backlogTimer, service, stops>>

\* Time passes, and a turn gets older than the retention.
Age ==
    /\ old < recorded
    /\ old' = old + 1
    /\ UNCHANGED <<recorded, cursor, base, server, flight, rerun, backlogTimer, service, stops>>

Start ==
    /\ service = "new"
    /\ service' = "running"
    /\ UNCHANGED <<recorded, old, cursor, base, server, flight, rerun, backlogTimer, stops>>

\* The first timer and the hourly interval.
Tick == service = "running" /\ Request(backlogTimer)

BacklogFires == backlogTimer /\ service = "running" /\ Request(FALSE)

\* The server takes the request, and whether the client hears of it is open.
ServerTakes ==
    /\ flight.at = "upload" /\ ~flight.taken
    /\ stored' = stored \cup flight.first..flight.last
    /\ flight' = [flight EXCEPT !.taken = TRUE]
    /\ UNCHANGED <<recorded, old, cursor, base, late, rerun, backlogTimer, service, stops>>

ServerTakesLate ==
    /\ \E r \in late :
         /\ stored' = stored \cup r[1]..r[2]
         /\ late' = late \ {r}
    /\ UNCHANGED <<recorded, old, cursor, base, flight, rerun, backlogTimer, service, stops>>

\* Fault: any answer moves the cursor, a refusal as well.
AcknowledgedByAnyAnswer ==
    /\ flight.at = "upload"
    /\ cursor' = Max2(cursor, flight.last)
    /\ flight' = Over(flight)
    /\ UNCHANGED <<recorded, old, base, server, rerun, backlogTimer, service, stops>>

\* A complete and valid ACK of exactly this batch.
Acknowledged ==
    /\ flight.at = "upload" /\ flight.taken
    /\ cursor' = Max2(cursor, flight.last)
    /\ IF flight.more
       THEN flight' = [flight EXCEPT !.at = "pause", !.batches = @ + 1]
       ELSE flight' = Over(flight)
    /\ UNCHANGED <<recorded, old, base, server, rerun, backlogTimer, service, stops>>

\* What the client gave up may still be under way.
GiveUp ==
    \/ UNCHANGED server
    \/ /\ ~flight.taken
       /\ late' = late \cup {<<flight.first, flight.last>>}
       /\ UNCHANGED stored

\* No connection, a refusal, an ACK that is not one, 30 seconds of silence.
UploadFails ==
    /\ flight.at = "upload"
    /\ GiveUp
    /\ flight' = Over(flight)
    /\ backlogTimer' = Backlog(backlogTimer)
    /\ UNCHANGED <<recorded, old, cursor, base, rerun, service, stops>>

\* setTimeout(0) between two batches; nobody asks whether the service was stopped.
NextBatch ==
    /\ flight.at = "pause"
    /\ IF flight.batches < MaxBatches
       THEN Batch(flight, backlogTimer)
       ELSE /\ flight' = Over(flight)
            /\ backlogTimer' = Backlog(backlogTimer)
            /\ UNCHANGED <<recorded, old, cursor, base, server, service, stops>>
    /\ UNCHANGED rerun

\* Fault: the flight is released after a first run only.
RunEndsUnreleased ==
    /\ flight.at = "over"
    /\ rerun' = FALSE
    /\ IF service = "running" /\ rerun /\ ~flight.again
       THEN Batch([Idle EXCEPT !.again = TRUE], FALSE)
       ELSE /\ flight' = IF flight.again THEN flight ELSE Idle
            /\ UNCHANGED <<recorded, old, cursor, base, server, backlogTimer, service, stops>>

\* The run is over: one rerun if somebody asked, and what was asked during that one
\* is forgotten.
RunEnds ==
    /\ flight.at = "over"
    /\ rerun' = FALSE
    /\ IF service = "running" /\ rerun /\ ~flight.again
       THEN Batch([Idle EXCEPT !.again = TRUE], FALSE)
       ELSE /\ flight' = Idle
            /\ UNCHANGED <<recorded, old, cursor, base, server, backlogTimer, service, stops>>

\* stop(): timers are cleared and the request in flight is aborted.
Stop ==
    /\ service = "running" /\ stops < MaxStops
    /\ service' = "stopped" /\ rerun' = FALSE /\ backlogTimer' = FALSE
    /\ IF flight.at = "upload" THEN GiveUp /\ flight' = Over(flight)
       ELSE UNCHANGED <<server, flight>>
    /\ UNCHANGED <<recorded, old, cursor, base, stops>>

\* The process ends, after stop() or by a crash; what it had in memory is gone.
Exit ==
    /\ stops < MaxStops
    /\ stops' = stops + 1
    /\ IF flight.at = "upload" THEN GiveUp ELSE UNCHANGED server
    /\ flight' = Idle
    /\ service' = "new" /\ rerun' = FALSE /\ backlogTimer' = FALSE
    /\ UNCHANGED <<recorded, old, cursor, base>>

Next == \/ RecordTurn \/ Age \/ Start \/ Tick \/ BacklogFires \/ ServerTakes
        \/ ServerTakesLate \/ Acknowledged \/ UploadFails \/ NextBatch \/ RunEnds
        \/ Stop \/ Exit

Spec == Init /\ [][Next]_vars

\* The process is started again, its timers fire, its steps are taken, and a server
\* that is asked again and again takes a request and confirms it at some time.
Fairness ==
    /\ WF_vars(Start) /\ WF_vars(Tick) /\ WF_vars(NextBatch) /\ WF_vars(RunEnds)
    /\ WF_vars(service = "stopped" /\ Exit)
    /\ WF_vars(UploadFails \/ Acknowledged)
    /\ SF_vars(ServerTakes) /\ SF_vars(Acknowledged)

FairSpec == Spec /\ Fairness

-----------------------------------------------------------------------------
TypeOK ==
    /\ recorded \in 0..MaxTurns /\ old \in 0..recorded
    /\ cursor \in -1..recorded /\ base \in -1..recorded
    /\ stored \subseteq 1..recorded
    /\ late \subseteq (1..recorded) \X (1..recorded)
    /\ flight \in [at : {"idle", "upload", "pause", "over"}, first : 0..recorded,
                   last : 0..recorded, more : BOOLEAN, taken : BOOLEAN,
                   batches : 0..MaxBatches, again : BOOLEAN]
    /\ rerun \in BOOLEAN /\ backlogTimer \in BOOLEAN /\ service \in {"new", "running", "stopped"}
    /\ stops \in 0..MaxStops

Reports == INSTANCE TurnReports

\* Whatever is lost, late or repeated, the server gets the turns in order and
\* without a gap, and the cursor never passes a turn it does not have: the promise
\* of TurnReports (exportTurnUsageBatch, acknowledgeTurnUsage).
ImplementsTurnReports == Reports!Spec

\* Every turn is confirmed at last, however often the upload fails or the process
\* ends, unless a record that fits into no batch stands before it.
TurnsReachTheServer ==
    \A n \in 1..MaxTurns :
      (recorded >= n /\ \A m \in 1..n : m \notin Oversized) ~> cursor >= n

=============================================================================
