---------------------------- MODULE SessionStatus ----------------------------
(***************************************************************************)
(* The state of every turn, from the scheduler that knows it to the        *)
(* database that keeps it and the window that shows it: the coordinator of *)
(* the Gateway with its queue of changes, its single flight, its retry and *)
(* its reconciliation, the store in the agent process, and the cache of a  *)
(* window.  Requests may fail, their answers may be lost, the agent        *)
(* process and the Gateway may crash.                                      *)
(*                                                                         *)
(* Requests of one owner are handled in the order they were sent and       *)
(* answered in that order.  A turn is known by its place in the queue.     *)
(***************************************************************************)
EXTENDS Integers, Sequences, FiniteSets, SequencesExt

CONSTANTS
    MaxTurns,       \* bound: turns enqueued
    Sessions,
    SessionOf,      \* the session of a turn
    MaxIncidents    \* bound: with n turns, how many calls of the window, refused
                    \* cancellations, failed requests and crashes, all together

Turns == 1..MaxTurns
Owners == 1..(MaxIncidents[1] + 1)  \* Gateways, one after the other

VARIABLES
    actual,     \* what the scheduler knows of each turn
    unknowable, \* turns whose end no Gateway that is left knows of (history)
    pending,    \* changes not yet persisted
    sequence, reconcile, ready,
    work,       \* the flush that is under way
    unpublished,
    reading,    \* ack(): the result shown to the user, and where the call stands
    revision,
    owner,      \* the Gateway that lives
    wire,       \* for each owner, the requests its agent process has to handle
    answers,    \* the answers on their way to the coordinator
    rows,       \* agent_session_runs
    version,    \* agent_session_status_sequence
    dbOwner,
    shown,      \* SessionStatusCache: per session a revision and a summary
    incidents   \* counted for their bound

scheduler == <<actual, unknowable>>
coordinator == <<pending, sequence, reconcile, ready, work, unpublished, reading, revision, owner>>
transport == <<wire, answers>>
store == <<rows, version, dbOwner>>
vars == <<scheduler, coordinator, transport, store, shown, incidents>>

-----------------------------------------------------------------------------
Live == {"running", "stopping", "queued"}
Terminal == {"completed", "error", "cancelled"}
Readable == {"unknown", "error", "completed"}

Change(t, state, v) == [turn |-> t, state |-> state, event |-> v]
Item(state, t, v) == [state |-> state, turn |-> t, version |-> v]
NoRow == [state |-> "none", owner |-> 0, event |-> 0, version |-> 0, seen |-> 0]
NothingShown == [revision |-> -1, item |-> Item("none", 0, 0)]
NotReading == [at |-> "none", turn |-> 0, version |-> 0, state |-> "none"]
Unavailable == Item("unavailable", 0, 0)    \* a summary with an error

\* runStatuses(): the live turns of the scheduler.
LiveTurns(a) == {t \in Turns : a[t] \in Live}
Busy(a, s) == \E t \in Turns : SessionOf[t] = s /\ a[t] \in {"running", "stopping"}

-----------------------------------------------------------------------------
(* SessionStatusStore *)

\* apply(): what an update makes of a row, bumping the version when it says something.
AppliedRow(row, o, u, v) ==
    IF row.state \in Terminal \/ (row # NoRow /\ row.owner = o /\ row.event >= u.event)
    THEN row
    ELSE IF row.state = u.state /\ row.owner = o
    THEN [row EXCEPT !.event = u.event]
    ELSE [row EXCEPT !.state = u.state, !.owner = o, !.event = u.event, !.version = v + 1]

Apply(db, o, u) ==
    LET row == AppliedRow(db.rows[u.turn], o, u, db.version)
    IN  [db EXCEPT !.rows[u.turn] = row,
                   !.version = IF row.version # db.rows[u.turn].version THEN @ + 1 ELSE @]

ApplyAll(db, o, us) ==
    IF db.owner # o THEN db ELSE FoldLeft(LAMBDA d, u : Apply(d, o, u), db, us)

\* reconcile: what is not live has ended in a way nobody knows.
Abandon(db, t) ==
    [db EXCEPT !.rows[t].state = "unknown", !.rows[t].version = db.version + 1, !.version = @ + 1]

Reconciled(db, o, live) ==
    LET gone == {t \in Turns : /\ db.rows[t].state \in Live
                               /\ t \notin {live[n].turn : n \in DOMAIN live}}
    IN  ApplyAll(FoldLeft(Abandon, [db EXCEPT !.owner = o], SetToSeq(gone)), o, live)

\* ack: only the very result that was shown becomes read.
Acknowledged(db, r) ==
    LET row == db.rows[r.turn]
    IN  IF row.version = r.version /\ row.seen < r.version /\ row.state \in Readable
        THEN [db EXCEPT !.rows[r.turn].seen = r.version, !.version = @ + 1]
        ELSE db

\* summary(): a busy session first, then the gravest and latest unread result.
Rank == [stopping |-> 0, running |-> 1, queued |-> 2, unknown |-> 3, error |-> 4, completed |-> 5]

Foremost(rs, ts) ==
    CHOOSE t \in ts : \A u \in ts :
        \/ Rank[rs[t].state] < Rank[rs[u].state]
        \/ rs[t].state = rs[u].state /\ rs[t].version >= rs[u].version

Summary(rs, s) ==
    LET of == {t \in Turns : SessionOf[t] = s /\ rs[t] # NoRow}
        busy == {t \in of : rs[t].state \in Live}
        unread == {t \in of : rs[t].state \in Readable /\ rs[t].version > rs[t].seen}
    IN  IF busy # {} THEN Item(rs[Foremost(rs, busy)].state, 0, 0)
        ELSE IF unread # {}
        THEN LET t == Foremost(rs, unread) IN Item(rs[t].state, t, rs[t].version)
        ELSE IF \E t \in of : /\ rs[t].state = "cancelled"
                              /\ \A u \in of : rs[u].version <= rs[t].version
        THEN Item("cancelled", 0, 0) ELSE Item("idle", 0, 0)

\* request(): the database after a request, and the sessions it answers for.
After(db, o, r) ==
    CASE r.action = "apply" -> ApplyAll(db, o, r.updates)
      [] r.action = "reconcile" -> Reconciled(db, o, r.updates)
      [] r.action = "ack" -> Acknowledged(db, r)
      [] r.action = "list" -> db

SessionsOf(us) == {SessionOf[us[n].turn] : n \in DOMAIN us}

Affected(db, after, o, r) ==
    CASE r.action = "list" -> Sessions
      [] r.action = "ack" -> {SessionOf[r.turn]}
      [] OTHER -> {SessionOf[t] : t \in {u \in Turns : db.rows[u].state # after.rows[u].state}}
                    \cup (IF after.owner = o THEN SessionsOf(r.updates) ELSE {})

-----------------------------------------------------------------------------
(* SessionStatusCoordinator *)

\* event(): the changes of one advance of the scheduler, each with the next number.
Changes(events) ==
    [n \in DOMAIN events |-> Change(events[n][1], events[n][2], sequence + n)]

Event(events) ==
    /\ actual' = [t \in Turns |->
         IF \E n \in DOMAIN events : events[n][1] = t
         THEN Last(SelectSeq(events, LAMBDA e : e[1] = t))[2] ELSE actual[t]]
    /\ pending' = pending \o Changes(events)
    /\ sequence' = sequence + Len(events)

\* overlayLive(): what the scheduler knows to be live goes before what was stored.
Overlay(a, s, item) ==
    LET live == {t \in LiveTurns(a) : SessionOf[t] = s}
    IN  IF live = {} \/ item = Unavailable THEN item
        ELSE IF Busy(a, s)
        THEN Item(a[CHOOSE t \in live : a[t] # "queued"], 0, 0)
        ELSE Item("queued", 0, 0)

\* SessionStatusCache.receive(): the snapshot is newer than what is shown, or as new.
Received(rev, items) ==
    [s \in Sessions |->
       IF s \in DOMAIN items /\ shown[s].revision <= rev
       THEN [revision |-> rev, item |-> Overlay(actual, s, items[s])] ELSE shown[s]]

Publish(items) ==
    IF DOMAIN items = {} THEN UNCHANGED <<revision, shown>>
    ELSE revision' = revision + 1 /\ shown' = Received(revision + 1, items)

Enqueued == Cardinality({t \in Turns : actual[t] # "none"})

Incident ==
    /\ incidents < MaxIncidents[IF Enqueued = 0 THEN 1 ELSE Enqueued]
    /\ incidents' = incidents + 1

NoItems == [s \in {} |-> Unavailable]

Merge(items, more) ==
    [s \in DOMAIN items \cup DOMAIN more |-> IF s \in DOMAIN more THEN more[s] ELSE items[s]]

Send(caller, request) ==
    wire' = [wire EXCEPT ![owner] = Append(@, [caller |-> caller] @@ request)]

NoWork == [at |-> "none", batch |-> <<>>]

\* The flush goes on, items being what it knows by now: the next batch of all that is
\* pending, or the publication of everything at once.
Proceed(items) ==
    \/ /\ pending # <<>>
       /\ Send("flush", [action |-> "apply", updates |-> pending])
       /\ work' = [at |-> "applying", batch |-> pending]
       /\ pending' = <<>> /\ unpublished' = items
       /\ UNCHANGED <<reading, revision, shown>>
    \/ /\ pending = <<>>
       /\ Publish(items)
       /\ work' = NoWork
       /\ unpublished' = NoItems
       /\ reading' = IF reading.at = "called" THEN [reading EXCEPT !.at = "flushed"] ELSE reading
       /\ UNCHANGED <<pending, wire>>

\* Fault: the batch that failed is not put back.
FlushForgets(others) ==
    /\ pending' = pending \o others
    /\ Publish([s \in DOMAIN unpublished \cup SessionsOf(pending')
                      \cup {SessionOf[t] : t \in LiveTurns(actual)} |-> Unavailable])
    /\ work' = NoWork

\* What a failed flush leaves: its batch first in the queue, and a window that says the
\* state is not available.
FlushFails(others) ==
    /\ pending' = work.batch \o pending \o others
    /\ Publish([s \in DOMAIN unpublished \cup SessionsOf(pending')
                      \cup {SessionOf[t] : t \in LiveTurns(actual)} |-> Unavailable])
    /\ work' = NoWork

\* flush(): called when something changes, when the runtime becomes ready, when a flush
\* ends that left something, when the retry timer fires (at any time here), and by who
\* reads.
Flush ==
    /\ ready /\ work = NoWork
    /\ IF reconcile
       THEN /\ Send("flush", [action |-> "reconcile", updates |->
                 SetToSeq({Change(t, actual[t], sequence + 1) : t \in LiveTurns(actual)})])
            /\ sequence' = sequence + 1
            /\ reconcile' = FALSE
            /\ work' = [at |-> "reconciling", batch |-> <<>>]
            /\ UNCHANGED <<pending, unpublished, reading, revision, shown>>
       ELSE /\ pending # <<>> \/ reading.at = "called"
            /\ Proceed(unpublished)
            /\ UNCHANGED <<sequence, reconcile>>
    /\ UNCHANGED <<scheduler, ready, owner, answers, store, incidents>>

\* The answer to a request of the flush.
FlushAnswered ==
    /\ answers # <<>> /\ Head(answers).caller = "flush"
    /\ answers' = Tail(answers)
    /\ IF Head(answers).ok
       THEN /\ Proceed(Merge(unpublished, Head(answers).items))
            /\ UNCHANGED reconcile
       ELSE /\ FlushFails(<<>>)
            /\ reconcile' = (reconcile \/ work.at = "reconciling")
            /\ reading' = IF reading.at = "called" THEN NotReading ELSE reading
            /\ UNCHANGED <<unpublished, wire>>
    /\ UNCHANGED <<scheduler, sequence, ready, owner, store, incidents>>

\* ack() and list(): the window confirms the result it shows, or asks for the summaries
\* of all sessions.  A flush comes first.
Call(action, s) ==
    /\ ready /\ Incident /\ reading = NotReading
    /\ action = "ack" => shown[s].item.turn # 0
    /\ reading' = [at |-> "called", action |-> action, turn |-> shown[s].item.turn,
                   version |-> shown[s].item.version, state |-> shown[s].item.state, revision |-> 0]
    /\ UNCHANGED <<scheduler, pending, sequence, reconcile, ready, work, unpublished,
                   revision, owner, transport, store, shown>>

CallSends ==
    /\ reading.at = "flushed"
    /\ revision' = IF reading.action = "ack" THEN revision + 1 ELSE revision
    /\ reading' = [reading EXCEPT !.at = "sent", !.revision = revision']
    /\ Send("window", reading)
    /\ UNCHANGED <<scheduler, pending, sequence, reconcile, ready, work, unpublished,
                   owner, answers, store, shown, incidents>>

CallAnswered ==
    /\ answers # <<>> /\ Head(answers).caller = "window"
    /\ answers' = Tail(answers)
    /\ shown' = IF Head(answers).ok THEN Received(reading.revision, Head(answers).items) ELSE shown
    /\ reading' = NotReading
    /\ UNCHANGED <<scheduler, pending, sequence, reconcile, ready, work, unpublished,
                   revision, owner, wire, store, incidents>>

-----------------------------------------------------------------------------
(* The agent process *)

Database == [rows |-> rows, version |-> version, owner |-> dbOwner]

\* The next request of an owner is handled, in one transaction, or fails.
Handle(o) ==
    /\ wire[o] # <<>>
    /\ wire' = [wire EXCEPT ![o] = Tail(@)]
    /\ \E ok \in BOOLEAN :
         /\ IF ok THEN UNCHANGED incidents ELSE Incident
         /\ LET r == Head(wire[o])
                db == IF ok THEN After(Database, o, r) ELSE Database
            IN  /\ rows' = db.rows /\ version' = db.version /\ dbOwner' = db.owner
                /\ answers' =
                     IF o # owner THEN answers
                     ELSE Append(answers, [caller |-> r.caller, ok |-> ok,
                            items |-> [s \in Affected(Database, db, o, r) |-> Summary(rows', s)]])
    /\ UNCHANGED <<scheduler, coordinator, shown>>

\* It becomes ready: what was queued starts, and a flush with it.
Queued(s) == {t \in Turns : SessionOf[t] = s /\ actual[t] = "queued"}
FirstOf(ts) == {t \in ts : \A u \in ts : t <= u}

Ready ==
    /\ ~ready
    /\ ready' = TRUE
    /\ Event(SetToSeq({<<t, "running">> : t \in
               UNION {FirstOf(Queued(s)) : s \in {q \in Sessions : ~Busy(actual, q)}}}))
    /\ UNCHANGED <<unknowable, reconcile, work, unpublished, reading, revision,
                   owner, transport, store, shown, incidents>>

\* It crashes: its requests fail, and the turns that ran end with an error.
Crash ==
    /\ ready /\ Incident
    /\ ready' = FALSE /\ reconcile' = TRUE
    /\ LET ended == SetToSeq({<<t, "error">> : t \in
                       {u \in Turns : actual[u] \in {"running", "stopping"}}})
       IN  IF work = NoWork
           THEN /\ Event(ended)
                /\ UNCHANGED <<work, revision, shown>>
           ELSE /\ actual' = [t \in Turns |->
                     IF actual[t] \in {"running", "stopping"} THEN "error" ELSE actual[t]]
                /\ FlushFails(Changes(ended))
                /\ sequence' = sequence + Len(ended)
    /\ wire' = [wire EXCEPT ![owner] = <<>>]
    /\ answers' = <<>>
    /\ reading' = NotReading
    /\ UNCHANGED <<unknowable, unpublished, owner, store>>

-----------------------------------------------------------------------------
(* The scheduler (external: its part is modelled in SessionScheduler) *)

Advance(events) ==
    /\ Event(events)
    /\ UNCHANGED <<unknowable, reconcile, ready, work, unpublished, reading, revision, owner,
                   transport, store, shown>>

Enqueue(t) ==
    /\ t = Enqueued + 1 /\ incidents <= MaxIncidents[t]
    /\ LET s == SessionOf[t]
       IN  IF ready /\ ~Busy(actual, s) /\ Queued(s) = {}
           THEN Advance(<< <<t, "queued">>, <<t, "running">> >>)
           ELSE Advance(<< <<t, "queued">> >>)
    /\ UNCHANGED incidents

Stop(t) == actual[t] = "running" /\ Advance(<< <<t, "stopping">> >>) /\ UNCHANGED incidents

StopIsRefused(t) ==
    /\ actual[t] = "stopping" /\ Incident
    /\ Advance(<< <<t, "running">> >>)

Clear(t) == actual[t] = "queued" /\ Advance(<< <<t, "cancelled">> >>) /\ UNCHANGED incidents

\* A turn ends and the next one of its session starts.
End(t, outcome) ==
    /\ actual[t] \in {"running", "stopping"}
    /\ outcome = "cancelled" => actual[t] = "stopping"
    /\ LET next == IF ready THEN FirstOf(Queued(SessionOf[t])) ELSE {}
       IN  Advance(<< <<t, outcome>> >> \o SetToSeq({<<u, "running">> : u \in next}))
    /\ UNCHANGED incidents

\* The Gateway is gone with its turns and with what it had not persisted, and the next
\* one begins; the window reconnects.  Updates that its agent process was sent may still
\* reach the database, however late; its reconciliation, the first thing that process was
\* sent, was handled or is lost by then (assumed).
NewGateway ==
    /\ Incident
    /\ owner' = owner + 1
    /\ unknowable' = unknowable \cup
         {t \in Turns : actual[t] \in Live \/ (actual[t] \in Terminal /\ rows[t].state # actual[t])}
    /\ actual' = [t \in Turns |-> IF actual[t] \in Live THEN "lost" ELSE actual[t]]
    /\ pending' = <<>> /\ sequence' = 0 /\ revision' = 0
    /\ reconcile' = TRUE /\ ready' = FALSE
    /\ work' = NoWork /\ unpublished' = NoItems /\ reading' = NotReading
    /\ wire' = [wire EXCEPT ![owner] = SelectSeq(@, LAMBDA r : r.action # "reconcile")]
    /\ answers' = <<>>
    /\ shown' = [s \in Sessions |-> NothingShown]
    /\ UNCHANGED store

Init ==
    /\ actual = [t \in Turns |-> "none"] /\ unknowable = {}
    /\ pending = <<>> /\ sequence = 0 /\ revision = 0
    /\ reconcile = TRUE /\ ready = FALSE
    /\ work = NoWork /\ unpublished = NoItems /\ reading = NotReading
    /\ owner = 1
    /\ wire = [o \in Owners |-> <<>>] /\ answers = <<>>
    /\ rows = [t \in Turns |-> NoRow] /\ version = 0 /\ dbOwner = 0
    /\ shown = [s \in Sessions |-> NothingShown]
    /\ incidents = 0

Next ==
    \/ \E t \in Turns : Enqueue(t) \/ Stop(t) \/ StopIsRefused(t) \/ Clear(t)
    \/ \E t \in Turns, outcome \in Terminal : End(t, outcome)
    \/ Flush \/ FlushAnswered
    \/ \E s \in Sessions : Call("ack", s) \/ Call("list", s)
    \/ CallSends \/ CallAnswered
    \/ \E o \in Owners : Handle(o)
    \/ Ready \/ Crash \/ NewGateway

Spec == Init /\ [][Next]_vars

-----------------------------------------------------------------------------
TypeOK ==
    /\ actual \in [Turns -> {"none", "lost"} \cup Live \cup Terminal]
    /\ \A n \in DOMAIN pending : pending[n].turn \in Turns
    /\ work.at \in {"none", "reconciling", "applying"}
    /\ reading.at \in {"none", "called", "flushed", "sent"}
    /\ \A t \in Turns : /\ rows[t].state \in {"none", "unknown"} \cup Live \cup Terminal
                        /\ rows[t].seen <= rows[t].version /\ rows[t].version <= version

\* Nothing is under way between the scheduler and the window.
Quiet ==
    /\ ready /\ ~reconcile /\ pending = <<>> /\ work = NoWork
    /\ reading = NotReading /\ answers = <<>>
    /\ \A o \in Owners : wire[o] = <<>>

\* When all is persisted, the database has the state the scheduler has, whatever failed
\* or was repeated before; of a turn that went down with its Gateway it has at most that
\* nobody knows its end, never a turn that seems to run and never another result.
StoreAgrees ==
    Quiet => \A t \in Turns :
        \/ rows[t].state = actual[t]
        \/ t \in unknowable /\ rows[t].state \in {"none", "unknown"}

\* What the window shows is then what the database has, except that a result it has read
\* may go on looking unread: ack() takes its revision before its request, and a flush
\* that began in between publishes a later one first.
WindowAgrees ==
    Quiet => \A s \in Sessions : shown[s].revision >= 0 =>
        \/ shown[s].item = Summary(rows, s)
        \/ shown[s].item.turn # 0 /\ rows[shown[s].item.turn].seen = shown[s].item.version

\* Only a result that was shown as it is becomes read, and a result stays what it is: a
\* batch that is applied again does not announce it once more.
ResultsStand ==
    \A t \in Turns :
      /\ rows[t].state \in Terminal =>
           rows'[t].state = rows[t].state /\ rows'[t].version = rows[t].version
      /\ rows'[t].seen # rows[t].seen =>
           \E o \in Owners : /\ wire[o] # <<>>
                                   /\ Head(wire[o]).action = "ack"
                                   /\ Head(wire[o]).turn = t /\ Head(wire[o]).state = rows[t].state

=============================================================================
