------------------------------ MODULE LiveAnswer ------------------------------
(***************************************************************************)
(* The answer of a running turn on its way to a window of the desktop: the *)
(* agent's streamer collects changes and cuts them into numbered batches,  *)
(* the gateway applies them to its copy of the turn and forwards them, the *)
(* window applies them once more, once per frame, next to whole activities *)
(* that are pushed and to reads of its own.                                *)
(*                                                                         *)
(* Text is counted in tokens.  Thinking is text.  One turn, one window.    *)
(***************************************************************************)
EXTENDS Integers, Sequences, SequencesExt, FiniteSetsExt

CONSTANTS
    MaxParts,    \* bound: parts of the answer
    MaxText,     \* bound: tokens of a part of text
    MaxMetrics,  \* bound: changes of usage and phase
    MaxBatches,  \* bound: batches before the answer is closed
    MaxWire,     \* bound: events the gateway is behind
    MaxIpc,      \* bound: events the window is behind
    NoData

VARIABLES
    parts,       \* processParts
    active,      \* activeTextPartId
    generation,  \* generationPartIds
    detached,    \* detachedToolIds, and those of them that have ended
    queued,      \* queuedMutations
    pending,     \* pending and batchDirty: where the scheduled batch is
    sequence,    \* sequence and deltaFailed, and the metrics
    stage,       \* terminal, and where close() is
    cut,         \* bookkeeping: the parts when each batch or frame was cut
    wire,        \* events the agent wrote and the gateway has not handled
    known,       \* whether the gateway keeps the turn, and whether it has settled
    stream,      \* turn.payload.stream
    completed,   \* backgroundCompletions
    ipc,         \* events on their way to the window
    data,        \* the activity in the window's query cache
    inbox,       \* batches that wait for the next frame of the window
    read         \* the read of the activity, and whether the cache is invalidated

agentVars == <<parts, active, generation, detached, queued, pending, sequence, stage, cut>>
gatewayVars == <<known, stream, completed>>
windowVars == <<data, inbox, read>>
vars == <<agentVars, wire, gatewayVars, ipc, windowVars>>

-----------------------------------------------------------------------------
NoStream == [seq |-> 0, parts |-> <<>>, state |-> "none", metrics |-> 0]
Activity(k, s) == [known |-> k, stream |-> s]
Batch(s, muts, state, metrics) ==
    [type |-> "batch", seq |-> s, muts |-> muts, state |-> state, metrics |-> metrics]
Frame(s, ps, state, metrics) ==
    [type |-> "frame", seq |-> s, parts |-> ps, state |-> state, metrics |-> metrics]

NoRead(stale) == [state |-> "none", before |-> NoData, stale |-> stale]

Part(kind, status, n) == [kind |-> kind, status |-> status, text |-> n]
Updated(ps, i) == [kind |-> "updated", part |-> i, value |-> ps[i], delta |-> 0]
Delta(i) == [kind |-> "delta", part |-> i, value |-> Part("text", "streaming", 0), delta |-> 1]

Init ==
    /\ parts = <<>> /\ active = 0 /\ generation = {} /\ queued = <<>>
    /\ detached = [of |-> {}, ended |-> {}]
    /\ pending = [state |-> "none", dirty |-> FALSE]
    /\ sequence = [last |-> 0, failed |-> FALSE, metrics |-> 0]
    /\ stage = [at |-> "open", state |-> "delta"] /\ cut = <<>>
    /\ wire = <<>> /\ known = [turn |-> TRUE, settled |-> FALSE]
    /\ stream = NoStream /\ completed = {}
    /\ ipc = <<>> /\ data \in {NoData, Activity(TRUE, NoStream)} /\ inbox = <<>>
    /\ read = NoRead(FALSE)

-----------------------------------------------------------------------------
(* The streamer. *)

\* queuePartDelta(), queuePartUpdated(): a change of the part that changed last joins it.
Queue(q, m) ==
    IF q # <<>> /\ Last(q).kind = m.kind /\ Last(q).part = m.part
    THEN Append(Front(q), [m EXCEPT !.delta = @ + Last(q).delta])
    ELSE Append(q, m)

QueueAll(q, ps, changed) ==
    FoldLeft(LAMBDA acc, i : Queue(acc, Updated(ps, i)), q, SetToSortSeq(changed, <))

\* scheduleDelta(), scheduleDesktopBatch().
Schedule ==
    pending' = IF sequence.failed THEN pending
               ELSE [state |-> IF pending.state = "none" THEN "waiting" ELSE pending.state,
                     dirty |-> TRUE]

Change(ps, changed) == parts' = ps /\ queued' = QueueAll(queued, ps, changed)

\* completeOpenParts().
Closed(ps) == IF active = 0 THEN ps ELSE [ps EXCEPT ![active].status = "completed"]
Open == IF active = 0 THEN {} ELSE {active}

StartText ==
    /\ stage.at = "open" /\ active = 0 /\ Len(parts) < MaxParts
    /\ Change(Append(parts, Part("text", "streaming", 0)), {Len(parts) + 1})
    /\ active' = Len(parts) + 1 /\ generation' = generation \cup {Len(parts) + 1}
    /\ Schedule
    /\ UNCHANGED <<detached, sequence, stage, cut, wire, gatewayVars, ipc, windowVars>>

TextDelta ==
    /\ stage.at = "open" /\ active # 0 /\ parts[active].text < MaxText
    /\ parts' = [parts EXCEPT ![active].text = @ + 1]
    /\ queued' = Queue(queued, Delta(active))
    /\ Schedule
    /\ UNCHANGED <<active, generation, detached, sequence, stage, cut, wire, gatewayVars, ipc,
                   windowVars>>

\* reconcilePart(): the complete text may be longer than what was streamed.
EndText ==
    /\ stage.at = "open" /\ active # 0
    /\ \E n \in parts[active].text..MaxText :
          Change([parts EXCEPT ![active] = Part("text", "completed", n)], {active})
    /\ active' = 0
    /\ Schedule
    /\ UNCHANGED <<generation, detached, sequence, stage, cut, wire, gatewayVars, ipc,
                   windowVars>>

\* The next call of the model, or its retry: startWaitingModel().
ModelStarts ==
    /\ stage.at = "open" /\ generation # {}
    /\ Change(Closed(parts), Open)
    /\ active' = 0 /\ generation' = {}
    /\ Schedule
    /\ UNCHANGED <<detached, sequence, stage, cut, wire, gatewayVars, ipc, windowVars>>

\* The stream of the model breaks off.
ModelErrs ==
    /\ stage.at = "open" /\ \E i \in generation : parts[i].status # "error"
    /\ Change([i \in DOMAIN parts |->
                  IF i \in generation THEN [parts[i] EXCEPT !.status = "error"] ELSE parts[i]],
              generation)
    /\ active' = 0
    /\ Schedule
    /\ UNCHANGED <<generation, detached, sequence, stage, cut, wire, gatewayVars, ipc,
                   windowVars>>

ToolStart ==
    /\ stage.at = "open" /\ active = 0 /\ Len(parts) < MaxParts
    /\ Change(Append(parts, Part("tool", "running", 0)), {Len(parts) + 1})
    /\ Schedule
    /\ UNCHANGED <<active, generation, detached, sequence, stage, cut, wire, gatewayVars, ipc,
                   windowVars>>

\* A call that leaves a command in the background is finished with the status "running".
ToolFinish(i) ==
    /\ stage.at = "open" /\ parts[i] = Part("tool", "running", 0) /\ i \notin detached.of
    /\ \E status \in {"running", "success"} :
          /\ Change([parts EXCEPT ![i].status = status], {i})
          /\ detached' = IF status = "running" THEN [detached EXCEPT !.of = @ \cup {i}]
                         ELSE detached
    /\ Schedule
    /\ UNCHANGED <<active, generation, sequence, stage, cut, wire, gatewayVars, ipc, windowVars>>

\* The command ends: background_task.changed, at any time of the turn and after it.
CommandEnds(i) ==
    /\ i \in detached.of \ detached.ended /\ Len(wire) < MaxWire
    /\ detached' = [detached EXCEPT !.ended = @ \cup {i}]
    /\ wire' = Append(wire, [type |-> "completion", part |-> i])
    /\ UNCHANGED <<parts, active, generation, queued, pending, sequence, stage, cut,
                   gatewayVars, ipc, windowVars>>

\* updateUsage(), setDisplayPhase(), updateContext().
UpdateMetrics ==
    /\ stage.at = "open" /\ sequence.metrics < MaxMetrics
    /\ sequence' = [sequence EXCEPT !.metrics = @ + 1]
    /\ Schedule
    /\ UNCHANGED <<parts, active, generation, detached, queued, stage, cut, wire, gatewayVars,
                   ipc, windowVars>>

-----------------------------------------------------------------------------
\* emitDesktopBatch(): the batch is written, or refused and never seen.
EmitBatch(state) ==
    /\ Len(wire) < MaxWire
    /\ sequence' = [sequence EXCEPT !.last = @ + 1]
    /\ cut' = Append(cut, parts) /\ queued' = <<>>
    /\ \E ok \in BOOLEAN :
          /\ pending' = [state |-> IF ok THEN "sending" ELSE "failing", dirty |-> FALSE]
          /\ wire' = IF ok THEN Append(wire, Batch(sequence'.last, queued, state,
                                                   sequence.metrics))
                     ELSE wire

\* The interval is over.
Cut ==
    /\ pending.state = "waiting" /\ pending.dirty /\ stage.at = "open"
    /\ sequence.last < MaxBatches
    /\ EmitBatch("delta")
    /\ UNCHANGED <<parts, active, generation, detached, stage, gatewayVars, ipc, windowVars>>

CutNothing ==
    /\ pending.state = "waiting" /\ stage.at # "open"
    /\ pending' = [pending EXCEPT !.state = "none"]
    /\ UNCHANGED <<parts, active, generation, detached, queued, sequence, stage, cut, wire,
                   gatewayVars, ipc, windowVars>>

\* The write settles, and what has changed since is scheduled.
Written ==
    /\ pending.state \in {"sending", "failing"}
    /\ sequence' = [sequence EXCEPT !.failed = @ \/ pending.state = "failing"]
    /\ pending' = [pending EXCEPT !.state =
                      IF stage.at = "open" /\ pending.dirty /\ ~sequence'.failed THEN "waiting"
                      ELSE "none"]
    /\ UNCHANGED <<parts, active, generation, detached, queued, stage, cut, wire, gatewayVars,
                   ipc, windowVars>>

\* finish(), fail(), cancel(): what is open is closed, what still runs has failed.  An
\* answer that was not streamed becomes a part here.
Close(state) ==
    /\ stage.at = "open"
    /\ LET closed == Closed(parts)
           stopped == {i \in DOMAIN parts : parts[i] = Part("tool", "running", 0)
                                            /\ i \notin detached.of}
           ended == [i \in DOMAIN parts |->
                        IF i \in stopped THEN [closed[i] EXCEPT !.status = "error"]
                        ELSE closed[i]]
       IN \/ Change(ended, Open \cup stopped)
          \/ /\ state = "final" /\ generation = {} /\ Len(parts) < MaxParts
             /\ Change(Append(ended, Part("text", "completed", 1)),
                       Open \cup stopped \cup {Len(parts) + 1})
    /\ active' = 0
    /\ stage' = [at |-> "closing", state |-> state]
    /\ UNCHANGED <<generation, detached, pending, sequence, cut, wire, gatewayVars, ipc,
                   windowVars>>

\* close() after the batch that was under way: a last batch, then the whole of it.
CloseBatch ==
    /\ stage.at = "closing" /\ pending.state = "none"
    /\ stage' = [stage EXCEPT !.at = "frame"]
    /\ IF ~sequence.failed /\ (pending.dirty \/ queued # <<>>)
       THEN EmitBatch(stage.state)
       ELSE UNCHANGED <<sequence, cut, queued, pending, wire>>
    /\ UNCHANGED <<parts, active, generation, detached, gatewayVars, ipc, windowVars>>

EmitFrame(metrics) ==
    /\ Len(wire) < MaxWire
    /\ sequence' = [sequence EXCEPT !.last = @ + 1, !.metrics = metrics]
    /\ cut' = Append(cut, parts)
    /\ wire' = Append(wire, Frame(sequence.last + 1, parts, stage.state, metrics))
    /\ UNCHANGED <<parts, active, generation, detached, queued, pending, gatewayVars, ipc,
                   windowVars>>

CloseFrame ==
    /\ stage.at = "frame" /\ pending.state = "none"
    /\ stage' = [stage EXCEPT !.at = "closed"]
    /\ EmitFrame(sequence.metrics)

\* updateContext() after the answer: the usage of what followed it.
LateFrame ==
    /\ stage.at = "closed" /\ ~known.settled /\ ~sequence.failed
    /\ sequence.metrics < MaxMetrics
    /\ EmitFrame(sequence.metrics + 1)
    /\ UNCHANGED stage

-----------------------------------------------------------------------------
(* Gateway and window apply a batch alike. *)

Fits(ps, m) ==
    IF m.kind = "delta" THEN m.part \in DOMAIN ps /\ ps[m.part].kind = "text"
    ELSE IF m.part \in DOMAIN ps THEN ps[m.part].kind = m.value.kind
    ELSE \A i \in DOMAIN ps : i < m.part

Apply(ps, m) ==
    IF m.kind = "delta" THEN [ps EXCEPT ![m.part].text = @ + m.delta]
    ELSE [i \in DOMAIN ps \cup {m.part} |-> IF i = m.part THEN m.value ELSE ps[i]]

Applied(ps, muts) ==
    FoldLeft(LAMBDA acc, m : IF acc.ok /\ Fits(acc.parts, m)
                             THEN [ok |-> TRUE, parts |-> Apply(acc.parts, m)]
                             ELSE [acc EXCEPT !.ok = FALSE],
             [ok |-> TRUE, parts |-> ps], muts)

Moved(b, ps) == [seq |-> b.seq, parts |-> ps, state |-> b.state, metrics |-> b.metrics]

\* applyBackgroundCompletions().
Overlay(ps, ended) ==
    [i \in DOMAIN ps |-> IF i \in ended THEN [ps[i] EXCEPT !.status = "success"] ELSE ps[i]]

Handle(type) ==
    Len(ipc) < MaxIpc /\ wire # <<>> /\ Head(wire).type = type /\ wire' = Tail(wire)

\* handleStreamBatch(): the batch is forwarded as it came, and the activity is pushed
\* behind it when a background command had ended before it was cut.
HandleBatch ==
    /\ Handle("batch")
    /\ LET b == Head(wire)
           applied == Applied(stream.parts, b.muts)
           overlaid == Overlay(applied.parts, completed)
           next == Moved(b, overlaid)
       IN IF known.turn /\ b.seq = stream.seq + 1 /\ applied.ok
          THEN /\ stream' = next
               /\ ipc' = ipc \o <<b>> \o
                     (IF overlaid # applied.parts
                      THEN <<[type |-> "activity", activity |-> Activity(TRUE, next)]>>
                      ELSE <<>>)
          ELSE UNCHANGED <<stream, ipc>>
    /\ UNCHANGED <<agentVars, known, completed, windowVars>>

Push(k, s) == Len(ipc) < MaxIpc /\ ipc' = Append(ipc, [type |-> "activity", activity |-> Activity(k, s)])

\* handleOutbound(), behind an emitter that drops a frame with nothing in it.
HandleFrame ==
    /\ Handle("frame")
    /\ LET f == Head(wire)
       IN IF known.turn /\ f.parts # <<>> /\ f.seq > stream.seq
          THEN stream' = Moved(f, Overlay(f.parts, completed)) /\ Push(TRUE, stream')
          ELSE UNCHANGED <<stream, ipc>>
    /\ UNCHANGED <<agentVars, known, completed, windowVars>>

\* handleAgentEvent(): background_task.changed.
HandleCompletion ==
    /\ Handle("completion")
    /\ LET ended == completed \cup {Head(wire).part}
           overlaid == Overlay(stream.parts, ended)
       IN IF known.turn
          THEN /\ completed' = ended /\ stream' = [stream EXCEPT !.parts = overlaid]
               /\ IF overlaid # stream.parts THEN Push(TRUE, stream') ELSE UNCHANGED ipc
          ELSE UNCHANGED <<completed, stream, ipc>>
    /\ UNCHANGED <<agentVars, known, windowVars>>

\* The answer to run_turn does not wait for the events before it.
TurnSettles ==
    /\ stage.at = "closed" /\ ~known.settled
    /\ known' = [known EXCEPT !.settled = TRUE]
    /\ Push(TRUE, stream)
    /\ UNCHANGED <<agentVars, wire, stream, completed, windowVars>>

\* The next message of the session: clearLatest().
TurnForgotten ==
    /\ known.settled /\ known.turn
    /\ known' = [known EXCEPT !.turn = FALSE]
    /\ stream' = NoStream /\ completed' = {}
    /\ Push(FALSE, NoStream)
    /\ UNCHANGED <<agentVars, wire, windowVars>>

-----------------------------------------------------------------------------
(* The window. *)

Receive ==
    /\ ipc # <<>> /\ ipc' = Tail(ipc)
    /\ \/ /\ Head(ipc).type = "activity"
          /\ data' = Head(ipc).activity /\ read' = [read EXCEPT !.stale = FALSE]
          /\ UNCHANGED inbox
       \/ /\ Head(ipc).type = "batch"
          /\ inbox' = Append(inbox, Head(ipc)) /\ UNCHANGED <<data, read>>
       \/ /\ Head(ipc).type = "reply"
          /\ data' = IF data # NoData /\ data # read.before THEN data ELSE Head(ipc).activity
          /\ read' = NoRead(FALSE) /\ UNCHANGED inbox
    /\ UNCHANGED <<agentVars, wire, gatewayVars>>

\* Fault: a batch that the window has read already is applied once more.
ShownTwice(acc, b) ==
    LET s == acc.activity.stream
        applied == Applied(s.parts, b.muts)
    IN IF acc.gap \/ ~acc.activity.known \/ ~applied.ok THEN [acc EXCEPT !.gap = TRUE]
       ELSE [acc EXCEPT !.activity.stream =
                [Moved(b, applied.parts) EXCEPT !.seq = IF b.seq > s.seq THEN b.seq ELSE s.seq]]

\* applyDesktopStreamBatch(): a batch the window has is ignored, one that does not follow
\* is a gap.
Shown(acc, b) ==
    LET s == acc.activity.stream
        applied == Applied(s.parts, b.muts)
    IN IF acc.gap \/ ~acc.activity.known THEN [acc EXCEPT !.gap = TRUE]
       ELSE IF b.seq <= s.seq THEN acc
       ELSE IF b.seq # s.seq + 1 \/ ~applied.ok THEN [acc EXCEPT !.gap = TRUE]
       ELSE [acc EXCEPT !.activity.stream = Moved(b, applied.parts)]

\* The frame of the window: all batches or, behind a gap, none of them and a new read (the
\* reply to the read before is not looked at any more).
Flush ==
    /\ inbox # <<>> /\ inbox' = <<>>
    /\ IF data = NoData THEN UNCHANGED <<data, read, ipc>>
       ELSE LET shown == FoldLeft(Shown, [gap |-> FALSE, activity |-> data], inbox)
            IN IF shown.gap
               THEN /\ read' = NoRead(TRUE)
                    /\ ipc' = SelectSeq(ipc, LAMBDA e : e.type # "reply")
                    /\ UNCHANGED data
               ELSE /\ data' = shown.activity /\ read' = [read EXCEPT !.stale = FALSE]
                    /\ UNCHANGED ipc
    /\ UNCHANGED <<agentVars, wire, gatewayVars>>

Ask ==
    /\ read.state = "none" /\ (data = NoData \/ read.stale)
    /\ read' = [state |-> "asked", before |-> data, stale |-> read.stale]
    /\ UNCHANGED <<agentVars, wire, gatewayVars, ipc, data, inbox>>

\* The reply goes the way of the events and comes behind those that were sent before.
Answer ==
    /\ Len(ipc) < MaxIpc
    /\ read.state = "asked" /\ read' = [read EXCEPT !.state = "answered"]
    /\ ipc' = Append(ipc, [type |-> "reply", activity |-> Activity(known.turn, stream)])
    /\ UNCHANGED <<agentVars, wire, gatewayVars, data, inbox>>

-----------------------------------------------------------------------------
AgentStep ==
    \/ StartText \/ TextDelta \/ EndText \/ ModelStarts \/ ModelErrs \/ ToolStart
    \/ \E i \in DOMAIN parts : ToolFinish(i) \/ CommandEnds(i)
    \/ UpdateMetrics \/ Cut \/ CutNothing \/ Written
    \/ \E state \in {"final", "error"} : Close(state)
    \/ CloseBatch \/ CloseFrame \/ LateFrame

GatewayStep == HandleBatch \/ HandleFrame \/ HandleCompletion \/ TurnSettles \/ TurnForgotten

WindowStep == Receive \/ Flush \/ Ask \/ Answer

Next == AgentStep \/ GatewayStep \/ WindowStep

Spec == Init /\ [][Next]_vars

-----------------------------------------------------------------------------
\* Nothing is on its way to the window, and the window has what it asked for.
Arrived ==
    /\ wire = <<>> /\ ipc = <<>> /\ inbox = <<>>
    /\ read.state = "none" /\ ~read.stale /\ data # NoData

\* Once the answer is closed and all has arrived, the window shows what the gateway has:
\* the parts of the answer as the agent closed it, with the commands that ended since, and
\* an end; or nothing, when the turn was replaced.
AnswerArrives ==
    Arrived /\ stage.at = "closed" =>
        /\ data = Activity(known.turn, stream)
        /\ known.turn /\ parts # <<>> =>
              stream.parts = Overlay(parts, detached.ended) /\ stream.state = stage.state

\* What gateway or window show under a number is what the agent had when it cut that
\* number, but for commands that ended in the background.
ShowsWhatWasCut(s) ==
    s.seq > 0 =>
        /\ s.seq \in DOMAIN cut /\ DOMAIN s.parts = DOMAIN cut[s.seq]
        /\ \A i \in DOMAIN s.parts :
              \/ s.parts[i] = cut[s.seq][i]
              \/ i \in detached.ended /\ s.parts = Overlay(s.parts, {i})

StreamsAreTruthful ==
    ShowsWhatWasCut(stream) /\ (data # NoData => ShowsWhatWasCut(data.stream))

\* The window does not go back while it knows the turn: not behind a number it has shown,
\* and under one number not from a command that ended to one that runs.
WindowGoesOn ==
    data # NoData /\ data'.known =>
        /\ data'.stream.seq >= data.stream.seq
        /\ data'.stream.seq = data.stream.seq =>
              \A i \in DOMAIN data.stream.parts :
                  data.stream.parts[i].status = "success" =>
                      data'.stream.parts[i].status = "success"
=============================================================================
