----------------------------- MODULE CardDelivery -----------------------------
(***************************************************************************)
(* The answers of Feishu turns on their way to their cards.  The streamer  *)
(* of a turn emits snapshots of the answer under one emit id, deltas and a *)
(* last one; emit() of the agent is a notification, so a turn never learns *)
(* what became of it.  The gateway handles the notifications of a child in *)
(* one chain: each waits for the delivery of the one before.  CardKit has  *)
(* a stream for each emit and a pump that sends its frames, the newest in  *)
(* place of those that wait, and starts a stream of a session only when    *)
(* the pump of the stream before has ended.  The card is created, recorded *)
(* in the response route, referenced in the chat, updated, and closed.     *)
(***************************************************************************)
EXTENDS Integers, Sequences, FiniteSets, SequencesExt

CONSTANTS
    MaxEmits,      \* bound: turns that stream, numbered in their order
    Sessions,      \* sessions
    SessionOf,     \* SessionOf[e]: the session of turn e
    MaxDeltas,     \* bound: deltas of a turn
    Chained,       \* whether the chain of process-runtime is in front of CardKit
    Faults,        \* what may go wrong
    MaxFaults,     \* bound: how often
    MaxCards       \* bound: cards that are created

Emits == 1 .. MaxEmits
MaxAttempts == 3
None == 0

VARIABLES
    turn,          \* turn[e]: "waiting", "running" or "over"
    sent,          \* sent[e]: the seq of the last frame of the turn
    said,          \* turns whose last frame was emitted
    chain,         \* notifications the gateway has not begun to handle
    head,          \* the frame the chain waits for
    resolving,     \* frames whose session and route are being read
    unsettled,     \* frames whose promise is not settled
    stream,        \* stream[e]: the StreamDelivery of an emit
    pump,          \* pump[e]: where the pump stands and the frame it holds
    tail,          \* tail[s]: the stream the next one of the session waits for
    completed,     \* emits whose stream has ended
    writer,        \* writer[s]: the StreamWriter of a session, or NoWriter
    route,         \* route[e]: the card and the message the route records
    cards,         \* the cards of Feishu
    faults,        \* what went wrong so far
    hurt           \* emits a fault has hit

vars == <<turn, sent, said, chain, head, resolving, unsettled, stream, pump, tail, completed,
          writer, route, cards, faults, hurt>>
agentVars == <<turn, sent, said>>
chainVars == <<chain, head, resolving>>
kitVars == <<unsettled, stream, pump, tail, completed, writer, route, cards>>

NoFrame == [emit |-> None, seq |-> 0, last |-> FALSE, card |-> 0, shared |-> FALSE]
NoStream == [open |-> FALSE, seen |-> 0, last |-> FALSE, pending |-> NoFrame, behind |-> None]
NoWriter == [seq |-> 0, status |-> "none", card |-> 0, fresh |-> FALSE, shared |-> FALSE,
             reopened |-> FALSE]
NoPump == [at |-> "none", frame |-> NoFrame, tries |-> 1]

Init ==
    /\ turn = [e \in Emits |-> "waiting"]
    /\ sent = [e \in Emits |-> 0]
    /\ said = {}
    /\ chain = <<>>
    /\ head = NoFrame
    /\ resolving = {}
    /\ unsettled = {}
    /\ stream = [e \in Emits |-> NoStream]
    /\ pump = [e \in Emits |-> NoPump]
    /\ tail = [s \in Sessions |-> None]
    /\ completed = {}
    /\ writer = [s \in Sessions |-> NoWriter]
    /\ route = [e \in Emits |-> [card |-> 0, shared |-> FALSE]]
    /\ cards = <<>>
    /\ faults = 0
    /\ hurt = {}

\* A fault of the given kind hits the delivery of some emits.
Fault(kind, es) ==
    /\ kind \in Faults /\ faults < MaxFaults
    /\ faults' = faults + 1
    /\ hurt' = hurt \cup es

NoFault == UNCHANGED <<faults, hurt>>

Id(f) == <<f.emit, f.seq>>

-----------------------------------------------------------------------------
\* The agent: the turns of a session run one after the other.
StartTurn(e) ==
    /\ turn[e] = "waiting"
    /\ \A d \in 1 .. e - 1 : SessionOf[d] = SessionOf[e] => turn[d] = "over"
    /\ turn' = [turn EXCEPT ![e] = "running"]
    /\ UNCHANGED <<sent, said, chainVars, kitVars, faults, hurt>>

\* emitFrame(): the notification is written and the streamer goes on.
EmitFrame(e, last) ==
    /\ turn[e] = "running"
    /\ sent' = [sent EXCEPT ![e] = @ + 1]
    /\ chain' = Append(chain, [NoFrame EXCEPT !.emit = e, !.seq = sent'[e], !.last = last])
    /\ UNCHANGED <<head, resolving, kitVars, faults, hurt>>

EmitDelta(e) ==
    /\ sent[e] < MaxDeltas
    /\ EmitFrame(e, FALSE)
    /\ UNCHANGED <<turn, said>>

\* finish(), fail(), and cancel() of a turn that had emitted: the last frame closes it.
EmitLast(e) ==
    /\ EmitFrame(e, TRUE)
    /\ turn' = [turn EXCEPT ![e] = "over"]
    /\ said' = said \cup {e}

\* cancel() of a turn that had not: no card is made for it.
CancelUnseen(e) ==
    /\ turn[e] = "running" /\ sent[e] = 0
    /\ turn' = [turn EXCEPT ![e] = "over"]
    /\ UNCHANGED <<sent, said, chainVars, kitVars, faults, hurt>>

\* The child goes down: its turns are lost, and the chain starts anew without what it held.
\* A delivery that has begun goes on.
Crash ==
    LET lost == {e \in Emits : turn[e] = "running"} \cup {chain[i].emit : i \in DOMAIN chain}
    IN /\ \E e \in Emits : turn[e] = "running"
       /\ Fault("crash", lost)
       /\ turn' = [e \in Emits |-> IF turn[e] = "running" THEN "over" ELSE turn[e]]
       /\ chain' = <<>>
       /\ head' = NoFrame
       /\ UNCHANGED <<sent, said, resolving, kitVars>>

-----------------------------------------------------------------------------
\* The chain: a notification is handled when the delivery of the one before has settled.
Delivered(f) == f \notin resolving /\ Id(f) \notin unsettled

Dispatch ==
    /\ chain # <<>>
    /\ Chained => Delivered(head)
    /\ head' = Head(chain)
    /\ chain' = Tail(chain)
    /\ resolving' = resolving \cup {Head(chain)}
    /\ UNCHANGED <<agentVars, kitVars, faults, hurt>>

\* emit() and handleOutbound() throw: the session or the route cannot be read, or the
\* adapter is not ready.  The error is logged.
Lose(f) ==
    /\ f \in resolving
    /\ Fault("lost", {f.emit})
    /\ resolving' = resolving \ {f}
    /\ UNCHANGED <<agentVars, chain, head, kitVars>>

\* handle(): a stream is opened behind the last one of its session, and the frame put in
\* its slot unless it is late; the frame that was there settles.
Handle(f) ==
    LET e == f.emit
        s == SessionOf[e]
        opened == IF stream[e].open THEN stream[e]
                  ELSE [NoStream EXCEPT !.open = TRUE, !.behind = tail[s]]
        late == e \in completed \/ opened.last \/ f.seq <= opened.seen
        frame == [f EXCEPT !.card = route[e].card, !.shared = route[e].shared]
    IN /\ f \in resolving
       /\ resolving' = resolving \ {f}
       /\ IF late THEN UNCHANGED <<stream, pump, tail, unsettled>>
          ELSE /\ stream' = [stream EXCEPT ![e] = [opened EXCEPT
                                !.seen = f.seq, !.last = f.last, !.pending = frame]]
               /\ unsettled' = (unsettled \ {Id(opened.pending)}) \cup {Id(f)}
               /\ IF stream[e].open THEN UNCHANGED <<pump, tail>>
                  ELSE /\ pump' = [pump EXCEPT ![e].at =
                                      IF tail[s] = None THEN "idle" ELSE "behind"]
                       /\ tail' = [tail EXCEPT ![s] = e]
       /\ UNCHANGED <<agentVars, chain, head, completed, writer, route, cards, faults, hurt>>

-----------------------------------------------------------------------------
\* The pump of an emit.  What follows are the calls of handleLocked(), one step for each
\* that it awaits.
Behind(e) ==
    /\ pump[e].at = "behind" /\ stream[e].behind \in completed
    /\ pump' = [pump EXCEPT ![e].at = "idle"]
    /\ UNCHANGED <<agentVars, chainVars, unsettled, stream, tail, completed, writer, route,
                   cards, faults, hurt>>

\* The frame settles; the last one ends the stream, and the pump with it.
FrameEnds(e, f) ==
    /\ unsettled' = unsettled \ {Id(f)}
    /\ IF f.last
       THEN /\ completed' = completed \cup {e}
            /\ pump' = [pump EXCEPT ![e] = [NoPump EXCEPT !.at = "done"]]
            /\ tail' = [tail EXCEPT ![SessionOf[e]] = IF @ = e THEN None ELSE @]
       ELSE /\ pump' = [pump EXCEPT ![e] = [NoPump EXCEPT !.at = "idle"]]
            /\ UNCHANGED <<completed, tail>>

GoTo(e, f, at, tries) ==
    /\ pump' = [pump EXCEPT ![e] = [at |-> at, frame |-> f, tries |-> tries]]
    /\ UNCHANGED <<unsettled, completed, tail>>

Content(f) == IF f.last THEN "close" ELSE "update"

\* The writer of the session, made from the route the frame was read with.
WriterFor(s, f) ==
    IF writer[s] # NoWriter THEN writer[s]
    ELSE [NoWriter EXCEPT !.status = "active", !.card = f.card, !.shared = f.shared]

\* A frame is taken from the slot.
Take(e) ==
    LET f == stream[e].pending
        s == SessionOf[e]
        w == WriterFor(s, f)
        taken == [w EXCEPT !.seq = f.seq]
    IN /\ pump[e].at = "idle" /\ f # NoFrame
       /\ stream' = [stream EXCEPT ![e].pending = NoFrame]
       /\ IF w.status = "finalized" \/ f.seq <= w.seq
          THEN FrameEnds(e, f) /\ writer' = [writer EXCEPT ![s] = w]
          ELSE IF w.status = "dead"
          THEN /\ FrameEnds(e, f)
               /\ writer' = [writer EXCEPT ![s] = IF f.last THEN NoWriter ELSE taken]
          ELSE /\ GoTo(e, f, IF w.card = 0 THEN "create" ELSE IF ~w.shared THEN "send"
                             ELSE Content(f), 1)
               /\ writer' = [writer EXCEPT ![s] = taken]
       /\ UNCHANGED <<agentVars, chainVars, route, cards, faults, hurt>>

At(e, at) == pump[e].at = at
Frame(e) == pump[e].frame
Writer(e) == writer[SessionOf[e]]
SetWriter(e, w) == writer' = [writer EXCEPT ![SessionOf[e]] = w]
Still == UNCHANGED <<agentVars, chainVars, stream>>

\* ensureCard() throws: the route forgets the card if there is one, and the writer goes.
EnsureFails(e) ==
    IF Writer(e).card # 0
    THEN GoTo(e, Frame(e), "forget", 1) /\ SetWriter(e, [Writer(e) EXCEPT !.status = "dead"])
    ELSE FrameEnds(e, Frame(e)) /\ SetWriter(e, NoWriter)

Create(e) ==
    /\ At(e, "create") /\ Len(cards) < MaxCards
    /\ \/ /\ cards' = Append(cards, [emit |-> e, shown |-> 0, open |-> TRUE, shared |-> FALSE,
                                     final |-> FALSE])
          /\ SetWriter(e, [Writer(e) EXCEPT !.card = Len(cards) + 1, !.fresh = TRUE])
          /\ GoTo(e, Frame(e), "record", 1) /\ NoFault
       \/ Fault("call", {e}) /\ EnsureFails(e) /\ UNCHANGED cards
    /\ Still /\ UNCHANGED route

RecordCard(e) ==
    /\ At(e, "record")
    /\ \/ /\ route' = [route EXCEPT ![e].card = Writer(e).card]
          /\ GoTo(e, Frame(e), "send", 1) /\ NoFault /\ UNCHANGED writer
       \/ Fault("patch", {e}) /\ EnsureFails(e) /\ UNCHANGED route
    /\ Still /\ UNCHANGED cards

\* The chat gets a reference to the card.  Feishu may not know a card it has just created.
SendReference(e) ==
    /\ At(e, "send")
    /\ \/ /\ cards' = [cards EXCEPT ![Writer(e).card].shared = TRUE]
          /\ SetWriter(e, [Writer(e) EXCEPT !.shared = TRUE])
          /\ GoTo(e, Frame(e), "handle", 1) /\ NoFault
       \/ /\ Writer(e).fresh /\ pump[e].tries < MaxAttempts
          /\ "reference" \in Faults
          /\ GoTo(e, Frame(e), "send", pump[e].tries + 1)
          /\ NoFault /\ UNCHANGED <<cards, writer>>
       \/ Fault("call", {e}) /\ EnsureFails(e) /\ UNCHANGED cards
    /\ Still /\ UNCHANGED route

RecordMessage(e) ==
    /\ At(e, "handle")
    /\ \/ /\ route' = [route EXCEPT ![e].shared = TRUE]
          /\ GoTo(e, Frame(e), Content(Frame(e)), 1) /\ NoFault /\ UNCHANGED writer
       \/ Fault("patch", {e}) /\ EnsureFails(e) /\ UNCHANGED route
    /\ Still /\ UNCHANGED cards

\* The end of ensureCard() that has failed, whether or not the route takes the patch.
Forget(e) ==
    /\ At(e, "forget")
    /\ \/ route' = [route EXCEPT ![e].card = 0] /\ NoFault
       \/ Fault("patch", {e}) /\ UNCHANGED route
    /\ FrameEnds(e, Frame(e)) /\ SetWriter(e, NoWriter)
    /\ Still /\ UNCHANGED cards

\* Fault: the last frame leaves the dead writer to the session.
CallFailsForGood(e) ==
    /\ Fault("call", {e})
    /\ FrameEnds(e, Frame(e))
    /\ SetWriter(e, [Writer(e) EXCEPT !.status = "dead"])

\* recoverOrFail(): a card that has left the streaming mode is reopened once; otherwise the
\* writer is dead, and the last frame takes it away.
CallFails(e) ==
    \/ /\ Fault("call", {e})
       /\ FrameEnds(e, Frame(e))
       /\ SetWriter(e, IF Frame(e).last THEN NoWriter ELSE [Writer(e) EXCEPT !.status = "dead"])
    \/ /\ Fault("closed", {}) /\ pump[e].tries = 1 /\ ~Writer(e).reopened
       /\ GoTo(e, Frame(e), "reopen", 1)
       /\ SetWriter(e, [Writer(e) EXCEPT !.reopened = TRUE])
    \/ /\ Fault("closed", {e}) /\ (pump[e].tries = 2 \/ Writer(e).reopened)
       /\ FrameEnds(e, Frame(e))
       /\ SetWriter(e, IF Frame(e).last THEN NoWriter ELSE [Writer(e) EXCEPT !.status = "dead"])

Update(e) ==
    /\ At(e, "update")
    /\ \/ /\ cards' = [cards EXCEPT ![Writer(e).card].shown = Frame(e).seq]
          /\ FrameEnds(e, Frame(e)) /\ NoFault /\ UNCHANGED writer
       \/ CallFails(e) /\ UNCHANGED cards
    /\ Still /\ UNCHANGED route

Reopen(e) ==
    /\ At(e, "reopen")
    /\ \/ /\ cards' = [cards EXCEPT ![Writer(e).card].open = TRUE]
          /\ GoTo(e, Frame(e), Content(Frame(e)), 2) /\ NoFault /\ UNCHANGED writer
       \/ /\ Fault("call", {e})
          /\ FrameEnds(e, Frame(e))
          /\ IF Frame(e).last THEN SetWriter(e, NoWriter) ELSE UNCHANGED writer
          /\ UNCHANGED cards
    /\ Still /\ UNCHANGED route

\* finalize(): the card leaves the streaming mode, and then gets its last form.
Close(e) ==
    /\ At(e, "close")
    /\ \/ /\ cards' = [cards EXCEPT ![Writer(e).card].open = FALSE]
          /\ GoTo(e, Frame(e), "finish", pump[e].tries) /\ NoFault /\ UNCHANGED writer
       \/ CallFails(e) /\ UNCHANGED cards
    /\ Still /\ UNCHANGED route

Finish(e) ==
    /\ At(e, "finish")
    /\ \/ /\ cards' = [cards EXCEPT ![Writer(e).card] =
                           [@ EXCEPT !.shown = Frame(e).seq, !.final = TRUE]]
          /\ SetWriter(e, [Writer(e) EXCEPT !.status = "finalized"])
          /\ GoTo(e, Frame(e), "clear", 1) /\ NoFault
       \/ CallFails(e) /\ UNCHANGED cards
    /\ Still /\ UNCHANGED route

\* The route forgets the card.  When it cannot, the writer stays as it is.
ClearRoute(e) ==
    /\ At(e, "clear")
    /\ \/ /\ route' = [route EXCEPT ![e].card = 0]
          /\ SetWriter(e, NoWriter) /\ NoFault
       \/ Fault("clear", {e}) /\ UNCHANGED <<route, writer>>
    /\ FrameEnds(e, Frame(e))
    /\ Still /\ UNCHANGED cards

Call(e) ==
    \/ Create(e) \/ RecordCard(e) \/ SendReference(e) \/ RecordMessage(e) \/ Forget(e)
    \/ Update(e) \/ Reopen(e) \/ Close(e) \/ Finish(e) \/ ClearRoute(e)

Next ==
    \/ \E e \in Emits :
          \/ StartTurn(e) \/ EmitDelta(e) \/ EmitLast(e) \/ CancelUnseen(e)
          \/ Behind(e) \/ Take(e) \/ Call(e)
    \/ Crash \/ Dispatch
    \/ \E f \in resolving : Lose(f) \/ Handle(f)

Spec == Init /\ [][Next]_vars

-----------------------------------------------------------------------------
TypeOK ==
    /\ said \subseteq Emits /\ completed \subseteq Emits /\ hurt \subseteq Emits
    /\ \A e \in Emits : sent[e] \in 0 .. MaxDeltas + 1
    /\ Len(cards) <= MaxCards /\ faults \in 0 .. MaxFaults

\* Nothing is on its way: what waits now waits for ever.
AtRest ==
    /\ \A e \in Emits :
          /\ turn[e] = "over"
          /\ \/ pump[e].at \in {"none", "done"}
             \/ pump[e].at = "idle" /\ stream[e].pending = NoFrame
             \/ pump[e].at = "behind" /\ stream[e].behind \notin completed
    /\ resolving = {}
    /\ chain = <<>> \/ (Chained /\ ~Delivered(head))

\* A failure is one of its own delivery only: at rest the answer of every turn whose own
\* calls have succeeded is on its card, whole and closed.
FailuresStayLocal ==
    AtRest => \A e \in said \ hurt :
        \E c \in DOMAIN cards :
            /\ cards[c].emit = e /\ cards[c].shared /\ cards[c].final
            /\ cards[c].shown = sent[e]

\* No promise is forgotten: a frame that has not settled is in the slot of its stream or in
\* the hands of its pump.
FramesAreHeld ==
    \A id \in unsettled :
        \/ Id(stream[id[1]].pending) = id
        \/ Id(pump[id[1]].frame) = id

\* A turn's card is made when the streams that the session opened before have ended, and
\* no two pumps of a session are at work.
OnePumpPerSession ==
    \A d, e \in Emits :
        (d # e /\ SessionOf[d] = SessionOf[e]) =>
            pump[d].at \in {"none", "behind", "done"} \/ pump[e].at \in {"none", "behind", "done"}

\* What a card shows does not go back to an older snapshot, a card that was closed for good
\* stays so, and it is updated with its own turn's frames.
CardsGoForward ==
    \A c \in DOMAIN cards :
        /\ cards'[c].shown >= cards[c].shown
        /\ cards[c].final => cards'[c] = cards[c]
        /\ cards'[c] # cards[c] => pump[cards[c].emit].at \in {"send", "update", "reopen", "close", "finish"}
=============================================================================
