--------------------------- MODULE TranscriptStore ---------------------------
(***************************************************************************)
(* The transcript of one session in AgentStore: an append-only file of     *)
(* events, the SQLite row and index that project it, and the replay cache, *)
(* with the turn, the title service and the users that write to it.        *)
(*                                                                         *)
(* Writes of a session run one at a time on a promise chain (queue); the   *)
(* head stands at one of its awaits (phase).  A turn loads outside of the  *)
(* chain.  A crash may leave an append half written, a loss of power may   *)
(* also take back lines that were never synced; the row is SQLite's and    *)
(* survives both.                                                          *)
(***************************************************************************)
EXTENDS Integers, Sequences, SequencesExt

CONSTANTS
    MaxMessages,    \* bound: messages of the session
    MaxOfAKind,     \* bound: replacements of the context, model selections, titles set
                    \* by a user, and crashes, with or without power
    MaxIncidents    \* bound: all of these together

VARIABLES
    file,       \* the terminated lines of the transcript
    tail,       \* what follows the last newline
    synced,     \* how many lines an fsync has covered
    row,        \* the session's columns in agent_sessions
    indexed,    \* transcript_file_state: how many lines the index has
    cache,      \* the entry of replayCache
    queue,      \* writeQueues: the session's writes, the running one first
    phase,      \* where the running write stands
    read,       \* what the running write has read before its append
    turn,       \* the turn of the session
    title,      \* the work of the title service
    acked,      \* the last selection a client got an answer for
    used        \* how much of each bound is used

disk == <<file, tail, synced>>
database == <<row, indexed>>
writing == <<queue, phase, read>>
vars == <<disk, database, cache, writing, turn, title, acked, used>>

-----------------------------------------------------------------------------
Nothing == [kind |-> "none"]
Torn == [kind |-> "torn"]       \* part of a line, which no parser accepts

Message(m, first) == [kind |-> "message", id |-> m, first |-> first]
TurnContext(v) == [kind |-> "turn_context", version |-> v]
ModelSelection(v) == [kind |-> "model_selection", version |-> v]
SessionTitle(s, v, m) == [kind |-> "session_title", source |-> s, version |-> v, input |-> m]
TitleRequest == [kind |-> "session_title_request"]
ContextPatch(from, count, new) ==
    [kind |-> "context_patch", start |-> from, deleted |-> count, inserted |-> new]

\* The summary a compaction puts in the place of messages; ids of messages are 1, 2, ...
Summary == 0

\* applyTranscriptEvent(): how an event changes the context a model sees.
ApplyEvent(messages, e) ==
    CASE e.kind = "message" -> Append(messages, e.id)
      [] e.kind = "context_patch" ->
            SubSeq(messages, 1, e.start) \o e.inserted
              \o SubSeq(messages, e.start + e.deleted + 1, Len(messages))
      [] OTHER -> messages

Replay(lines) == FoldLeft(ApplyEvent, <<>>, lines)

\* A load takes an unterminated last line that parses, the index does not.
Readable == IF tail \in {Nothing, Torn} THEN file ELSE Append(file, tail)

SharedPrefix(a, b) ==
    CHOOSE n \in 0..Len(a) : /\ n <= Len(b)
                             /\ SubSeq(a, 1, n) = SubSeq(b, 1, n)
                             /\ n < Len(a) /\ n < Len(b) => a[n + 1] # b[n + 1]

\* createContextPatchEvent(): what differs between the two contexts.
PatchBetween(previous, next) ==
    LET prefix == SharedPrefix(previous, next)
        rest(s) == Reverse(SubSeq(s, prefix + 1, Len(s)))
        suffix == SharedPrefix(rest(previous), rest(next))
    IN  ContextPatch(prefix, Len(previous) - prefix - suffix,
                     SubSeq(next, prefix + 1, Len(next) - suffix))

-----------------------------------------------------------------------------
\* The index: one SQLite transaction that folds the lines it has not seen yet.

NoRow == [exists |-> FALSE, selection |-> 0, pending |-> 0, source |-> "",
          version |-> 0, input |-> 0, attempted |-> FALSE]
NewRow == [NoRow EXCEPT !.exists = TRUE]

FoldRow(r, e) ==
    CASE e.kind = "model_selection" ->
            [r EXCEPT !.selection = e.version, !.pending = e.version]
      [] e.kind = "turn_context" /\ e.version = r.selection -> [r EXCEPT !.pending = 0]
      [] e.kind = "session_title" ->
            [r EXCEPT !.source = e.source, !.version = e.version,
                      !.input = IF e.input # 0 THEN e.input ELSE @]
      [] e.kind = "session_title_request" -> [r EXCEPT !.attempted = TRUE]
      [] e.kind = "message" /\ e.first /\ r.input = 0 -> [r EXCEPT !.input = e.id]
      [] OTHER -> r

Unindexed == -1
Stat == <<file, tail>>      \* size and mtime tell one content from another
Missing == file = <<>> /\ tail = Nothing
Forgotten(r) == [r EXCEPT !.selection = 0, !.pending = 0]

\* syncTranscriptIndex() on a disk that holds the lines f and the tail t; a file that
\* became shorter than what was indexed is indexed from its beginning.
SyncedRow(f, t) ==
    LET rebuild == indexed = Unindexed \/ indexed > Len(f)
    IN  IF f = <<>> /\ t = Nothing THEN Forgotten(row)
        ELSE IF ~row.exists THEN row
        ELSE IF rebuild THEN FoldLeft(FoldRow, Forgotten(row), f)
        ELSE FoldLeft(FoldRow, row, SubSeq(f, indexed + 1, Len(f)))

SyncTranscriptIndex(f, t) ==
    /\ row' = SyncedRow(f, t)
    /\ indexed' = IF f = <<>> /\ t = Nothing THEN Unindexed ELSE Len(f)

-----------------------------------------------------------------------------
NoCache == [stat |-> <<>>, messages |-> <<>>]
CacheIsValid == cache # NoCache /\ cache.stat = Stat

\* appendTranscriptEvent(): an unterminated tail that parses lost only its newline
\* and is sealed; one that does not is cut off.
Repaired == Readable

AppendEvents(events) ==
    /\ file' = Repaired \o events
    /\ tail' = Nothing

\* What a running write carries over its awaits; saved is a transcript renamed away.
NoRead == [event |-> Nothing, title |-> FALSE, cached |-> FALSE, saved |-> <<>>]

\* A write: the expected version of a selection or a title (-1: any), the message
\* and whether a user wrote it, the new context, and whether its caller aborted it.
NewWrite == [kind |-> "", version |-> -1, id |-> 0, user |-> FALSE, context |-> <<>>,
             aborted |-> FALSE]
Write(k) == [NewWrite EXCEPT !.kind = k]

TitleWrites == {"request", "provider_title"}

EnqueueOn(q, w) ==
    /\ queue' = Append(q, w)
    /\ phase' = IF q = <<>> THEN "queued" ELSE phase
    /\ UNCHANGED read

Enqueue(w) == EnqueueOn(queue, w)

IdleTurn == [at |-> "idle", ahead |-> 0, version |-> 0, context |-> <<>>, id |-> 0]
IdleTitle == [at |-> "idle", ahead |-> 0, version |-> 0, id |-> 0]

Allowed(spent) ==
    /\ spent < MaxOfAKind
    /\ used.patches + used.selections + used.renames + used.crashes + used.losses < MaxIncidents

Count(field) == used' = [used EXCEPT ![field] = @ + 1]

Init ==
    /\ file = <<>> /\ tail = Nothing /\ synced = 0
    /\ row = NewRow /\ indexed = Unindexed
    /\ cache = NoCache
    /\ queue = <<>> /\ phase = "idle" /\ read = NoRead
    /\ turn = IdleTurn /\ title = IdleTitle
    /\ acked = 0
    /\ used = [messages |-> 0, patches |-> 0, selections |-> 0, renames |-> 0,
               crashes |-> 0, losses |-> 0]

-----------------------------------------------------------------------------
\* The running write.

Running(kinds) == phase = "queued" /\ Head(queue).kind \in kinds

Step(p, r) == phase' = p /\ read' = r /\ UNCHANGED queue

\* The write is over: the next one runs, and those who wait for it are one nearer.
Nearer(a) == IF a.ahead > 0 THEN [a EXCEPT !.ahead = @ - 1] ELSE a
EndWrite ==
    /\ queue' = Tail(queue)
    /\ phase' = IF Tail(queue) = <<>> THEN "idle" ELSE "queued"
    /\ read' = NoRead

\* appendMessage() up to its append: the index is caught up first, so that the
\* first input of the session is chosen knowing all that is in the file.
BeginMessage ==
    /\ Running({"message"})
    /\ SyncTranscriptIndex(file, tail)
    /\ cache' = IF CacheIsValid THEN cache ELSE NoCache
    /\ LET w == Head(queue)
           titled == w.user /\ row'.exists
       IN  Step("append",
                [NoRead EXCEPT !.event = Message(w.id, titled /\ row'.input = 0),
                               !.title = titled /\ row'.source = "" /\ row'.version = 0,
                               !.cached = CacheIsValid])
    /\ UNCHANGED <<disk, turn, title, acked, used>>

\* appendTurnContext()
BeginContext ==
    /\ Running({"turn_context"})
    /\ cache' = IF CacheIsValid THEN cache ELSE NoCache
    /\ Step("append", [NoRead EXCEPT !.event = TurnContext(Head(queue).version),
                                     !.cached = CacheIsValid])
    /\ UNCHANGED <<disk, database, turn, title, acked, used>>

\* replaceMessages(): the previous context is loaded by the write itself.
BeginReplacement ==
    /\ Running({"replacement"})
    /\ LET previous == IF CacheIsValid THEN cache.messages ELSE Replay(Readable)
       IN  /\ cache' = [stat |-> Stat, messages |-> previous]
           /\ Step("append",
                   [NoRead EXCEPT !.event = PatchBetween(previous, Head(queue).context)])
    /\ UNCHANGED <<disk, database, turn, title, acked, used>>

\* setSessionModelSelection(): the version the client expects, or a refusal.
BeginSelection ==
    /\ Running({"selection"})
    /\ SyncTranscriptIndex(file, tail)
    /\ IF row'.exists /\ Head(queue).version \in {-1, row'.selection}
       THEN /\ Step("append", [NoRead EXCEPT !.event = ModelSelection(row'.selection + 1)])
            /\ UNCHANGED <<turn, title>>
       ELSE /\ EndWrite
            /\ turn' = Nearer(turn) /\ title' = Nearer(title)
    /\ UNCHANGED <<disk, cache, acked, used>>

\* acceptTitle() and recordTitleRequest(): whether the session is still there, the
\* title the one the caller saw, and its signal not aborted, is looked up inside the
\* write.
TitleAllowed(r, w) == r.exists /\ ~w.aborted /\ w.version \in {-1, r.version}

BeginTitleWrite ==
    /\ Running(TitleWrites \cup {"user_title"})
    /\ SyncTranscriptIndex(file, tail)
    /\ LET w == Head(queue)
           event == CASE w.kind = "request" -> TitleRequest
                      [] w.kind = "provider_title" -> SessionTitle("provider", row'.version + 1, 0)
                      [] w.kind = "user_title" -> SessionTitle("user", row'.version + 1, 0)
       IN  IF TitleAllowed(row', w)
           THEN /\ Step("append", [NoRead EXCEPT !.event = event])
                /\ UNCHANGED <<turn, title>>
           ELSE /\ EndWrite
                /\ turn' = Nearer(turn)
                /\ title' = IF w.kind \in TitleWrites /\ ~w.aborted
                            THEN IdleTitle ELSE Nearer(title)
    /\ UNCHANGED <<disk, cache, acked, used>>

\* deleteSession(): the transcript is renamed away, then the rows are deleted in
\* one transaction, or the transcript comes back.
BeginDeletion ==
    /\ Running({"deletion"})
    /\ row.exists
    /\ file' = <<>> /\ tail' = Nothing /\ synced' = 0
    /\ acked' = 0
    /\ Step("deleting", [NoRead EXCEPT !.saved = Stat])
    /\ UNCHANGED <<database, cache, turn, title, used>>

EndDeletion ==
    /\ phase = "deleting"
    /\ \/ row' = NoRow /\ indexed' = Unindexed /\ cache' = NoCache /\ UNCHANGED disk
       \/ /\ file' = read.saved[1] /\ tail' = read.saved[2]
          /\ UNCHANGED <<synced, database, cache>>
    /\ EndWrite
    /\ turn' = Nearer(turn) /\ title' = Nearer(title)
    /\ UNCHANGED <<acked, used>>

\* The append itself; a first input gets its fallback title with a second one.
AppendEvent ==
    /\ phase = "append"
    /\ AppendEvents(<<read.event>>)
    /\ phase' = IF read.title THEN "title"
                ELSE IF read.event.kind = "model_selection" THEN "sync" ELSE "finish"
    /\ UNCHANGED <<synced, database, cache, queue, read, turn, title, acked, used>>

FallbackTitle(e) == SessionTitle("fallback", 1, IF e.first THEN e.id ELSE row.input)

AppendFallbackTitle ==
    /\ phase = "title"
    /\ AppendEvents(<<FallbackTitle(read.event)>>)
    /\ phase' = "finish"
    /\ UNCHANGED <<synced, database, cache, queue, read, turn, title, acked, used>>

\* A selection is on the disk before it is acknowledged.
SyncSelection ==
    /\ phase = "sync"
    /\ synced' = Len(file)
    /\ phase' = "finish"
    /\ UNCHANGED <<file, tail, database, cache, queue, read, turn, title, acked, used>>

\* Fault: the entry is stamped as valid and the message left out.
CacheWithoutMessage(w) ==
    IF w.kind \in {"message", "turn_context"} /\ read.cached /\ cache # NoCache
    THEN [cache EXCEPT !.stat = Stat]
    ELSE IF w.kind = "turn_context" THEN cache ELSE NoCache

\* What the write does to the replay cache: extend the entry, replace it, move it to
\* the new size of the file, or drop it.
CacheAfter(w) ==
    CASE w.kind = "message" /\ read.cached /\ cache # NoCache ->
            [stat |-> Stat, messages |-> Append(cache.messages, w.id)]
      [] w.kind = "turn_context" /\ read.cached /\ cache # NoCache ->
            [cache EXCEPT !.stat = Stat]
      [] w.kind = "turn_context" /\ ~read.cached -> cache
      [] w.kind = "replacement" -> [stat |-> Stat, messages |-> w.context]
      [] OTHER -> NoCache

FinishWrite ==
    /\ phase = "finish"
    /\ cache' = CacheAfter(Head(queue))
    /\ UNCHANGED <<disk, used>>
    /\ SyncTranscriptIndex(file, tail)
    /\ EndWrite
    /\ LET w == Head(queue)
       IN  /\ turn' = CASE w.kind = "turn_context" -> [turn EXCEPT !.at = "load", !.ahead = Len(queue) - 1]
                        [] w.kind \in {"message", "replacement"} -> [turn EXCEPT !.at = "model"]
                        [] OTHER -> Nearer(turn)
           /\ title' = CASE w.kind = "request" /\ ~w.aborted -> [title EXCEPT !.at = "provider"]
                         [] w.kind = "provider_title" /\ ~w.aborted -> IdleTitle
                         [] OTHER -> Nearer(title)
           /\ acked' = IF w.kind = "selection" THEN read.event.version ELSE acked

-----------------------------------------------------------------------------
\* The turn: its context record, the load, the user's message, and then the model's
\* answers and the replacements of a context that grew too long.

StartTurn ==
    /\ turn.at = "idle" /\ row.exists
    /\ \A n \in DOMAIN queue : queue[n].kind # "deletion"
    /\ used.messages < MaxMessages
    /\ turn' = [IdleTurn EXCEPT !.at = "context", !.version = row.selection]
    /\ Enqueue([Write("turn_context") EXCEPT !.version = row.selection])
    /\ UNCHANGED <<disk, database, cache, title, acked, used>>

\* The user's message goes to the end of what was loaded, and then to the file.
SaveUserMessage(context) ==
    LET m == used.messages + 1
    IN  /\ turn' = [turn EXCEPT !.at = "saving", !.context = Append(context, m), !.id = m]
        /\ Enqueue([Write("message") EXCEPT !.id = m, !.user = TRUE])
        /\ Count("messages")

\* loadMessages(): it waits for the writes that were there when it was called only.
LoadFromCache ==
    /\ turn.at = "load" /\ turn.ahead = 0
    /\ CacheIsValid
    /\ SaveUserMessage(cache.messages)
    /\ UNCHANGED <<disk, database, cache, title, acked>>

ReadTranscript ==
    /\ turn.at = "load" /\ turn.ahead = 0
    /\ ~CacheIsValid
    /\ turn' = [turn EXCEPT !.at = "install", !.context = Replay(Readable)]
    /\ UNCHANGED <<disk, database, cache, writing, title, acked, used>>

\* The entry gets the size the file has now, not the one it had when it was read.
InstallCache ==
    /\ turn.at = "install"
    /\ cache' = [stat |-> Stat, messages |-> turn.context]
    /\ SaveUserMessage(turn.context)
    /\ UNCHANGED <<disk, database, title, acked>>

\* The entry goes when other sessions need the room.
EvictCache ==
    /\ cache # NoCache
    /\ cache' = NoCache
    /\ UNCHANGED <<disk, database, writing, turn, title, acked, used>>

Answer ==
    /\ turn.at = "model" /\ used.messages < MaxMessages
    /\ LET m == used.messages + 1
       IN  /\ turn' = [turn EXCEPT !.at = "saving", !.context = Append(@, m)]
           /\ Enqueue([Write("message") EXCEPT !.id = m])
    /\ Count("messages")
    /\ UNCHANGED <<disk, database, cache, title, acked>>

\* A compaction puts a summary before the last message, a repair drops the last one.
ReplaceContext ==
    /\ turn.at = "model" /\ turn.context # <<>> /\ Allowed(used.patches)
    /\ \E context \in {<<Summary, Last(turn.context)>>, Front(turn.context)} :
         /\ turn' = [turn EXCEPT !.at = "saving", !.context = context]
         /\ Enqueue([Write("replacement") EXCEPT !.context = context])
    /\ Count("patches")
    /\ UNCHANGED <<disk, database, cache, title, acked>>

EndTurn ==
    /\ turn.at = "model"
    /\ turn' = IdleTurn
    /\ UNCHANGED <<disk, database, cache, writing, title, acked, used>>

-----------------------------------------------------------------------------
\* The title service and the users.

\* onMainRequest(): one generation at a time, for the message the turn began with.
StartTitle ==
    /\ turn.at = "model" /\ title.at = "idle"
    /\ row.source = "fallback" /\ ~row.attempted
    /\ title' = [IdleTitle EXCEPT !.at = "state", !.ahead = Len(queue), !.id = turn.id]
    /\ UNCHANGED <<disk, database, cache, writing, turn, acked, used>>

\* generate(): titleState() once the writes before it are done, and the record of
\* the request if there is a first input to name.
RequestTitle ==
    /\ title.at = "state" /\ title.ahead = 0
    /\ UNCHANGED disk
    /\ SyncTranscriptIndex(file, tail)
    /\ IF row'.source = "fallback" /\ ~row'.attempted /\ row'.input # 0 /\ row'.input = title.id
       THEN /\ title' = [title EXCEPT !.at = "request", !.version = row'.version]
            /\ Enqueue([Write("request") EXCEPT !.version = row'.version])
       ELSE title' = IdleTitle /\ UNCHANGED writing
    /\ UNCHANGED <<cache, turn, acked, used>>

TitleAnswers ==
    /\ title.at = "provider"
    /\ title' = [title EXCEPT !.at = "accept"]
    /\ Enqueue([Write("provider_title") EXCEPT !.version = title.version])
    /\ UNCHANGED <<disk, database, cache, turn, acked, used>>

TitleFails ==
    /\ title.at = "provider"
    /\ title' = IdleTitle
    /\ UNCHANGED <<disk, database, cache, writing, turn, acked, used>>

\* cancel(): what the title service has in the queue is aborted.
Aborted == [n \in DOMAIN queue |-> IF queue[n].kind \in TitleWrites
                                   THEN [queue[n] EXCEPT !.aborted = TRUE] ELSE queue[n]]

RenameSession ==
    /\ row.exists /\ used.messages > 0 /\ Allowed(used.renames)
    /\ title' = IdleTitle
    /\ EnqueueOn(Aborted, Write("user_title"))
    /\ Count("renames")
    /\ UNCHANGED <<disk, database, cache, turn, acked>>

SelectModel ==
    /\ row.exists /\ Allowed(used.selections)
    /\ \E expected \in {-1, row.selection} :
         Enqueue([Write("selection") EXCEPT !.version = expected])
    /\ Count("selections")
    /\ UNCHANGED <<disk, database, cache, turn, title, acked>>

\* The gateway deletes a session when it has no turn (deleteSession() of the
\* dashboard service cancels the title first).
DeleteSession ==
    /\ row.exists /\ turn.at = "idle"
    /\ \A n \in DOMAIN queue : queue[n].kind # "deletion"
    /\ title' = IdleTitle
    /\ EnqueueOn(Aborted, Write("deletion"))
    /\ UNCHANGED <<disk, database, cache, turn, acked, used>>

-----------------------------------------------------------------------------
\* The process dies.  Of an append that was running nothing, a part, all but the
\* newline, or all is in the file; without power lines that no fsync covered go too.

Appending ==
    CASE phase = "append" -> {<<Readable, Nothing>>, <<Readable, Torn>>, <<Readable, read.event>>}
      [] phase = "title" -> {<<Readable, Torn>>, <<Readable, FallbackTitle(read.event)>>}
      [] OTHER -> {}

LostLines ==
    UNION {{<<SubSeq(file, 1, n), t>> : t \in {Nothing, Torn, file[n + 1]}}
           : n \in synced..(Len(file) - 1)}

\* start() brings the index up to date before anything else reads or writes.
Restart(d) ==
    /\ file' = d[1] /\ tail' = d[2]
    /\ SyncTranscriptIndex(d[1], d[2])
    /\ cache' = NoCache
    /\ queue' = <<>> /\ phase' = "idle" /\ read' = NoRead
    /\ turn' = IdleTurn /\ title' = IdleTitle
    /\ UNCHANGED <<synced, acked>>

Crash ==
    /\ Allowed(used.crashes + used.losses)
    /\ \E d \in {Stat} \cup Appending : Restart(d)
    /\ Count("crashes")

LosePower ==
    /\ Allowed(used.crashes + used.losses)
    /\ \E d \in LostLines : Restart(d)
    /\ Count("losses")

-----------------------------------------------------------------------------
Writing == \/ BeginMessage \/ BeginContext \/ BeginReplacement \/ BeginSelection
           \/ BeginTitleWrite \/ BeginDeletion \/ EndDeletion \/ AppendEvent
           \/ AppendFallbackTitle \/ SyncSelection \/ FinishWrite

Turning == \/ StartTurn \/ LoadFromCache \/ ReadTranscript \/ InstallCache
           \/ Answer \/ ReplaceContext \/ EndTurn \/ EvictCache

Others == \/ StartTitle \/ RequestTitle \/ TitleAnswers \/ TitleFails
          \/ RenameSession \/ SelectModel \/ DeleteSession \/ Crash \/ LosePower

Next == Writing \/ Turning \/ Others

Spec == Init /\ [][Next]_vars

-----------------------------------------------------------------------------
Versions == 0..(2 * MaxOfAKind + 2)

TypeOK ==
    /\ \A n \in DOMAIN file : file[n].kind \in
         {"message", "turn_context", "model_selection", "session_title",
          "session_title_request", "context_patch"}
    /\ synced \in 0..Len(file)
    /\ row \in [exists : BOOLEAN, selection : Versions, pending : Versions,
                source : {"", "fallback", "provider", "user"}, version : Versions,
                input : 0..MaxMessages, attempted : BOOLEAN]
    /\ indexed \in Nat \cup {Unindexed}
    /\ phase \in {"idle", "queued", "append", "title", "sync", "finish", "deleting"}
    /\ phase = "idle" <=> queue = <<>>
    /\ turn.at \in {"idle", "context", "load", "install", "saving", "model"}
    /\ title.at \in {"idle", "state", "request", "provider", "accept"}

\* A deleted session leaves no transcript behind, whatever was still queued
\* (acceptTitle, recordTitleRequest, setSessionModelSelection look for the session).
NoGhostTranscript == ~row.exists => Missing

\* A model selection that was acknowledged survives every crash, and stays pending
\* until a turn that knew of it has begun, not one that began before
\* (setSessionModelSelection, the projection in syncTranscriptIndex).
AcknowledgedSelectionKept ==
    row.exists =>
      /\ row.selection >= acked
      /\ acked > 0 /\ row.pending = 0 =>
           \E n \in DOMAIN file : file[n].kind = "turn_context" /\ file[n].version >= acked

\* The types, and the two promises the session's row takes part in: no transcript
\* without a session, no acknowledged selection that is lost.
TranscriptInv == TypeOK /\ NoGhostTranscript /\ AcknowledgedSelectionKept

\* A replay cache entry that is valid holds what a replay of the file gives, and so
\* does the context the turn works with between its writes: a restart would go on
\* with the same messages (loadMessages, appendReplayCacheMessage, replaceMessages).
ReplayIsTheTranscript ==
    /\ CacheIsValid => cache.messages = Replay(Readable)
    /\ turn.at \in {"install", "model"} => turn.context = Replay(Readable)

\* No event that a load could show is withdrawn by an append, a crash or the repair
\* of what a crash left; only a deletion and a loss of power take events back.
NothingWithdrawn ==
    \/ IsPrefix(Readable, Readable')
    \/ phase' = "deleting"
    \/ used'.losses # used.losses

\* A title a user gave is never replaced by a late answer of the provider or a
\* fallback, and no crash lets a later prompt become the source of the title.
TitleKeepsItsPlace ==
    /\ row.source = "user" => row'.source = "user" \/ ~row'.exists \/ used'.losses > 0
    /\ row'.input # 0 => \A n \in DOMAIN file' :
         n <= indexed' /\ file'[n].kind = "message" => row'.input <= file'[n].id

=============================================================================
