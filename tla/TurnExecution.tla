---------------------------- MODULE TurnExecution ----------------------------
(***************************************************************************)
(* The execution of turns over one transcript: steps that ask the provider *)
(* and dispatch the tool calls of its answer, with steering, cancellation, *)
(* repair and compaction of the context, failing writes and crashes.       *)
(*                                                                         *)
(* A message is known by what it is about: the number of an input, or the  *)
(* numbers of the calls an assistant makes or a tool message answers.      *)
(* Turns of one session run one after the other, so nothing but the turn   *)
(* writes its transcript.                                                  *)
(***************************************************************************)
EXTENDS Integers, Sequences, SequencesExt

CONSTANTS
    MaxSteps,    \* maxSteps
    MaxAttempts, \* DEFAULT_PROVIDER_ATTEMPTS
    MaxCalls,    \* bound: tool calls of one answer
    MaxTurns,    \* bound: turns
    MaxNumbers,  \* bound: inputs, steering messages and calls
    MaxIncidents \* bound: failures, crashes, cancels, compactions, odd answers

VARIABLES
    transcript, \* the messages a load of the session returns
    messages,   \* messages: what the running turn keeps in memory
    at,         \* where runTurn stands
    step,       \* step, from 1
    attempt,    \* attempt
    forced,     \* whether an overflow was answered with a compaction in this step
    answer,     \* response.stopReason
    inbox,      \* handle: steering that was not drained
    cancelled,  \* handle.signal, with the reason of the cancel
    waiting,    \* calls of the answer that were not dispatched
    running,    \* calls of the current wave that run
    done,       \* calls with a result slot
    outcome,    \* outcome of the last turn
    excused,    \* history: calls that lost their result to a crash, a write, a cut answer
    turns, numbers, incidents

contextVars == <<transcript, messages>>
callVars == <<waiting, running, done>>
stepVars == <<step, attempt, forced, answer>>
vars == <<contextVars, at, stepVars, inbox, cancelled, callVars, outcome, excused, turns,
          numbers, incidents>>

-----------------------------------------------------------------------------
Roles == {"user", "environment", "assistant", "results", "missing", "summary"}
Msg(role, about) == [role |-> role, about |-> about]
Inputs(ns) == [n \in DOMAIN ns |-> Msg("user", {ns[n]})]

Calls(ms, n) == UNION {ms[m].about : m \in {m \in 1..n : ms[m].role = "assistant"}}
AnswersAt(ms, n) == IF ms[n].role \in {"results", "missing"} THEN ms[n].about ELSE {}

\* The results of message n that answer an earlier call for the first time.
ValidAt(ms, n) ==
    {c \in AnswersAt(ms, n) \cap Calls(ms, n) :
        \A m \in 1..(n - 1) : c \notin AnswersAt(ms, m) \cap Calls(ms, m)}

Unanswered(ms) == Calls(ms, Len(ms)) \ UNION {ValidAt(ms, n) : n \in DOMAIN ms}

\* validateToolCallClosure(): every call is answered, once and later, and nothing else is.
Closed(ms) == Unanswered(ms) = {} /\ \A n \in DOMAIN ms : AnswersAt(ms, n) = ValidAt(ms, n)

\* sanitizeMessagesForProvider(): orphaned results go, missing ones are made up.
Repaired(ms) ==
    LET missing(n) == ms[n].about \cap Unanswered(ms)
        rewritten(n) ==
          CASE ms[n].role \in {"results", "missing"} ->
                 IF ValidAt(ms, n) = {} THEN <<>> ELSE <<Msg(ms[n].role, ValidAt(ms, n))>>
            [] ms[n].role = "assistant" /\ missing(n) # {} ->
                 <<ms[n], Msg("missing", missing(n))>>
            [] OTHER -> <<ms[n]>>
    IN  FlattenSeq([n \in DOMAIN ms |-> rewritten(n)])

\* prepareCompaction(): what is kept starts with a later turn or, inside the last turn,
\* with a step; there may be no such place.
Cuts(ms) ==
    LET users == {n \in DOMAIN ms : ms[n].role = "user"}
        last == {n \in users : \A m \in users : m <= n}
    IN  (users \ {1}) \cup
        {n \in DOMAIN ms : \E u \in last :
            n = u + 1 \/ (n > u + 1 /\ ms[n].role = "assistant")}

About(ms) == UNION {ms[n].about : n \in DOMAIN ms}

\* compact(), persistCompaction(): the summary continues the one there was.
Compactions(ms) ==
    LET talk == SelectSeq(ms, LAMBDA m : m.role # "summary")
        before == UNION {ms[n].about : n \in {n \in DOMAIN ms : ms[n].role = "summary"}}
    IN  {Repaired(<<Msg("summary", before \cup About(SubSeq(talk, 1, n - 1)))>>
                    \o SubSeq(talk, n, Len(talk))) : n \in Cuts(talk)}

-----------------------------------------------------------------------------
Init ==
    /\ transcript = <<>> /\ messages = <<>>
    /\ at = "idle" /\ step = 1 /\ attempt = 1 /\ forced = FALSE /\ answer = "stop"
    /\ inbox = <<>> /\ cancelled = "no"
    /\ waiting = {} /\ running = {} /\ done = {}
    /\ outcome = "none" /\ excused = {}
    /\ turns = 0 /\ numbers = 0 /\ incidents = 0

Incident == incidents < MaxIncidents /\ incidents' = incidents + 1
LastStep == step = MaxSteps

\* A turn starts from its beginning the next time; what it had in memory is gone.
Reset ==
    /\ at' = "idle" /\ messages' = <<>>
    /\ step' = 1 /\ attempt' = 1 /\ forced' = FALSE /\ answer' = "stop"
    /\ inbox' = <<>> /\ cancelled' = "no"
    /\ waiting' = {} /\ running' = {} /\ done' = {}

\* The turn ends with ms in the transcript, and leaves calls without a result there.
Finish(result, ms, left) ==
    /\ Reset
    /\ outcome' = result /\ transcript' = ms /\ excused' = excused \cup left

\* runTurn(): a turn that the user stopped leaves a message.
FinishCancelled(ms, left) ==
    Finish("cancelled",
           IF cancelled = "user" THEN Append(ms, Msg("user", {})) ELSE ms, left)

\* The catch of runTurnInContext(): what fails after a cancel is a cancel.
Fail(ms) ==
    IF cancelled = "no" THEN Finish("error", ms, Unanswered(ms))
    ELSE FinishCancelled(ms, Unanswered(ms))

\* Some of the messages are written; the turn ends at the one that is not.
WriteFails(ms) ==
    /\ Incident
    /\ \E n \in 0..(Len(ms) - 1) : Fail(transcript \o SubSeq(ms, 1, n))
    /\ UNCHANGED <<turns, numbers>>

Write(ms) == transcript' = transcript \o ms /\ messages' = messages \o ms

\* The turn goes on with the next step.
NextStep ==
    /\ at' = "step" /\ step' = step + 1 /\ attempt' = 1 /\ forced' = FALSE
    /\ answer' = "stop" /\ waiting' = {} /\ running' = {} /\ done' = {}

-----------------------------------------------------------------------------
\* runTurn(): the history is loaded and the input written.
Begin ==
    /\ at = "idle" /\ turns < MaxTurns /\ numbers < MaxNumbers
    /\ LET input == <<Msg("user", {numbers + 1})>>
       IN  /\ transcript' = transcript \o input /\ messages' = transcript'
    /\ at' = "step" /\ outcome' = "none"
    /\ turns' = turns + 1 /\ numbers' = numbers + 1
    /\ UNCHANGED <<stepVars, inbox, cancelled, callVars, excused, incidents>>

\* The input cannot be written, or a skill it names cannot be loaded.
BeginFails ==
    /\ at = "idle" /\ turns < MaxTurns /\ numbers < MaxNumbers /\ Incident
    /\ turns' = turns + 1 /\ numbers' = numbers + 1
    /\ \E ms \in {<<>>, <<Msg("user", {numbers + 1})>>} : Fail(transcript \o ms)

Steer ==
    /\ at # "idle" /\ numbers < MaxNumbers
    /\ inbox' = Append(inbox, numbers + 1) /\ numbers' = numbers + 1
    /\ UNCHANGED <<contextVars, at, stepVars, cancelled, callVars, outcome, excused, turns,
                   incidents>>

Cancel ==
    /\ at # "idle" /\ cancelled = "no" /\ Incident
    /\ cancelled' \in {"user", "shutdown"}
    /\ UNCHANGED <<contextVars, at, stepVars, inbox, callVars, outcome, excused, turns,
                   numbers>>

\* The top of a step: a cancel ends the turn, steering is written.
StepStarts ==
    /\ at = "step"
    /\ \/ /\ cancelled # "no" /\ FinishCancelled(transcript, {})
          /\ UNCHANGED <<turns, numbers, incidents>>
       \/ /\ cancelled = "no" /\ Write(Inputs(inbox))
          /\ inbox' = <<>> /\ at' = "prepare"
          /\ UNCHANGED <<stepVars, cancelled, callVars, outcome, excused, turns, numbers,
                         incidents>>
       \/ cancelled = "no" /\ inbox # <<>> /\ WriteFails(Inputs(inbox))

\* prepare(): the context is repaired, and compacted when it is too long.
Prepared(ms) ==
    \/ ms = Repaired(messages) /\ UNCHANGED incidents
    \/ cancelled = "no" /\ Incident /\ ms \in Compactions(Repaired(messages))

\* appendMessage(environment): when the context does not tell of it.
WithEnvironment(ms) ==
    IF \E n \in DOMAIN ms : ms[n].role = "environment" THEN ms
    ELSE Append(ms, Msg("environment", {}))

\* prepareRequestContext(), before each attempt, and the request.
Ask ==
    /\ at = "prepare"
    /\ \E ms \in {Repaired(messages)} \cup Compactions(Repaired(messages)) :
         /\ Prepared(ms)
         /\ messages' = WithEnvironment(ms) /\ transcript' = messages'
    /\ at' = "ask"
    /\ UNCHANGED <<stepVars, inbox, cancelled, callVars, outcome, excused, turns, numbers>>

\* The compaction that is needed fails, or the write of what it prepared.
PrepareFails ==
    /\ at \in {"prepare", "overflow"} /\ Incident
    /\ \E ms \in {transcript, Repaired(messages)} \cup Compactions(Repaired(messages)) :
         Fail(ms)
    /\ UNCHANGED <<turns, numbers>>

\* A cancel stops the summary that is made; the repair before it was written.
PrepareCancelled ==
    /\ at \in {"prepare", "overflow"} /\ cancelled # "no"
    /\ FinishCancelled(Repaired(messages), {})
    /\ UNCHANGED <<turns, numbers, incidents>>

\* A request that fails is repeated after another preparation while attempts are left.
AskFails ==
    /\ at = "ask" /\ cancelled = "no" /\ Incident
    /\ \/ /\ attempt < MaxAttempts
          /\ at' = "prepare" /\ attempt' = attempt + 1
          /\ UNCHANGED <<contextVars, step, forced, answer, inbox, cancelled, callVars,
                         outcome, excused>>
       \/ Fail(transcript)
    /\ UNCHANGED <<turns, numbers>>

AskCancelled ==
    /\ at = "ask" /\ cancelled # "no"
    /\ FinishCancelled(transcript, {})
    /\ UNCHANGED <<turns, numbers, incidents>>

\* The context is too long for the provider, or for prepare(): once in a step it is
\* compacted for that.
Overflows ==
    /\ at \in {"prepare", "ask"} /\ Incident
    /\ LET ms == IF at = "prepare" THEN Repaired(messages) ELSE messages
       IN  IF forced THEN Fail(ms)
           ELSE /\ at' = "overflow" /\ messages' = ms /\ transcript' = ms
                /\ UNCHANGED <<stepVars, inbox, cancelled, callVars, outcome, excused>>
    /\ UNCHANGED <<turns, numbers>>

\* The forced compaction, and the one attempt after it.
Compact ==
    /\ at = "overflow" /\ cancelled = "no"
    /\ \E ms \in Compactions(Repaired(messages)) : messages' = ms /\ transcript' = ms
    /\ at' = "prepare" /\ attempt' = MaxAttempts /\ forced' = TRUE
    /\ UNCHANGED <<step, answer, inbox, cancelled, callVars, outcome, excused, turns, numbers,
                   incidents>>

\* The provider answered: its message is written before any of its calls is dispatched.
\* A "cut" answer has calls and another reason to stop, an "error" one no calls.
Answered ==
    /\ at = "ask"
    /\ \E reason \in {"stop", "toolUse", "cut", "error"}, n \in 0..MaxCalls :
         LET calls == (numbers + 1)..(numbers + n)
             kept == IF reason = "toolUse" /\ LastStep THEN {} ELSE calls
             message == <<Msg("assistant", kept)>>
         IN  /\ (n = 0) = (reason \in {"stop", "error"}) /\ numbers + n <= MaxNumbers
             /\ \/ /\ Write(message)
                   /\ IF reason \in {"cut", "error"} THEN Incident ELSE UNCHANGED incidents
                   /\ at' = "answered" /\ answer' = reason
                   /\ waiting' = IF reason = "toolUse" THEN kept ELSE {}
                   /\ excused' = IF reason = "cut" THEN excused \cup kept ELSE excused
                   /\ numbers' = numbers + n
                   /\ UNCHANGED <<step, attempt, forced, inbox, cancelled, running, done,
                                  outcome, turns>>
                \/ reason = "stop" /\ WriteFails(message)

\* What the answer leads to.
FinalAnswer ==
    /\ at = "answered" /\ waiting = {}
    /\ \/ /\ cancelled # "no" /\ FinishCancelled(transcript, {})
          /\ UNCHANGED <<turns, numbers, incidents>>
       \/ /\ cancelled = "no" /\ ~LastStep /\ answer # "error" /\ inbox # <<>>
          /\ \/ /\ Write(Inputs(inbox)) /\ inbox' = <<>> /\ NextStep
                /\ UNCHANGED <<cancelled, outcome, excused, turns, numbers, incidents>>
             \/ WriteFails(Inputs(inbox))
       \/ /\ cancelled = "no" /\ (LastStep \/ answer = "error" \/ inbox = <<>>)
          /\ at' = "delivered"
          /\ UNCHANGED <<contextVars, stepVars, inbox, cancelled, callVars, outcome, excused,
                         turns, numbers, incidents>>

\* postTurn(): what fails here does not change the outcome.
Deliver ==
    /\ at = "delivered"
    /\ \/ /\ cancelled = "no"
          /\ \E ms \in {Repaired(messages)} \cup Compactions(Repaired(messages)) :
               Prepared(ms) /\ Finish("completed", ms, {})
       \/ /\ IF cancelled = "no" THEN Incident ELSE UNCHANGED incidents
          /\ \E ms \in {transcript, Repaired(messages)} : Finish("completed", ms, {})
    /\ UNCHANGED <<turns, numbers>>

\* The loop over the calls: at its top, when a wave is over, steering comes first.
BetweenWaves == at \in {"answered", "tools"} /\ running = {} /\ waiting # {}
Results == Msg("results", waiting \cup done)

\* Fault: the handle is drained again for the steering that was drained.
SkipForSteeringDrained ==
    /\ BetweenWaves /\ inbox # <<>>
    /\ Write(<<Results>>) /\ inbox' = <<>> /\ NextStep
    /\ UNCHANGED <<cancelled, outcome, excused, turns, numbers, incidents>>

SkipForSteering ==
    /\ BetweenWaves /\ inbox # <<>>
    /\ LET told == <<Results>> \o Inputs(inbox)
       IN  \/ /\ Write(told) /\ inbox' = <<>> /\ NextStep
              /\ UNCHANGED <<cancelled, outcome, excused, turns, numbers, incidents>>
           \/ WriteFails(told)

\* Fault: the calls that were not dispatched get no result.
SkipForCancelUnanswered ==
    /\ BetweenWaves /\ inbox = <<>> /\ cancelled # "no"
    /\ FinishCancelled(transcript \o
                         IF done = {} THEN <<>> ELSE <<Msg("results", done)>>, {})
    /\ UNCHANGED <<turns, numbers, incidents>>

SkipForCancel ==
    /\ BetweenWaves /\ inbox = <<>> /\ cancelled # "no"
    /\ \/ /\ FinishCancelled(Append(transcript, Results), {})
          /\ UNCHANGED <<turns, numbers, incidents>>
       \/ WriteFails(<<Results>>)

\* One exclusive call, or the next ones that may run in parallel.
Dispatch ==
    /\ BetweenWaves /\ inbox = <<>> /\ cancelled = "no"
    /\ \E wave \in SUBSET waiting \ {{}} :
         /\ \A c \in wave, d \in waiting \ wave : c < d
         /\ running' = wave /\ waiting' = waiting \ wave
    /\ at' = "tools"
    /\ UNCHANGED <<contextVars, stepVars, inbox, cancelled, done, outcome, excused, turns,
                   numbers, incidents>>

\* executeToolCall(): it always leaves a result, that of an error too.
CallEnds(c) ==
    /\ c \in running
    /\ running' = running \ {c} /\ done' = done \cup {c}
    /\ UNCHANGED <<contextVars, at, stepVars, inbox, cancelled, waiting, outcome, excused,
                   turns, numbers, incidents>>

\* All calls have their results: they are written in one message.
CallsEnd ==
    /\ at = "tools" /\ running = {} /\ waiting = {}
    /\ \/ /\ Write(<<Msg("results", done)>>) /\ NextStep
          /\ UNCHANGED <<inbox, cancelled, outcome, excused, turns, numbers, incidents>>
       \/ WriteFails(<<Msg("results", done)>>)

\* The agent process dies: what was not written is gone.
Crash ==
    /\ at # "idle" /\ Incident
    /\ Finish("crashed", transcript, Unanswered(transcript))
    /\ UNCHANGED <<turns, numbers>>

Next ==
    \/ Begin \/ BeginFails \/ Steer \/ Cancel \/ StepStarts \/ Ask \/ PrepareFails \/ PrepareCancelled
    \/ AskFails \/ AskCancelled \/ Overflows \/ Compact \/ Answered \/ FinalAnswer
    \/ Deliver \/ SkipForSteering \/ SkipForCancel \/ Dispatch \/ CallsEnd \/ Crash
    \/ \E c \in running : CallEnds(c)

Spec == Init /\ [][Next]_vars

-----------------------------------------------------------------------------
TypeOK ==
    /\ \A ms \in {transcript, messages} : \A n \in DOMAIN ms :
         ms[n].role \in Roles /\ ms[n].about \subseteq 1..MaxNumbers
    /\ at \in {"idle", "step", "prepare", "ask", "overflow", "answered", "tools", "delivered"}
    /\ step \in 1..MaxSteps /\ attempt \in 1..MaxAttempts /\ forced \in BOOLEAN
    /\ answer \in {"stop", "toolUse", "cut", "error"}
    /\ cancelled \in {"no", "user", "shutdown"}
    /\ outcome \in {"none", "completed", "cancelled", "error", "crashed"}
    /\ turns \in 0..MaxTurns /\ numbers \in 0..MaxNumbers /\ incidents \in 0..MaxIncidents

\* The provider is asked with what the transcript replays to, where the message after
\* one with calls answers these calls and no message answers others.
AskedWithTheTranscript ==
    at = "ask" =>
      /\ messages = transcript /\ Closed(messages)
      /\ \A n \in DOMAIN messages : AnswersAt(messages, n) # {} =>
           messages[n - 1].role = "assistant" /\ messages[n - 1].about = messages[n].about

\* The repair makes up results only where a crash, a write that failed or a cut answer
\* lost them: whatever ends or redirects a turn, its calls get results of its own.
OnlyDamageIsRepaired ==
    /\ at \notin {"answered", "tools"} => Unanswered(transcript) \subseteq excused
    /\ \A n \in DOMAIN transcript : transcript[n].role = "missing" =>
         transcript[n].about \subseteq excused

\* No tool runs in the last step, and none whose call is not in the transcript.
ToolsRunOnRecord ==
    at = "tools" => ~LastStep /\ waiting \cup running \cup done \subseteq Unanswered(transcript)

TurnInv == TypeOK /\ AskedWithTheTranscript /\ OnlyDamageIsRepaired /\ ToolsRunOnRecord

\* What the transcript tells is never lost but to a summary that covers it, and the
\* steering a turn takes is told, unless the turn ends with it.
NothingForgotten ==
    /\ About(transcript) \subseteq About(transcript')
    /\ at' # "idle" => ToSet(inbox) \subseteq ToSet(inbox') \cup About(transcript')

=============================================================================
