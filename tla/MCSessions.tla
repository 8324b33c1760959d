------------------------------ MODULE MCSessions ------------------------------
(***************************************************************************)
(* The scheduler with two sessions, and what stands before it: the         *)
(* automations and the window, which ask it for turns.  A scenario runs    *)
(* one of them while the others stay as they began, so the states are the  *)
(* sum of theirs and not the product.                                      *)
(***************************************************************************)
EXTENDS MCSessionScheduler

CONSTANTS t1, t2, c1, o1, None

VARIABLES
    scenario,
    now, tasks, runs, service, ticking, recovered, unconfirmed, due, dispatching, edits,
    naming,
    place, removal, fencing, up, sending, backlog, runner, requests, awaiting, conversation,
    slips

planVars == <<now, tasks, runs, service, ticking, recovered, unconfirmed, due, dispatching,
              edits, naming>>
conversationVars == <<place, removal, fencing, up, sending, backlog, runner, requests,
                      awaiting, conversation, slips>>
allVars == <<scenario, vars, planVars, conversationVars>>

Once == [kind |-> "once", target |-> "new", every |-> 0, times |-> {1}, jitter |-> 0]
\* It falls due before its nominal time.
Calendar == [kind |-> "rrule", target |-> "reuse", every |-> 0, times |-> {1, 2}, jitter |-> -1]
Interval == [kind |-> "interval", target |-> "new", every |-> 1, times |-> {}, jitter |-> 0]

\* One plan that is edited, paused, renamed, run by hand and by the tick, over two starts,
\* with stops and crashes anywhere; and two that are not edited, over more time.
Plan == INSTANCE Automations WITH
    Tasks <- {t1}, Definitions <- {Calendar}, Callers <- {c1}, BatchSize <- 3,
    MaxTime <- 1, MaxVersion <- 2, MaxRuns <- 2
Recurring == INSTANCE Automations WITH
    Tasks <- {t1}, Definitions <- {Interval, Once}, Callers <- {c1}, BatchSize <- 3,
    MaxTime <- 2, MaxVersion <- 1, MaxRuns <- 2

\* Two messages, and a message and the run of an automation, beside a job of a channel; the
\* latter without it, but with a call that fails or an agent that goes down.
Messages == INSTANCE LocalConversation WITH
    Turns <- {t1, t2}, Plans <- {}, Others <- {o1}, MaxFaults <- 0,
    session <- place, deletion <- removal, update <- fencing, ready <- up,
    send <- sending, queue <- backlog, run <- runner, asks <- requests, waits <- awaiting,
    conv <- conversation, faults <- slips
Planned == INSTANCE LocalConversation WITH
    Turns <- {t1, t2}, Plans <- {t2}, Others <- {o1}, MaxFaults <- 0,
    session <- place, deletion <- removal, update <- fencing, ready <- up,
    send <- sending, queue <- backlog, run <- runner, asks <- requests, waits <- awaiting,
    conv <- conversation, faults <- slips
Failing == INSTANCE LocalConversation WITH
    Turns <- {t1, t2}, Plans <- {t2}, Others <- {}, MaxFaults <- 1,
    session <- place, deletion <- removal, update <- fencing, ready <- up,
    send <- sending, queue <- backlog, run <- runner, asks <- requests, waits <- awaiting,
    conv <- conversation, faults <- slips

\* What the parts assume of their constants.
ASSUME PartsAssumption ==
       /\ Plan!AutomationsAssumption /\ Recurring!AutomationsAssumption
       /\ Messages!LocalConversationAssumption /\ Planned!LocalConversationAssumption
       /\ Failing!LocalConversationAssumption

AllInit ==
    /\ scenario \in {"scheduler", "plan", "recurring", "messages", "planned", "failing"}
    /\ Init
    /\ IF scenario = "recurring" THEN Recurring!Init ELSE Plan!Init
    /\ Messages!Init
    /\ scenario \notin {"messages", "planned", "failing"} => place = "used"

\* A step of the part whose variables are named, in a scenario of its own.
Others(own) ==
    /\ UNCHANGED scenario
    /\ own # "scheduler" => UNCHANGED vars
    /\ own # "plans" => UNCHANGED planVars
    /\ own # "conversation" => UNCHANGED conversationVars

SchedulerStep == scenario = "scheduler" /\ Next /\ Others("scheduler")

PlanStep ==
    /\ \/ scenario = "plan" /\ Plan!Next
       \/ scenario = "recurring" /\ Recurring!Next
    /\ Others("plans")

ConversationStep ==
    /\ \/ scenario = "messages" /\ Messages!Next
       \/ scenario = "planned" /\ Planned!Next
       \/ scenario = "failing" /\ Failing!Next
    /\ Others("conversation")

\* Where calls are bounded nothing may be left to do; the scheduler must never be stuck.
Rest == scenario # "scheduler" /\ UNCHANGED allVars

AllNext == SchedulerStep \/ PlanStep \/ ConversationStep \/ Rest

AllSpec == AllInit /\ [][AllNext]_allVars

-----------------------------------------------------------------------------
\* Automations: no opportunity is started twice, two automatic starts of a plan are apart,
\* what the record says of a turn is what became of it, a refused opportunity is kept, and
\* no turn is handed over of a plan that was paused, deleted or edited since it was claimed.
PlansHold ==
    /\ [](/\ scenario = "plan" =>
                /\ Plan!AutomationsInv /\ Plan!NoDoubleStart /\ Plan!StartsAreSpaced
                /\ Plan!RecordsAreTruthful /\ Plan!OpportunityKept
          /\ scenario = "recurring" =>
                /\ Recurring!AutomationsInv /\ Recurring!NoDoubleStart
                /\ Recurring!StartsAreSpaced /\ Recurring!RecordsAreTruthful
                /\ Recurring!OpportunityKept)
    /\ Plan!TurnsAreWanted /\ Recurring!TurnsAreWanted

\* LocalConversation: what the conversation keeps agrees with the scheduler after every
\* step, an automation's run waits behind nothing, a deletion overlaps no work, and a message
\* lifts a suspension; a result stays what it is, work is forgotten only when it was refused
\* or cleared, and a stop of the window spares the jobs of channels.
ConversationsHold ==
    /\ [](/\ scenario = "messages" => Messages!ConversationInv
          /\ scenario = "planned" => Planned!ConversationInv
          /\ scenario = "failing" => Failing!ConversationInv)
    /\ [][/\ scenario = "messages" =>
                Messages!ResultsAreFinal /\ Messages!WorkIsKept /\ Messages!OthersAreSpared
          /\ scenario = "planned" =>
                Planned!ResultsAreFinal /\ Planned!WorkIsKept /\ Planned!OthersAreSpared
          /\ scenario = "failing" => Failing!ResultsAreFinal /\ Failing!WorkIsKept]_allVars
==============================================================================
