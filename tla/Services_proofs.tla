---------------------------- MODULE Services_proofs ----------------------------
(***************************************************************************)
(* Proofs about the gateways of the application: DesktopGateway, for any   *)
(* calls of any kinds, and any number of gateways and of failures; in the  *)
(* second part, GatewayLifecycle, the start and the stop of each; in the   *)
(* third, UpdateInstall, the update for which they are stopped; in the     *)
(* fourth, Approvals, what the users of the application are asked; and in  *)
(* the fifth, SessionRouting, the sessions their chats lead to.            *)
(*                                                                         *)
(* The argument about DesktopGateway has two invariants.  LossInv holds    *)
(* however calls overlap: a gateway that was given up was stopped before,  *)
(* and the one that is owned is what every call that works on it takes it  *)
(* for, unless it was lost in one of the ways the history names; and one   *)
(* update at a time has the fence up.  GatewayInv says more as long as no  *)
(* call has run beside another but to look after the agent: the one call   *)
(* under way works on the gateway that is owned, and where it stands says  *)
(* what was done with it, so that none is lost and "ready" is true.        *)
(***************************************************************************)
EXTENDS DesktopGateway, Sequences, FiniteSetTheorems, TLAPS

\* What is kept of a gateway.
Records == [life : {"none", "made", "starting", "up", "failed", "off"},
            closing : {"no", "begun", "done"}, child : {"none", "alive", "stuck"},
            ticking : BOOLEAN, store : BOOLEAN, trouble : BOOLEAN]

\* The types of what the steps of calls and compositions change.
Typing ==
    /\ {own, tools} \subseteq Gateways \cup {None}
    /\ health \in {"stopped", "starting", "ready", "error"}
    /\ {preparing, exited, crossed} \subseteq BOOLEAN
    /\ gateway \in [Gateways -> Records]
    /\ call \in [Calls -> [at : Places, gateway : Gateways \cup {None}]]
    /\ made \in 0..MaxGateways /\ faults \in 0..MaxFaults

\* The places of calls that leave a gateway to itself.
Calm == {"idle", "over", "fenced"} \cup OnTheAgent

\* Call k is under way.
Active(k) == call[k].at \notin {"idle", "over"}

\* The fields of the application name one gateway, the last that was made, or none.
FieldsAgree ==
    /\ tools = own /\ own <= made
    /\ health = "stopped" => own = None

\* The places at which a call works on a gateway.
WithGateway == {"pipe", "compose", "undo", "drop", "stop", "down", "relaunch"}

\* A call has one there.
HasGateway(k) == call[k].at \in WithGateway => call[k].gateway # None

\* And so every call.
HaveGateways == \A k \in Calls : HasGateway(k)

\* Calls beside each other only look after the agent.
Alone ==
    \A j, k \in Calls : j # k /\ Active(j) /\ Active(k) =>
       {call[j].at, call[k].at} \subseteq OnTheAgent

\* A gateway of which nothing runs, but for a child whose exit nobody confirmed.
Gone(o) ==
    /\ o.life \in {"none", "failed", "off"} /\ o.closing # "begun"
    /\ ~o.ticking /\ ~o.store
    /\ o.child = "none" \/ (o.life = "failed" /\ o.child = "stuck")

\* A call works on the gateway that is owned.
Works(k) ==
    /\ call[k].gateway \in {None, own}
    /\ ~Active(k) => call[k].gateway = None
    /\ call[k].at \in WithGateway => own # None /\ call[k].gateway = own
    /\ call[k].at \in {"close", "reopen"} => call[k].gateway = own

\* What a call at p knows of the gateway that is owned.
OwnAt(o, p) ==
    /\ p \in {"pipe", "compose", "undo", "drop", "quiesce", "stop", "close", "recover",
              "reopen"} => ~o.ticking
    /\ p = "pipe" => o.life = "made" /\ o.closing = "no" /\ o.child = "none"
    /\ p = "compose" => o.life \in {"starting", "up", "failed"} /\ o.closing = "no"
                        /\ (o.life = "failed" => o.child # "alive")
    /\ p \in {"undo", "drop"} =>
          o.life \in {"made", "failed"} /\ o.closing # "no" /\ o.child # "alive"
    /\ p = "stop" => o.closing # "no"
    /\ p \in {"drop", "close", "recover", "reopen"} => o.closing = "done"
    /\ p \in {"close", "reopen"} => o.child = "none"
    /\ p = "recover" => o.trouble
    /\ p \notin {"stopped", "installing"}

\* A composition that was stopped is not up, and its child is gone or a trouble.
Ended(o) ==
    /\ o.closing = "done" => o.life \in {"failed", "off"}
    /\ o.closing = "done" /\ o.child # "none" => o.trouble

\* A gateway that no call works on serves, or its stop has failed.
Settled(o) ==
    \/ o.life = "up" /\ o.closing = "no" /\ o.ticking
    \/ o.closing = "done" /\ o.trouble

\* The gateway that is owned is what the calls take it for.
OwnFits ==
    own # None =>
       /\ Ended(gateway[own])
       /\ \A k \in Calls : OwnAt(gateway[own], call[k].at)
       /\ (\A k \in Calls : call[k].at \in Calm) => Settled(gateway[own])

\* What the health says while calls are under way.
Tells ==
    /\ own = None => health # "ready"
    /\ \A k \in Calls : /\ call[k].at \in {"undo", "drop"} => health = "error"
                        /\ call[k].at \in {"recover", "reopen"} => preparing = FALSE

\* All of this holds as long as no calls have run beside each other.
Uncrossed ==
    /\ Alone /\ OwnFits /\ Tells
    /\ \A g \in Gateways : g # own => Gone(gateway[g])
    /\ \A k \in Calls : Works(k)

\* The inductive invariant.
GatewayInv == Typing /\ FieldsAgree /\ HaveGateways /\ (~crossed => Uncrossed)

\* What one call needs of the gateway that is owned, and of the health.
OwnSuits(k) ==
    own # None => /\ Ended(gateway[own]) /\ OwnAt(gateway[own], call[k].at)
                  /\ call[k].at \in Calm => Settled(gateway[own])
HealthSuits(k) ==
    /\ own = None => health # "ready"
    /\ call[k].at \in {"undo", "drop"} => health = "error"
    /\ call[k].at \in {"recover", "reopen"} => preparing = FALSE
-----------------------------------------------------------------------------
\* Numbers of gateways and of faults, and the next ones.
LEMMA Indices ==
    ASSUME DesktopGatewayAssumption
    PROVE  /\ None \notin Gateways /\ Gateways \subseteq Nat
           /\ \A n \in 0..MaxGateways :
                 n < MaxGateways => n + 1 \in Gateways /\ n + 1 \in 0..MaxGateways
           /\ \A g \in Gateways : g \in 0..MaxGateways
           /\ \A n \in 0..MaxFaults : n < MaxFaults => n + 1 \in 0..MaxFaults
  BY DEF DesktopGatewayAssumption, Gateways, None

\* Nothing was made and nobody calls.
LEMMA InitGateways == ASSUME DesktopGatewayAssumption, Init PROVE GatewayInv
<1>1. Typing
  <2>1. Unmade \in Records
    BY DEF Unmade, Records
  <2>2. gateway \in [Gateways -> Records]
    BY <2>1 DEF Init
  <2>3. call \in [Calls -> [at : Places, gateway : Gateways \cup {None}]]
    BY DEF Init, Places
  <2> QED
    BY <2>2, <2>3, 0 \in 0..MaxGateways, 0 \in 0..MaxFaults DEF Init, Typing, Records,
       DesktopGatewayAssumption
<1>2. FieldsAgree /\ Alone /\ Tells /\ OwnFits
  BY DEF Init, FieldsAgree, Alone, Active, Tells, OwnFits, None
<1>5. HaveGateways
  BY DEF Init, HaveGateways, HasGateway, WithGateway
<1>3. \A g \in Gateways : Gone(gateway[g])
  BY DEF Init, Gone, Unmade
<1>4. \A k \in Calls : Works(k)
  BY DEF Init, Works, Active, WithGateway
<1> QED
  BY <1>1, <1>2, <1>3, <1>4, <1>5 DEF GatewayInv, Uncrossed

\* Each call has a place and a gateway.
LEMMA CallMoves ==
    ASSUME Typing, NEW k \in Calls, NEW p \in Places
    PROVE  /\ GoTo(k, p) => /\ call' \in [Calls -> [at : Places, gateway : Gateways \cup {None}]]
                            /\ call'[k].at = p /\ call'[k].gateway = call[k].gateway
                            /\ \A j \in Calls \ {k} : call'[j] = call[j]
           /\ \A g \in Gateways \cup {None} : GoWith(k, p, g) =>
                 /\ call' \in [Calls -> [at : Places, gateway : Gateways \cup {None}]]
                 /\ call'[k].at = p /\ call'[k].gateway = g
                 /\ \A j \in Calls \ {k} : call'[j] = call[j]
<1>1. call \in [Calls -> [at : Places, gateway : Gateways \cup {None}]]
  BY DEF Typing
<1>2. ASSUME GoTo(k, p)
      PROVE  /\ call' \in [Calls -> [at : Places, gateway : Gateways \cup {None}]]
             /\ call'[k].at = p /\ call'[k].gateway = call[k].gateway
             /\ \A j \in Calls \ {k} : call'[j] = call[j]
  BY <1>1, <1>2 DEF GoTo
<1>3. ASSUME NEW g \in Gateways \cup {None}, GoWith(k, p, g)
      PROVE  /\ call' \in [Calls -> [at : Places, gateway : Gateways \cup {None}]]
             /\ call'[k].at = p /\ call'[k].gateway = g
             /\ \A j \in Calls \ {k} : call'[j] = call[j]
  BY <1>1, <1>3 DEF GoWith
<1> QED
  BY <1>2, <1>3

\* A call that is over has no gateway.
LEMMA CallEnds ==
    ASSUME Typing, NEW k \in Calls, Over(k)
    PROVE  /\ call' \in [Calls -> [at : Places, gateway : Gateways \cup {None}]]
           /\ call'[k].at = "over" /\ call'[k].gateway = None
           /\ \A j \in Calls \ {k} : call'[j] = call[j]
<1>1. "over" \in Places
  BY DEF Places
<1> QED
  BY <1>1, CallMoves DEF Over

-----------------------------------------------------------------------------
\* A step of a call that is alone, or that makes itself so.
LEMMA OneCallMoves ==
    ASSUME ~crossed => Uncrossed, ~crossed, NEW k \in Calls,
           \A j \in Calls \ {k} : ~Active(j),
           \A j \in Calls \ {k} : call'[j] = call[j],
           \A g \in Gateways : g # own' => Gone(gateway[g])',
           Works(k)', OwnSuits(k)', HealthSuits(k)'
    PROVE  Uncrossed'
<1>1. \A j \in Calls \ {k} : call'[j].at \in {"idle", "over"} /\ call'[j].gateway = None
  BY DEF Uncrossed, Works, Active
<1>2. Alone'
  BY <1>1 DEF Alone, Active
<1>3. \A j \in Calls : Works(j)'
  BY <1>1 DEF Works, Active, WithGateway
<1>4. OwnFits'
  <2>1. SUFFICES ASSUME own' # None PROVE OwnFits'
    BY DEF OwnFits
  <2>2. \A j \in Calls : OwnAt(gateway'[own'], call'[j].at)
    BY <1>1, <2>1 DEF OwnAt, OwnSuits
  <2> QED
    BY <2>1, <2>2 DEF OwnFits, OwnSuits
<1>5. Tells'
  BY <1>1 DEF Tells, HealthSuits
<1> QED
  BY <1>2, <1>3, <1>4, <1>5 DEF Uncrossed

\* Of a call that does not merely look after the agent, all others are idle.
LEMMA MainIsAlone ==
    ASSUME Alone, NEW k \in Calls, Active(k), call[k].at \notin OnTheAgent
    PROVE  \A j \in Calls \ {k} : ~Active(j)
  BY DEF Alone

-----------------------------------------------------------------------------
\* The changes of gateways keep their records, and change one of them.
LEMMA QuietedOnes ==
    ASSUME NEW gs \in [Gateways -> Records], tools \in Gateways \cup {None}
    PROVE  /\ Quieted(gs) \in [Gateways -> Records]
           /\ \A g \in Gateways : Quieted(gs)[g] =
                 IF g = tools THEN [gs[g] EXCEPT !.ticking = FALSE] ELSE gs[g]
<1>1. CASE tools = None
  BY <1>1, None \notin Gateways DEF Quieted, None, Gateways
<1>2. CASE tools # None
  <2>1. tools \in Gateways /\ gs[tools] \in Records
    BY <1>2
  <2>2. [gs[tools] EXCEPT !.ticking = FALSE] \in Records
    BY <2>1 DEF Records
  <2> QED
    BY <1>2, <2>1, <2>2 DEF Quieted
<1> QED
  BY <1>1, <1>2

LEMMA StoreClosedOnes ==
    ASSUME NEW gs \in [Gateways -> Records], own \in Gateways \cup {None}
    PROVE  /\ StoreClosed(gs) \in [Gateways -> Records]
           /\ \A g \in Gateways : StoreClosed(gs)[g] =
                 IF g = own THEN [gs[g] EXCEPT !.store = FALSE] ELSE gs[g]
<1>1. CASE own = None
  BY <1>1, None \notin Gateways DEF StoreClosed, None, Gateways
<1>2. CASE own # None
  <2>1. own \in Gateways /\ gs[own] \in Records
    BY <1>2
  <2>2. [gs[own] EXCEPT !.store = FALSE] \in Records
    BY <2>1 DEF Records
  <2> QED
    BY <1>2, <2>1, <2>2 DEF StoreClosed
<1> QED
  BY <1>1, <1>2

LEMMA ClosingOnes ==
    ASSUME NEW gs \in [Gateways -> Records], NEW g \in Gateways
    PROVE  /\ Closing(gs, g) \in [Gateways -> Records]
           /\ \A h \in Gateways : Closing(gs, g)[h] =
                 IF h = g THEN [gs[g] EXCEPT !.closing = IF gs[g].closing = "no" THEN "begun"
                                                         ELSE gs[g].closing]
                 ELSE gs[h]
<1>1. gs[g] \in Records
  OBVIOUS
<1>2. [gs[g] EXCEPT !.closing = IF gs[g].closing = "no" THEN "begun"
                                          ELSE gs[g].closing] \in Records
  BY <1>1 DEF Records
<1>3. Closing(gs, g) = [gs EXCEPT ![g] = [gs[g] EXCEPT
                             !.closing = IF gs[g].closing = "no" THEN "begun" ELSE gs[g].closing]]
  BY <1>1 DEF Closing
<1> QED
  BY <1>2, <1>3

\* What every step keeps of the variables' types.
Typed(gs) == gs \in [Gateways -> Records]

\* The types, from those of each variable.
LEMMA TypeAgain ==
    ASSUME Typing,
           {own', tools'} \subseteq Gateways \cup {None},
           health' \in {"stopped", "starting", "ready", "error"},
           {preparing', exited', crossed'} \subseteq BOOLEAN,
           Typed(gateway'),
           call' \in [Calls -> [at : Places, gateway : Gateways \cup {None}]],
           made' \in 0..MaxGateways, faults' \in 0..MaxFaults
    PROVE  Typing'
  BY DEF Typing, Typed, Records

\* And each of them from the types.
LEMMA Types ==
    ASSUME Typing
    PROVE  /\ gateway \in [Gateways -> Records] /\ Typed(gateway)
           /\ call \in [Calls -> [at : Places, gateway : Gateways \cup {None}]]
           /\ own \in Gateways \cup {None} /\ tools \in Gateways \cup {None}
           /\ made \in 0..MaxGateways /\ faults \in 0..MaxFaults
           /\ {own, tools} \subseteq Gateways \cup {None}
           /\ health \in {"stopped", "starting", "ready", "error"}
           /\ {preparing, exited, crossed} \subseteq BOOLEAN
  BY DEF Typing, Typed, Records

\* Faults stay within their bound.
LEMMA FaultCounts ==
    ASSUME DesktopGatewayAssumption, Typing, Fault \/ NoFault \/ faults' = faults
    PROVE  faults' \in 0..MaxFaults
  BY Indices, Types DEF Fault, NoFault

\* A start of a gateway makes one and owns it, or is over.
LEMMA StartsAre ==
    ASSUME DesktopGatewayAssumption, Typing, NEW k \in Calls, NEW mine \in {own, None},
           NEW gs \in [Gateways -> Records], StartFrom(k, mine, mine, gs)
    PROVE  \/ /\ preparing \/ mine # None
              /\ own' = mine /\ tools' = mine /\ gateway' = gs
              /\ call' \in [Calls -> [at : Places, gateway : Gateways \cup {None}]]
              /\ call'[k].at = "over" /\ call'[k].gateway = None
              /\ \A j \in Calls \ {k} : call'[j] = call[j]
              /\ health' = health /\ made' = made
           \/ /\ ~preparing /\ mine = None
              /\ own' \in Gateways /\ own' # None /\ tools' = own' /\ made' = own'
              /\ made' \in 0..MaxGateways /\ health' = "starting"
              /\ gateway' \in [Gateways -> Records]
              /\ gateway'[own'] = [Unmade EXCEPT !.life = "made", !.store = TRUE]
              /\ \A g \in Gateways : g # own' => gateway'[g] = gs[g]
              /\ call' \in [Calls -> [at : Places, gateway : Gateways \cup {None}]]
              /\ call'[k].at = "pipe" /\ call'[k].gateway = own'
              /\ \A j \in Calls \ {k} : call'[j] = call[j]
<1>1. CASE preparing \/ mine # None
  BY <1>1, CallEnds DEF StartFrom
<1>2. CASE ~(preparing \/ mine # None)
  <2>1. /\ made < MaxGateways
        /\ made' = made + 1 /\ own' = made' /\ tools' = made'
        /\ health' = "starting"
        /\ gateway' = [gs EXCEPT ![made'] = [Unmade EXCEPT !.life = "made", !.store = TRUE]]
        /\ GoWith(k, "pipe", made')
    BY <1>2 DEF StartFrom
  <2>2. made' \in Gateways /\ made' \in 0..MaxGateways /\ made' # None
    BY <2>1, Indices, Types
  <2>3. [Unmade EXCEPT !.life = "made", !.store = TRUE] \in Records
    BY DEF Unmade, Records
  <2>4. PICK n \in Gateways : n = made'
    BY <2>2
  <2>5. GoWith(k, "pipe", n)
    BY <2>1, <2>4
  <2>6. "pipe" \in Places
    BY DEF Places
  <2>7. /\ call' \in [Calls -> [at : Places, gateway : Gateways \cup {None}]]
        /\ call'[k].at = "pipe" /\ call'[k].gateway = n
        /\ \A j \in Calls \ {k} : call'[j] = call[j]
    BY <2>4, <2>5, <2>6, CallMoves
  <2> QED
    BY <1>2, <2>1, <2>2, <2>3, <2>4, <2>7
<1> QED
  BY <1>1, <1>2

-----------------------------------------------------------------------------
\* What every step of a call k keeps.
TypedStep(k) ==
    /\ own' \in Gateways \cup {None} /\ tools' = own' /\ own' <= made'
    /\ health' \in {"stopped", "starting", "ready", "error"}
    /\ health' = "stopped" => own' = None
    /\ preparing' \in BOOLEAN /\ exited' \in BOOLEAN
    /\ gateway' \in [Gateways -> Records]
    /\ call' \in [Calls -> [at : Places, gateway : Gateways \cup {None}]]
    /\ \A j \in Calls \ {k} : call'[j] = call[j]
    /\ HasGateway(k)'
    /\ made' \in 0..MaxGateways
    /\ Fault \/ NoFault \/ faults' = faults

\* And what it keeps as long as no calls run beside each other.
SuitedStep(k) ==
    /\ \A g \in Gateways : g # own' => Gone(gateway[g])'
    /\ Works(k)' /\ OwnSuits(k)' /\ HealthSuits(k)'

\* Such a step keeps the types, and the fields agree.
LEMMA TypedSteps ==
    ASSUME DesktopGatewayAssumption, GatewayInv,
           NEW k \in Calls, TypedStep(k), crossed' \in BOOLEAN
    PROVE  Typing' /\ FieldsAgree' /\ HaveGateways'
<1>1. Typing'
  BY Types, TypeAgain, FaultCounts DEF GatewayInv, TypedStep, Typed
<1>2. FieldsAgree'
  BY DEF TypedStep, FieldsAgree
<1>3. HaveGateways'
  BY DEF GatewayInv, HaveGateways, HasGateway, TypedStep
<1> QED
  BY <1>1, <1>2, <1>3

\* A step of a call that is alone keeps the invariant.
LEMMA LoneSteps ==
    ASSUME DesktopGatewayAssumption, GatewayInv,
           NEW k \in Calls, TypedStep(k), crossed' \in BOOLEAN,
           ~crossed' => ~crossed /\ (\A j \in Calls \ {k} : ~Active(j)) /\ SuitedStep(k)
    PROVE  GatewayInv'
<1>1. Typing' /\ FieldsAgree' /\ HaveGateways'
  BY TypedSteps
<1>2. ASSUME ~crossed' PROVE Uncrossed'
  BY <1>2, OneCallMoves DEF GatewayInv, TypedStep, SuitedStep
<1> QED
  BY <1>1, <1>2 DEF GatewayInv

\* A call at work that does not merely look after the agent.
MainCall(k) == Active(k) /\ call[k].at \notin OnTheAgent

\* So does one that does not merely look after the agent: it is alone.
LEMMA MainSteps ==
    ASSUME DesktopGatewayAssumption, GatewayInv,
           NEW k \in Calls, MainCall(k), TypedStep(k), crossed' = crossed,
           ~crossed => SuitedStep(k)
    PROVE  GatewayInv'
<1>1. ~crossed => \A j \in Calls \ {k} : ~Active(j)
  BY MainIsAlone DEF GatewayInv, Uncrossed, MainCall
<1>2. crossed \in BOOLEAN
  BY Types DEF GatewayInv
<1> QED
  BY <1>1, <1>2, LoneSteps

\* What is known before a step of a call.
LEMMA CallFacts ==
    ASSUME DesktopGatewayAssumption, GatewayInv, NEW k \in Calls
    PROVE  /\ call[k].at \in WithGateway => call[k].gateway \in Gateways
           /\ call[k].gateway \in Gateways \cup {None}
           /\ own <= made /\ tools = own /\ own \in Gateways \cup {None}
           /\ health = "stopped" => own = None
           /\ None \notin Gateways
           /\ ~crossed => /\ \A g \in Gateways : g # own => Gone(gateway[g])
                          /\ Works(k) /\ HealthSuits(k)
                          /\ Active(k) => OwnSuits(k)
                          /\ own # None => /\ own \in Gateways /\ gateway[own] \in Records
                                           /\ Ended(gateway[own])
<1>1. Typing /\ FieldsAgree /\ HasGateway(k)
  BY DEF GatewayInv, HaveGateways
<1>2. call[k].gateway \in Gateways \cup {None} /\ own \in Gateways \cup {None}
  BY <1>1, Types
<1>3. ASSUME ~crossed
      PROVE  /\ \A g \in Gateways : g # own => Gone(gateway[g])
             /\ Works(k) /\ HealthSuits(k)
             /\ own # None => /\ own \in Gateways /\ gateway[own] \in Records
                              /\ Ended(gateway[own])
  <2>1. Uncrossed
    BY <1>3 DEF GatewayInv
  <2>2. HealthSuits(k)
    <3>1. Tells
      BY <2>1 DEF Uncrossed
    <3> QED
      BY <3>1 DEF Tells, HealthSuits
  <2> QED
    BY <1>1, <1>2, <2>1, <2>2, Types DEF Uncrossed, OwnFits
<1>4. ASSUME ~crossed, Active(k), own # None, call[k].at \in Calm PROVE Settled(gateway[own])
  <2>1. ASSUME NEW j \in Calls PROVE call[j].at \in Calm
    <3>1. CASE call[k].at \in OnTheAgent
      BY <1>4, <3>1 DEF GatewayInv, Uncrossed, Alone, Active, Calm
    <3>2. CASE call[k].at \notin OnTheAgent
      BY <1>4, <3>2 DEF GatewayInv, Uncrossed, Alone, Active, Calm
    <3> QED
      BY <3>1, <3>2
  <2> QED
    BY <1>4, <2>1 DEF GatewayInv, Uncrossed, OwnFits
<1>5. ASSUME ~crossed, Active(k) PROVE OwnSuits(k)
  BY <1>4, <1>5 DEF OwnSuits, GatewayInv, Uncrossed, OwnFits
<1> QED
  BY <1>1, <1>2, <1>3, <1>5, Indices DEF FieldsAgree, HasGateway

-----------------------------------------------------------------------------
\* A start that failed gives its gateway up.
LEMMA GiveUps ==
    ASSUME DesktopGatewayAssumption, GatewayInv,
           NEW k \in Calls, call[k].at \in {"pipe", "compose"}, GiveUp(k),
           crossed' = crossed, Fault \/ NoFault,
           ~crossed => gateway[own].life \in {"made", "failed"} /\ gateway[own].child # "alive"
    PROVE  GatewayInv'
<1>0. Typing
  BY DEF GatewayInv
<1>1. MainCall(k) /\ call[k].at \in WithGateway /\ Active(k)
  BY DEF MainCall, Active, OnTheAgent, WithGateway
<1>2. PICK g \in Gateways : g = call[k].gateway
  BY <1>1, CallFacts
<1>3. gateway' \in [Gateways -> Records] /\ \A h \in Gateways : gateway'[h] =
        IF h = g THEN [gateway[g] EXCEPT !.closing = IF gateway[g].closing = "no" THEN "begun"
                                                     ELSE gateway[g].closing]
        ELSE gateway[h]
  <2>1. gateway' = Closing(gateway, g)
    BY <1>2 DEF GiveUp
  <2> QED
    BY <1>0, <2>1, Types, ClosingOnes
<1>4. /\ call' \in [Calls -> [at : Places, gateway : Gateways \cup {None}]]
      /\ call'[k].at = "undo" /\ call'[k].gateway = g
      /\ \A j \in Calls \ {k} : call'[j] = call[j]
  BY <1>0, <1>2, CallMoves, "undo" \in Places DEF GiveUp, Places
<1>5. health' = "error" /\ UNCHANGED <<own, tools, preparing, exited, made>>
  BY DEF GiveUp
<1>6. TypedStep(k)
  BY <1>0, <1>2, <1>3, <1>4, <1>5, Types, CallFacts DEF TypedStep, HasGateway
<1>7. ASSUME ~crossed PROVE SuitedStep(k)
  <2>1. /\ own = g /\ gateway[g] \in Records /\ Ended(gateway[g])
        /\ \A h \in Gateways : h # g => Gone(gateway[h])
    BY <1>1, <1>2, <1>7, CallFacts DEF Works
  <2>2. OwnAt(gateway[g], call[k].at)
    BY <1>1, <1>2, <1>7, <2>1, CallFacts DEF OwnSuits
  <2>3. /\ gateway'[g].life = gateway[g].life /\ gateway'[g].child = gateway[g].child
        /\ gateway'[g].ticking = gateway[g].ticking /\ gateway'[g].trouble = gateway[g].trouble
        /\ gateway'[g].closing = IF gateway[g].closing = "no" THEN "begun" ELSE gateway[g].closing
    BY <1>3, <2>1 DEF Records
  <2>4. Works(k)' /\ HealthSuits(k)'
    BY <1>2, <1>4, <1>5, <2>1, CallFacts DEF Works, HealthSuits, Active
  <2>5. OwnSuits(k)'
    BY <1>4, <1>5, <1>7, <2>1, <2>2, <2>3 DEF OwnSuits, Ended, OwnAt, Calm, OnTheAgent
  <2> QED
    BY <1>3, <1>5, <2>1, <2>4, <2>5 DEF SuitedStep, Gone
<1> QED
  BY <1>1, <1>6, <1>7, MainSteps

\* The pipe opens.
LEMMA PipeOpensKeeps ==
    ASSUME DesktopGatewayAssumption, GatewayInv,
           NEW k \in Calls, PipeOpens(k), crossed' = crossed
    PROVE  GatewayInv'
<1>0. Typing
  BY DEF GatewayInv
<1>1. MainCall(k) /\ call[k].at \in WithGateway /\ call[k].at = "pipe" /\ Active(k)
  BY DEF MainCall, Active, OnTheAgent, WithGateway, PipeOpens, At
<1>2. PICK g \in Gateways : g = call[k].gateway
  BY <1>1, CallFacts
<1>3. ASSUME ~crossed
      PROVE  /\ own = g /\ gateway[g] \in Records /\ Ended(gateway[g])
             /\ \A h \in Gateways : h # g => Gone(gateway[h])
             /\ OwnAt(gateway[g], "pipe")
  BY <1>1, <1>2, <1>3, CallFacts DEF Works, OwnSuits
<1>4. CASE gateway[g].closing # "no"
  BY <1>1, <1>2, <1>3, <1>4, GiveUps DEF PipeOpens, OwnAt
<1>5. CASE gateway[g].closing = "no"
  <2>1. /\ gateway' = [gateway EXCEPT ![g].life = "starting"] /\ GoTo(k, "compose")
        /\ UNCHANGED <<own, tools, health, preparing, exited, made>> /\ NoFault
    BY <1>2, <1>5 DEF PipeOpens
  <2>2. /\ call' \in [Calls -> [at : Places, gateway : Gateways \cup {None}]]
        /\ call'[k].at = "compose" /\ call'[k].gateway = g
        /\ \A j \in Calls \ {k} : call'[j] = call[j]
    BY <1>0, <1>2, <2>1, CallMoves, "compose" \in Places DEF Places
  <2>3. /\ gateway' \in [Gateways -> Records] /\ gateway'[g].life = "starting"
        /\ gateway'[g].closing = gateway[g].closing /\ gateway'[g].child = gateway[g].child
        /\ gateway'[g].ticking = gateway[g].ticking
        /\ \A h \in Gateways \ {g} : gateway'[h] = gateway[h]
    BY <1>0, <2>1, Types DEF Records
  <2>4. TypedStep(k)
    BY <1>0, <1>2, <2>1, <2>2, <2>3, Types, CallFacts DEF TypedStep, HasGateway
  <2>5. ASSUME ~crossed PROVE SuitedStep(k)
    <3>1. Works(k)' /\ HealthSuits(k)'
      BY <1>2, <1>3, <2>1, <2>2, <2>5, CallFacts DEF Works, HealthSuits, Active
    <3>2. OwnSuits(k)'
      BY <1>3, <1>5, <2>1, <2>2, <2>3, <2>5 DEF OwnSuits, Ended, OwnAt, Calm, OnTheAgent
    <3> QED
      BY <1>3, <2>1, <2>3, <2>5, <3>1, <3>2 DEF SuitedStep, Gone
  <2> QED
    BY <1>1, <2>4, <2>5, MainSteps
<1> QED
  BY <1>4, <1>5

\* The pipe does not open.
LEMMA PipeFailsKeeps ==
    ASSUME DesktopGatewayAssumption, GatewayInv,
           NEW k \in Calls, PipeFails(k), crossed' = crossed
    PROVE  GatewayInv'
<1>1. call[k].at = "pipe" /\ GiveUp(k) /\ Fault /\ Active(k)
  BY DEF PipeFails, At, Active
<1>2. ASSUME ~crossed
      PROVE  gateway[own].life = "made" /\ gateway[own].child = "none"
  <2>1. own # None
    BY <1>1, <1>2, CallFacts DEF Works, WithGateway
  <2> QED
    BY <1>1, <1>2, <2>1, CallFacts DEF OwnSuits, OwnAt
<1> QED
  BY <1>1, <1>2, GiveUps

\* The composition has come up, or has failed to.
LEMMA CompositionStartsKeeps ==
    ASSUME DesktopGatewayAssumption, GatewayInv,
           NEW k \in Calls, CompositionStarts(k), crossed' = crossed
    PROVE  GatewayInv'
<1>0. Typing
  BY DEF GatewayInv
<1>1. MainCall(k) /\ call[k].at \in WithGateway /\ call[k].at = "compose" /\ Active(k)
  BY DEF MainCall, Active, OnTheAgent, WithGateway, CompositionStarts, At
<1>2. PICK g \in Gateways : g = call[k].gateway
  BY <1>1, CallFacts
<1>3. ASSUME ~crossed
      PROVE  /\ own = g /\ tools = g /\ tools # None /\ gateway[g] \in Records /\ Ended(gateway[g])
             /\ \A h \in Gateways : h # g => Gone(gateway[h])
             /\ OwnAt(gateway[g], "compose")
  BY <1>1, <1>2, <1>3, CallFacts DEF Works, OwnSuits
<1>4. CASE ~(gateway[g].life \in {"up", "off"} /\ tools # None)
  <2>1. gateway[g].life # "starting" /\ GiveUp(k) /\ NoFault
    BY <1>2, <1>4 DEF CompositionStarts
  <2>2. ~crossed => gateway[g].life = "failed" /\ gateway[g].child # "alive"
    BY <1>3, <1>4, <2>1 DEF OwnAt
  <2> QED
    BY <1>1, <1>3, <2>1, <2>2, GiveUps
<1>5. CASE gateway[g].life \in {"up", "off"} /\ tools # None
  <2>1. /\ gateway' = [gateway EXCEPT ![tools].ticking = TRUE] /\ Over(k) /\ health' = "ready"
        /\ UNCHANGED <<own, tools, preparing, exited, made>> /\ NoFault
    BY <1>2, <1>5 DEF CompositionStarts
  <2>2. /\ call' \in [Calls -> [at : Places, gateway : Gateways \cup {None}]]
        /\ call'[k].at = "over" /\ call'[k].gateway = None
        /\ \A j \in Calls \ {k} : call'[j] = call[j]
    BY <1>0, <2>1, CallEnds
  <2>a. PICK h \in Gateways : h = tools
    BY <1>0, <1>5, Types
  <2>3. /\ gateway' \in [Gateways -> Records] /\ gateway'[h].ticking
        /\ gateway'[h].closing = gateway[h].closing /\ gateway'[h].child = gateway[h].child
        /\ gateway'[h].life = gateway[h].life
        /\ \A i \in Gateways \ {h} : gateway'[i] = gateway[i]
    BY <1>0, <2>1, <2>a, Types DEF Records
  <2>4. TypedStep(k)
    BY <1>0, <1>2, <2>1, <2>2, <2>3, Types, CallFacts DEF TypedStep, HasGateway, WithGateway
  <2>5. ASSUME ~crossed PROVE SuitedStep(k)
    <3>1. Works(k)' /\ HealthSuits(k)'
      BY <1>3, <2>1, <2>2, <2>5, CallFacts DEF Works, HealthSuits, Active, WithGateway
    <3>2. OwnSuits(k)'
      BY <1>3, <1>5, <2>1, <2>2, <2>3, <2>a, <2>5 DEF OwnSuits, Ended, OwnAt, Settled
    <3> QED
      BY <1>3, <2>1, <2>3, <2>a, <2>5, <3>1, <3>2 DEF SuitedStep, Gone
  <2> QED
    BY <1>1, <2>4, <2>5, MainSteps
<1> QED
  BY <1>4, <1>5

\* What failed to start is stopped.
LEMMA UndoneKeeps ==
    ASSUME DesktopGatewayAssumption, GatewayInv, NEW k \in Calls, Undone(k), crossed' = crossed
    PROVE  GatewayInv'
<1>0. Typing
  BY DEF GatewayInv
<1>1. MainCall(k) /\ call[k].at \in WithGateway /\ call[k].at = "undo" /\ Active(k)
  BY DEF MainCall, Active, OnTheAgent, WithGateway, Undone, At
<1>2. PICK g \in Gateways : g = call[k].gateway
  BY <1>1, CallFacts
<1>3. ASSUME ~crossed
      PROVE  /\ own = g /\ tools = g /\ tools # None /\ gateway[g] \in Records /\ Ended(gateway[g])
             /\ \A h \in Gateways : h # g => Gone(gateway[h])
             /\ OwnAt(gateway[g], "undo") /\ health = "error"
  BY <1>1, <1>2, <1>3, CallFacts DEF Works, OwnSuits, HealthSuits
<1>4. /\ gateway' = Quieted(gateway) /\ GoTo(k, "drop") /\ gateway[g].closing = "done"
      /\ UNCHANGED <<own, tools, health, preparing, exited, made, faults>>
  BY <1>2 DEF Undone
<1>5. /\ call' \in [Calls -> [at : Places, gateway : Gateways \cup {None}]]
      /\ call'[k].at = "drop" /\ call'[k].gateway = g
      /\ \A j \in Calls \ {k} : call'[j] = call[j]
  BY <1>0, <1>2, <1>4, CallMoves, "drop" \in Places DEF Places
<1>6. /\ gateway' \in [Gateways -> Records]
      /\ \A h \in Gateways : gateway'[h] =
            IF h = tools THEN [gateway[h] EXCEPT !.ticking = FALSE] ELSE gateway[h]
  BY <1>0, <1>4, Types, QuietedOnes
<1>7. TypedStep(k)
  BY <1>0, <1>2, <1>4, <1>5, <1>6, Types, CallFacts DEF TypedStep, HasGateway
<1>8. ASSUME ~crossed PROVE SuitedStep(k)
  <2>1. gateway'[g] = [gateway[g] EXCEPT !.ticking = FALSE] /\ gateway[g] \in Records
    BY <1>3, <1>6, <1>8
  <2>2. /\ ~gateway'[g].ticking
        /\ gateway'[g].closing = gateway[g].closing /\ gateway'[g].child = gateway[g].child
        /\ gateway'[g].life = gateway[g].life /\ gateway'[g].trouble = gateway[g].trouble
    BY <2>1 DEF Records
  <2>3. Works(k)' /\ HealthSuits(k)'
    BY <1>2, <1>3, <1>4, <1>5, <1>8, CallFacts DEF Works, HealthSuits, Active
  <2>4. OwnSuits(k)'
    BY <1>3, <1>4, <1>5, <1>8, <2>2 DEF OwnSuits, Ended, OwnAt, Calm, OnTheAgent
  <2> QED
    BY <1>3, <1>4, <1>6, <1>8, <2>3, <2>4 DEF SuitedStep, Gone
<1> QED
  BY <1>1, <1>7, <1>8, MainSteps

\* And dropped.
LEMMA DroppedKeeps ==
    ASSUME DesktopGatewayAssumption, GatewayInv, NEW k \in Calls, Dropped(k), crossed' = crossed
    PROVE  GatewayInv'
<1>0. Typing
  BY DEF GatewayInv
<1>1. MainCall(k) /\ call[k].at \in WithGateway /\ call[k].at = "drop" /\ Active(k)
  BY DEF MainCall, Active, OnTheAgent, WithGateway, Dropped, At
<1>2. PICK g \in Gateways : g = call[k].gateway
  BY <1>1, CallFacts
<1>3. ASSUME ~crossed
      PROVE  /\ own = g /\ own # None /\ gateway[g] \in Records /\ Ended(gateway[g])
             /\ \A h \in Gateways : h # g => Gone(gateway[h])
             /\ OwnAt(gateway[g], "drop") /\ health = "error"
  BY <1>1, <1>2, <1>3, CallFacts DEF Works, OwnSuits, HealthSuits
<1>4. /\ gateway' = [gateway EXCEPT ![g].store = FALSE] /\ Over(k) /\ own' = None /\ tools' = None
      /\ UNCHANGED <<health, preparing, exited, made, faults>>
  BY <1>2 DEF Dropped
<1>5. /\ call' \in [Calls -> [at : Places, gateway : Gateways \cup {None}]]
      /\ call'[k].at = "over" /\ call'[k].gateway = None
      /\ \A j \in Calls \ {k} : call'[j] = call[j]
  BY <1>0, <1>4, CallEnds
<1>6. /\ gateway' \in [Gateways -> Records] /\ ~gateway'[g].store
      /\ gateway'[g].ticking = gateway[g].ticking
      /\ gateway'[g].closing = gateway[g].closing /\ gateway'[g].child = gateway[g].child
      /\ gateway'[g].life = gateway[g].life /\ gateway[g] \in Records
      /\ \A h \in Gateways \ {g} : gateway'[h] = gateway[h]
  BY <1>0, <1>4, Types DEF Records
<1>7. TypedStep(k)
  <2>1. own' <= made' /\ own' \in Gateways \cup {None} /\ (health = "stopped" => own' = None)
    BY <1>0, <1>4, Types, Indices DEF None
  <2> QED
    BY <1>0, <1>2, <1>4, <1>5, <1>6, <2>1, Types, CallFacts DEF TypedStep, HasGateway,
       WithGateway
<1>8. ASSUME ~crossed PROVE SuitedStep(k)
  <2>1. Works(k)' /\ HealthSuits(k)' /\ OwnSuits(k)'
    BY <1>3, <1>4, <1>5, <1>8 DEF Works, HealthSuits, Active, WithGateway, OwnSuits
  <2>2. Gone(gateway[g])'
    BY <1>3, <1>6, <1>8 DEF OwnAt, Ended, Gone, Records
  <2> QED
    BY <1>3, <1>4, <1>6, <1>8, <2>1, <2>2 DEF SuitedStep, Gone
<1> QED
  BY <1>1, <1>7, <1>8, MainSteps

-----------------------------------------------------------------------------
\* A stop() begins.
LEMMA BeginStops ==
    ASSUME DesktopGatewayAssumption, GatewayInv, NEW k \in Calls, BeginStop(k)
    PROVE  TypedStep(k) /\ (~crossed => SuitedStep(k)) /\ call'[k].at = "quiesce"
<1>0. Typing
  BY DEF GatewayInv
<1>1. /\ gateway' = Quieted(gateway) /\ GoTo(k, "quiesce")
      /\ UNCHANGED <<own, tools, health, preparing, exited, made, faults>>
  BY DEF BeginStop
<1>2. /\ call' \in [Calls -> [at : Places, gateway : Gateways \cup {None}]]
      /\ call'[k].at = "quiesce" /\ call'[k].gateway = call[k].gateway
      /\ \A j \in Calls \ {k} : call'[j] = call[j]
  BY <1>0, <1>1, CallMoves, "quiesce" \in Places DEF Places
<1>3. /\ gateway' \in [Gateways -> Records]
      /\ \A h \in Gateways : gateway'[h] =
            IF h = tools THEN [gateway[h] EXCEPT !.ticking = FALSE] ELSE gateway[h]
  BY <1>0, <1>1, Types, QuietedOnes
<1>4. TypedStep(k)
  BY <1>0, <1>1, <1>2, <1>3, Types, CallFacts DEF TypedStep, HasGateway, WithGateway
<1>5. ASSUME ~crossed PROVE SuitedStep(k)
  <2>1. Works(k)' /\ HealthSuits(k)'
    BY <1>1, <1>2, <1>5, CallFacts DEF Works, HealthSuits, Active, WithGateway
  <2>2. ASSUME own # None PROVE OwnSuits(k)'
    <3>1. own \in Gateways /\ tools = own /\ gateway[own] \in Records /\ Ended(gateway[own])
      BY <1>5, <2>2, CallFacts
    <3>2. gateway'[own] = [gateway[own] EXCEPT !.ticking = FALSE]
      BY <1>3, <3>1
    <3>3. /\ ~gateway'[own].ticking
          /\ gateway'[own].closing = gateway[own].closing /\ gateway'[own].child = gateway[own].child
          /\ gateway'[own].life = gateway[own].life /\ gateway'[own].trouble = gateway[own].trouble
      BY <3>1, <3>2 DEF Records
    <3> QED
      BY <1>1, <1>2, <3>1, <3>3 DEF OwnSuits, Ended, OwnAt, Calm, OnTheAgent
  <2>3. OwnSuits(k)'
    BY <1>1, <2>2 DEF OwnSuits
  <2> QED
    BY <1>1, <1>3, <1>5, <2>1, <2>3, CallFacts DEF SuitedStep
<1> QED
  BY <1>2, <1>4, <1>5

\* The application cleans up before it ends.
LEMMA CleanUpKeeps ==
    ASSUME DesktopGatewayAssumption, GatewayInv, NEW k \in Calls, CleanUp(k), crossed' = crossed
    PROVE  GatewayInv'
<1>1. MainCall(k) /\ BeginStop(k)
  BY DEF MainCall, Active, OnTheAgent, CleanUp, At
<1> QED
  BY <1>1, BeginStops, MainSteps

\* The automations are quiet; the composition is stopped.
LEMMA QuiescedKeeps ==
    ASSUME DesktopGatewayAssumption, GatewayInv, NEW k \in Calls, Quiesced(k), crossed' = crossed
    PROVE  GatewayInv'
<1>0. Typing
  BY DEF GatewayInv
<1>1. MainCall(k) /\ call[k].at = "quiesce" /\ Active(k)
  BY DEF MainCall, Active, OnTheAgent, Quiesced, At
<1>2. UNCHANGED <<own, tools, health, preparing, exited, made, faults>>
  BY DEF Quiesced
<1>3. CASE own = None
  <2>1. gateway' = Quieted(gateway) /\ GoTo(k, "close")
    BY <1>3 DEF Quiesced
  <2>2. /\ call' \in [Calls -> [at : Places, gateway : Gateways \cup {None}]]
        /\ call'[k].at = "close" /\ call'[k].gateway = call[k].gateway
        /\ \A j \in Calls \ {k} : call'[j] = call[j]
    BY <1>0, <2>1, CallMoves, "close" \in Places DEF Places
  <2>3. /\ gateway' \in [Gateways -> Records]
        /\ \A h \in Gateways : gateway'[h] = gateway[h]
    BY <1>0, <1>3, <2>1, Types, QuietedOnes, CallFacts
  <2>4. TypedStep(k)
    BY <1>0, <1>2, <2>2, <2>3, Types, CallFacts DEF TypedStep, HasGateway, WithGateway
  <2>5. ASSUME ~crossed PROVE SuitedStep(k)
    <3>1. Works(k)' /\ HealthSuits(k)' /\ OwnSuits(k)'
      BY <1>2, <1>3, <2>2, <2>5, CallFacts DEF Works, HealthSuits, OwnSuits, Active, WithGateway
    <3> QED
      BY <1>2, <1>3, <2>3, <2>5, <3>1, CallFacts DEF SuitedStep
  <2> QED
    BY <1>1, <2>4, <2>5, MainSteps
<1>4. CASE own # None
  <2>0. PICK g \in Gateways : g = own
    BY <1>4, CallFacts
  <2>1. gateway' = Closing(gateway, g) /\ GoWith(k, "stop", g)
    BY <1>4, <2>0 DEF Quiesced
  <2>2. /\ call' \in [Calls -> [at : Places, gateway : Gateways \cup {None}]]
        /\ call'[k].at = "stop" /\ call'[k].gateway = g
        /\ \A j \in Calls \ {k} : call'[j] = call[j]
    BY <1>0, <2>1, CallMoves, "stop" \in Places DEF Places
  <2>3. gateway' \in [Gateways -> Records] /\ \A h \in Gateways : gateway'[h] =
          IF h = g THEN [gateway[g] EXCEPT !.closing = IF gateway[g].closing = "no" THEN "begun"
                                                       ELSE gateway[g].closing]
          ELSE gateway[h]
    BY <1>0, <2>1, Types, ClosingOnes
  <2>4. TypedStep(k)
    BY <1>0, <1>2, <2>0, <2>2, <2>3, Types, CallFacts DEF TypedStep, HasGateway, WithGateway
  <2>5. ASSUME ~crossed PROVE SuitedStep(k)
    <3>1. Works(k)' /\ HealthSuits(k)'
      BY <1>2, <1>4, <2>0, <2>2, <2>5, CallFacts DEF Works, HealthSuits, Active, WithGateway
    <3>2. gateway[g] \in Records /\ Ended(gateway[g]) /\ OwnAt(gateway[g], "quiesce")
      BY <1>1, <1>4, <2>0, <2>5, CallFacts DEF OwnSuits
    <3>3. /\ gateway'[g].life = gateway[g].life /\ gateway'[g].child = gateway[g].child
          /\ gateway'[g].ticking = gateway[g].ticking /\ gateway'[g].trouble = gateway[g].trouble
          /\ gateway'[g].closing = IF gateway[g].closing = "no" THEN "begun" ELSE gateway[g].closing
      BY <2>3, <3>2 DEF Records
    <3>4. OwnSuits(k)'
      BY <1>2, <2>0, <2>2, <3>2, <3>3 DEF OwnSuits, Ended, OwnAt, Calm, OnTheAgent
    <3> QED
      BY <1>2, <2>0, <2>3, <2>5, <3>1, <3>4, CallFacts DEF SuitedStep
  <2> QED
    BY <1>1, <2>4, <2>5, MainSteps
<1> QED
  BY <1>3, <1>4

\* The end of a stop or an installation that failed.
LEMMA Failing ==
    ASSUME DesktopGatewayAssumption, GatewayInv,
           NEW k \in Calls, call[k].at \in {"stop", "installing"}, Fails(k),
           UNCHANGED <<own, tools, health, gateway, made>>, Fault \/ NoFault \/ faults' = faults,
           crossed' = crossed,
           ~crossed /\ own # None => /\ ~gateway[own].ticking
                                     /\ gateway[own].closing = "done" /\ gateway[own].trouble
    PROVE  GatewayInv'
<1>0. Typing
  BY DEF GatewayInv
<1>1. MainCall(k) /\ Active(k)
  BY DEF MainCall, Active, OnTheAgent
<1>2. /\ call' \in [Calls -> [at : Places, gateway : Gateways \cup {None}]]
      /\ call'[k].at \in {"recover", "over"} /\ call'[k].gateway = None
      /\ \A j \in Calls \ {k} : call'[j] = call[j]
  <2>1. GoWith(k, "recover", None) \/ Over(k)
    BY DEF Fails
  <2> QED
    BY <1>0, <2>1, CallMoves, CallEnds, "recover" \in Places DEF Places
<1>3. preparing' \in BOOLEAN /\ exited' \in BOOLEAN
  BY <1>0, Types DEF Fails
<1>a. call'[k].at = "recover" => preparing' = FALSE
  <2>1. KindOf[k] = "update" => preparing' = FALSE
    BY DEF Fails
  <2>2. KindOf[k] # "update" => Over(k)
    BY DEF Fails
  <2> QED
    BY <1>0, <2>1, <2>2, CallEnds
<1>4. TypedStep(k)
  BY <1>0, <1>2, <1>3, Types, CallFacts DEF TypedStep, HasGateway, WithGateway
<1>5. ASSUME ~crossed PROVE SuitedStep(k)
  <2>1. Works(k)' /\ HealthSuits(k)'
    <3>1. Works(k)'
      BY <1>2, <1>5, CallFacts DEF Works, Active, WithGateway
    <3>2. HealthSuits(k)'
      BY <1>2, <1>a, <1>5, CallFacts DEF HealthSuits
    <3> QED
      BY <3>1, <3>2
  <2>2. OwnSuits(k)'
    BY <1>2, <1>5, CallFacts DEF OwnSuits, OwnAt, Settled
  <2> QED
    BY <1>5, <2>1, <2>2, CallFacts DEF SuitedStep
<1> QED
  BY <1>1, <1>4, <1>5, MainSteps

\* The composition has stopped, or its stop has failed.
LEMMA CompositionStopsKeeps ==
    ASSUME DesktopGatewayAssumption, GatewayInv,
           NEW k \in Calls, CompositionStops(k), crossed' = crossed
    PROVE  GatewayInv'
<1>0. Typing
  BY DEF GatewayInv
<1>1. /\ MainCall(k) /\ call[k].at = "stop" /\ Active(k) /\ call[k].at \in WithGateway
      /\ UNCHANGED <<own, tools, health, made, faults>>
  BY DEF MainCall, Active, OnTheAgent, CompositionStops, At, WithGateway
<1>2. PICK g \in Gateways : g = call[k].gateway
  BY <1>1, CallFacts
<1>a. gateway[g].closing = "done"
  BY <1>2 DEF CompositionStops
<1>3. ASSUME ~crossed
      PROVE  /\ own = g /\ own # None /\ tools = g /\ gateway[g] \in Records /\ Ended(gateway[g])
             /\ \A h \in Gateways : h # g => Gone(gateway[h])
             /\ OwnAt(gateway[g], "stop")
  BY <1>1, <1>2, <1>3, CallFacts DEF Works, OwnSuits
<1>4. CASE HasProcess \/ (KindOf[k] = "update" /\ gateway[g].trouble)
  <2>1. Fails(k) /\ UNCHANGED gateway
    BY <1>2, <1>4 DEF CompositionStops
  <2>2. ASSUME ~crossed, own # None
        PROVE  ~gateway[own].ticking /\ gateway[own].closing = "done" /\ gateway[own].trouble
    BY <1>3, <1>4, <1>a, <2>2 DEF HasProcess, Ended, OwnAt
  <2> QED
    BY <1>1, <2>1, <2>2, Failing
<1>5. CASE ~(HasProcess \/ (KindOf[k] = "update" /\ gateway[g].trouble))
  <2>1. gateway' = Quieted(gateway) /\ GoTo(k, "close") /\ UNCHANGED <<preparing, exited>>
    BY <1>2, <1>5 DEF CompositionStops
  <2>2. /\ call' \in [Calls -> [at : Places, gateway : Gateways \cup {None}]]
        /\ call'[k].at = "close" /\ call'[k].gateway = g
        /\ \A j \in Calls \ {k} : call'[j] = call[j]
    BY <1>0, <1>2, <2>1, CallMoves, "close" \in Places DEF Places
  <2>3. /\ gateway' \in [Gateways -> Records]
        /\ \A h \in Gateways : gateway'[h] =
              IF h = tools THEN [gateway[h] EXCEPT !.ticking = FALSE] ELSE gateway[h]
    BY <1>0, <2>1, Types, QuietedOnes
  <2>4. TypedStep(k)
    BY <1>0, <1>1, <1>2, <2>1, <2>2, <2>3, Types, CallFacts DEF TypedStep, HasGateway,
       WithGateway
  <2>5. ASSUME ~crossed PROVE SuitedStep(k)
    <3>1. gateway'[g] = [gateway[g] EXCEPT !.ticking = FALSE] /\ gateway[g] \in Records
      BY <1>3, <2>3, <2>5
    <3>2. /\ ~gateway'[g].ticking
          /\ gateway'[g].closing = gateway[g].closing /\ gateway'[g].child = gateway[g].child
          /\ gateway'[g].life = gateway[g].life /\ gateway'[g].trouble = gateway[g].trouble
      BY <3>1 DEF Records
    <3>3. gateway[g].child = "none"
      BY <1>3, <1>5, <2>5 DEF HasProcess
    <3>4. Works(k)' /\ HealthSuits(k)'
      BY <1>1, <1>2, <1>3, <2>2, <2>5, CallFacts DEF Works, HealthSuits, Active, WithGateway
    <3>5. OwnSuits(k)'
      BY <1>1, <1>3, <1>a, <2>2, <2>5, <3>2, <3>3 DEF OwnSuits, Ended, OwnAt, Calm, OnTheAgent
    <3> QED
      BY <1>1, <1>3, <2>3, <2>5, <3>4, <3>5 DEF SuitedStep
  <2> QED
    BY <1>1, <2>4, <2>5, MainSteps
<1> QED
  BY <1>4, <1>5

\* The store is closed and the gateway given up.
LEMMA ClosedKeeps ==
    ASSUME DesktopGatewayAssumption, GatewayInv, NEW k \in Calls, Closed(k), crossed' = crossed
    PROVE  GatewayInv'
<1>0. Typing
  BY DEF GatewayInv
<1>1. MainCall(k) /\ call[k].at = "close" /\ Active(k)
  BY DEF MainCall, Active, OnTheAgent, Closed, At
<1>2. /\ own' = None /\ tools' = None /\ gateway' = StoreClosed(gateway) /\ health' = "stopped"
      /\ UNCHANGED <<preparing, made, faults>>
      /\ exited' \in BOOLEAN
  BY <1>0, Types DEF Closed
<1>3. /\ call' \in [Calls -> [at : Places, gateway : Gateways \cup {None}]]
      /\ call'[k].at \in {"stopped", "installing", "over"} /\ call'[k].gateway = None
      /\ \A j \in Calls \ {k} : call'[j] = call[j]
  <2>1. GoWith(k, "stopped", None) \/ GoWith(k, "installing", None) \/ Over(k)
    BY DEF Closed
  <2> QED
    BY <1>0, <2>1, CallMoves, CallEnds, "stopped" \in Places, "installing" \in Places DEF Places
<1>4. /\ gateway' \in [Gateways -> Records]
      /\ \A g \in Gateways : gateway'[g] =
            IF g = own THEN [gateway[g] EXCEPT !.store = FALSE] ELSE gateway[g]
  BY <1>0, <1>2, Types, StoreClosedOnes
<1>5. TypedStep(k)
  <2>1. own' <= made' /\ own' \in Gateways \cup {None}
    BY <1>0, <1>2, Types, Indices DEF None
  <2> QED
    BY <1>0, <1>2, <1>3, <1>4, <2>1, Types DEF TypedStep, HasGateway, WithGateway
<1>6. ASSUME ~crossed PROVE SuitedStep(k)
  <2>1. Works(k)' /\ HealthSuits(k)' /\ OwnSuits(k)'
    BY <1>2, <1>3 DEF Works, HealthSuits, OwnSuits, Active, WithGateway
  <2>2. ASSUME own # None PROVE Gone(gateway'[own])
    <3>1. gateway[own] \in Records /\ Ended(gateway[own]) /\ OwnAt(gateway[own], "close")
          /\ own \in Gateways
      BY <1>1, <1>6, <2>2, CallFacts DEF OwnSuits
    <3>2. gateway'[own] = [gateway[own] EXCEPT !.store = FALSE]
      BY <1>4, <3>1
    <3>3. /\ ~gateway'[own].store /\ gateway'[own].ticking = gateway[own].ticking
          /\ gateway'[own].closing = gateway[own].closing /\ gateway'[own].child = gateway[own].child
          /\ gateway'[own].life = gateway[own].life
      BY <3>1, <3>2 DEF Records
    <3> QED
      BY <3>1, <3>3 DEF Ended, OwnAt, Gone
  <2> QED
    BY <1>4, <1>6, <2>1, <2>2, CallFacts DEF SuitedStep
<1> QED
  BY <1>1, <1>5, <1>6, MainSteps

\* A start of a gateway by a call, when it has no gateway.
LEMMA StartsSuit ==
    ASSUME DesktopGatewayAssumption, GatewayInv,
           NEW k \in Calls, NEW gs \in [Gateways -> Records],
           StartFrom(k, None, None, gs), UNCHANGED <<preparing, exited, faults>>,
           ~crossed => (preparing => health # "ready") /\ \A g \in Gateways : Gone(gs[g])
    PROVE  /\ TypedStep(k) /\ (~crossed => SuitedStep(k))
           /\ call'[k].at \in {"over", "pipe"} /\ (preparing => call'[k].at = "over")
<1>0. Typing
  BY DEF GatewayInv
<1>1. \/ /\ preparing \/ None # None
         /\ own' = None /\ tools' = None /\ gateway' = gs
         /\ call' \in [Calls -> [at : Places, gateway : Gateways \cup {None}]]
         /\ call'[k].at = "over" /\ call'[k].gateway = None
         /\ \A j \in Calls \ {k} : call'[j] = call[j]
         /\ health' = health /\ made' = made
      \/ /\ ~preparing /\ None = None
         /\ own' \in Gateways /\ own' # None /\ tools' = own' /\ made' = own'
         /\ made' \in 0..MaxGateways /\ health' = "starting"
         /\ gateway' \in [Gateways -> Records]
         /\ gateway'[own'] = [Unmade EXCEPT !.life = "made", !.store = TRUE]
         /\ \A g \in Gateways : g # own' => gateway'[g] = gs[g]
         /\ call' \in [Calls -> [at : Places, gateway : Gateways \cup {None}]]
         /\ call'[k].at = "pipe" /\ call'[k].gateway = own'
         /\ \A j \in Calls \ {k} : call'[j] = call[j]
  <2>1. None \in {own, None}
    OBVIOUS
  <2> QED
    BY <1>0, <2>1, StartsAre
<1>2. CASE /\ preparing
           /\ own' = None /\ tools' = None /\ gateway' = gs
           /\ call' \in [Calls -> [at : Places, gateway : Gateways \cup {None}]]
           /\ call'[k].at = "over" /\ call'[k].gateway = None
           /\ \A j \in Calls \ {k} : call'[j] = call[j]
           /\ health' = health /\ made' = made
  <2>1. own' <= made' /\ own' \in Gateways \cup {None}
    BY <1>0, <1>2, Types, Indices DEF None
  <2>2. TypedStep(k)
    BY <1>0, <1>2, <2>1, Types DEF TypedStep, HasGateway, WithGateway
  <2>3. ASSUME ~crossed PROVE SuitedStep(k)
    BY <1>2, <2>3 DEF SuitedStep, Works, HealthSuits, OwnSuits, Active, WithGateway
  <2> QED
    BY <1>2, <2>2, <2>3
<1>3. CASE /\ ~preparing
           /\ own' \in Gateways /\ own' # None /\ tools' = own' /\ made' = own'
           /\ made' \in 0..MaxGateways /\ health' = "starting"
           /\ gateway' \in [Gateways -> Records]
           /\ gateway'[own'] = [Unmade EXCEPT !.life = "made", !.store = TRUE]
           /\ \A g \in Gateways : g # own' => gateway'[g] = gs[g]
           /\ call' \in [Calls -> [at : Places, gateway : Gateways \cup {None}]]
           /\ call'[k].at = "pipe" /\ call'[k].gateway = own'
           /\ \A j \in Calls \ {k} : call'[j] = call[j]
  <2>1. own' <= made'
    BY <1>3, Indices
  <2>2. TypedStep(k)
    BY <1>0, <1>3, <2>1, Types DEF TypedStep, HasGateway, WithGateway
  <2>3. ASSUME ~crossed PROVE SuitedStep(k)
    <3>1. /\ gateway'[own'].life = "made" /\ gateway'[own'].closing = "no"
          /\ gateway'[own'].child = "none" /\ ~gateway'[own'].ticking
      BY <1>3 DEF Unmade
    <3>2. Works(k)' /\ HealthSuits(k)'
      BY <1>3 DEF Works, HealthSuits, Active, WithGateway
    <3>3. OwnSuits(k)'
      BY <1>3, <3>1 DEF OwnSuits, Ended, OwnAt, Calm, OnTheAgent
    <3> QED
      BY <1>3, <2>3, <3>2, <3>3 DEF SuitedStep
  <2> QED
    BY <1>3, <2>2, <2>3
<1> QED
  BY <1>1, <1>2, <1>3

\* A restart starts again.
LEMMA StartAgainKeeps ==
    ASSUME DesktopGatewayAssumption, GatewayInv,
           NEW k \in Calls, StartAgain(k), crossed' = crossed
    PROVE  GatewayInv'
<1>0. Typing
  BY DEF GatewayInv
<1>1. /\ MainCall(k) /\ call[k].at = "stopped" /\ Active(k)
      /\ StartFrom(k, own, tools, gateway) /\ UNCHANGED <<preparing, exited, faults>>
  BY DEF MainCall, Active, OnTheAgent, StartAgain, At
<1>2. tools = own
  BY CallFacts
<1>3. CASE own = None
  <2>1. ~crossed => health # "ready" /\ \A g \in Gateways : Gone(gateway[g])
    BY <1>3, CallFacts DEF HealthSuits
  <2>3. TypedStep(k) /\ (~crossed => SuitedStep(k))
    BY <1>0, <1>1, <1>2, <1>3, <2>1, Types, StartsSuit
  <2> QED
    BY <1>1, <2>3, MainSteps
<1>4. CASE own # None
  <2>1. crossed
    BY <1>1, <1>4, CallFacts DEF OwnSuits, OwnAt
  <2>2. /\ own' = own /\ tools' = tools /\ gateway' = gateway /\ Over(k)
        /\ UNCHANGED <<health, made>>
    BY <1>1, <1>4 DEF StartFrom
  <2>3. TypedStep(k)
    BY <1>0, <1>1, <1>2, <2>2, Types, CallEnds, CallFacts DEF TypedStep, HasGateway, WithGateway
  <2> QED
    BY <1>1, <2>1, <2>3, MainSteps
<1> QED
  BY <1>3, <1>4

\* An update is given up behind its fence.
LEMMA GiveUpdateUpKeeps ==
    ASSUME DesktopGatewayAssumption, GatewayInv,
           NEW k \in Calls, GiveUpdateUp(k), crossed' = crossed
    PROVE  GatewayInv'
<1>0. Typing
  BY DEF GatewayInv
<1>1. /\ MainCall(k) /\ call[k].at = "fenced" /\ Active(k)
      /\ preparing' = FALSE /\ Over(k)
      /\ UNCHANGED <<own, tools, health, exited, gateway, made, faults>>
  BY DEF MainCall, Active, OnTheAgent, GiveUpdateUp, At
<1>2. /\ call' \in [Calls -> [at : Places, gateway : Gateways \cup {None}]]
      /\ call'[k].at = "over" /\ call'[k].gateway = None
      /\ \A j \in Calls \ {k} : call'[j] = call[j]
  BY <1>0, <1>1, CallEnds
<1>3. TypedStep(k)
  BY <1>0, <1>1, <1>2, Types, CallFacts DEF TypedStep, HasGateway, WithGateway
<1>4. ASSUME ~crossed PROVE SuitedStep(k)
  <2>1. Works(k)' /\ HealthSuits(k)'
    BY <1>1, <1>2, <1>4, CallFacts DEF Works, HealthSuits, Active, WithGateway
  <2>2. OwnSuits(k)'
    BY <1>1, <1>2, <1>4, CallFacts DEF OwnSuits, OwnAt, Calm
  <2> QED
    BY <1>1, <1>4, <2>1, <2>2, CallFacts DEF SuitedStep
<1> QED
  BY <1>1, <1>3, <1>4, MainSteps

\* The installer runs: the application ends.
LEMMA InstallsKeeps ==
    ASSUME DesktopGatewayAssumption, GatewayInv, NEW k \in Calls, Installs(k), crossed' = crossed
    PROVE  GatewayInv'
<1>0. Typing
  BY DEF GatewayInv
<1>1. /\ MainCall(k) /\ call[k].at = "installing" /\ Active(k)
      /\ exited' = TRUE /\ Over(k)
      /\ UNCHANGED <<own, tools, health, preparing, gateway, made, faults>>
  BY DEF MainCall, Active, OnTheAgent, Installs, At
<1>2. /\ call' \in [Calls -> [at : Places, gateway : Gateways \cup {None}]]
      /\ call'[k].at = "over" /\ call'[k].gateway = None
      /\ \A j \in Calls \ {k} : call'[j] = call[j]
  BY <1>0, <1>1, CallEnds
<1>3. TypedStep(k)
  BY <1>0, <1>1, <1>2, Types, CallFacts DEF TypedStep, HasGateway, WithGateway
<1>4. ASSUME ~crossed PROVE SuitedStep(k)
  <2>1. own = None
    BY <1>1, <1>4, CallFacts DEF OwnSuits, OwnAt
  <2>2. Works(k)' /\ HealthSuits(k)' /\ OwnSuits(k)'
    BY <1>1, <1>2, <1>4, <2>1, CallFacts DEF Works, HealthSuits, OwnSuits, Active, WithGateway
  <2> QED
    BY <1>1, <1>4, <2>2, CallFacts DEF SuitedStep
<1> QED
  BY <1>1, <1>3, <1>4, MainSteps

\* Or it does not run.
LEMMA InstallFailsKeeps ==
    ASSUME DesktopGatewayAssumption, GatewayInv,
           NEW k \in Calls, InstallFails(k), crossed' = crossed
    PROVE  GatewayInv'
<1>1. /\ call[k].at = "installing" /\ Active(k) /\ Fails(k) /\ Fault
      /\ UNCHANGED <<own, tools, health, gateway, made>>
  BY DEF InstallFails, At, Active
<1>2. ~crossed => own = None
  BY <1>1, CallFacts DEF OwnSuits, OwnAt
<1> QED
  BY <1>1, <1>2, Failing

\* The recovery after an update finds a gateway in trouble.
LEMMA RecoveryFailsKeeps ==
    ASSUME DesktopGatewayAssumption, GatewayInv,
           NEW k \in Calls, RecoveryFails(k), crossed' = crossed
    PROVE  GatewayInv'
<1>0. Typing
  BY DEF GatewayInv
<1>1. /\ MainCall(k) /\ call[k].at = "recover" /\ Active(k) /\ Over(k) /\ Fault
      /\ UNCHANGED <<own, tools, health, preparing, exited, gateway, made>>
  BY DEF MainCall, Active, OnTheAgent, RecoveryFails, At
<1>2. /\ call' \in [Calls -> [at : Places, gateway : Gateways \cup {None}]]
      /\ call'[k].at = "over" /\ call'[k].gateway = None
      /\ \A j \in Calls \ {k} : call'[j] = call[j]
  BY <1>0, <1>1, CallEnds
<1>3. TypedStep(k)
  BY <1>0, <1>1, <1>2, Types, CallFacts DEF TypedStep, HasGateway, WithGateway
<1>4. ASSUME ~crossed PROVE SuitedStep(k)
  <2>1. Works(k)' /\ HealthSuits(k)'
    BY <1>1, <1>2, <1>4, CallFacts DEF Works, HealthSuits, Active, WithGateway
  <2>2. OwnSuits(k)'
    BY <1>1, <1>2, <1>4, CallFacts DEF OwnSuits, OwnAt, Settled
  <2> QED
    BY <1>1, <1>4, <2>1, <2>2, CallFacts DEF SuitedStep
<1> QED
  BY <1>1, <1>3, <1>4, MainSteps

\* The recovery begins.
LEMMA RecoverKeeps ==
    ASSUME DesktopGatewayAssumption, GatewayInv, NEW k \in Calls, Recover(k), crossed' = crossed
    PROVE  GatewayInv'
<1>0. Typing
  BY DEF GatewayInv
<1>1. /\ MainCall(k) /\ call[k].at = "recover" /\ Active(k)
      /\ UNCHANGED <<own, tools, health, preparing, exited, made, faults>>
  BY DEF MainCall, Active, OnTheAgent, Recover, At
<1>2. CASE HasProcess
  <2>1. Over(k) /\ UNCHANGED gateway
    BY <1>2 DEF Recover
  <2>2. /\ call' \in [Calls -> [at : Places, gateway : Gateways \cup {None}]]
        /\ call'[k].at = "over" /\ call'[k].gateway = None
        /\ \A j \in Calls \ {k} : call'[j] = call[j]
    BY <1>0, <2>1, CallEnds
  <2>3. TypedStep(k)
    BY <1>0, <1>1, <2>1, <2>2, Types, CallFacts DEF TypedStep, HasGateway, WithGateway
  <2>4. ASSUME ~crossed PROVE SuitedStep(k)
    <3>1. Works(k)' /\ HealthSuits(k)'
      BY <1>1, <2>1, <2>2, <2>4, CallFacts DEF Works, HealthSuits, Active, WithGateway
    <3>2. OwnSuits(k)'
      BY <1>1, <2>1, <2>2, <2>4, CallFacts DEF OwnSuits, OwnAt, Settled
    <3> QED
      BY <1>1, <2>1, <2>4, <3>1, <3>2, CallFacts DEF SuitedStep
  <2> QED
    BY <1>1, <2>3, <2>4, MainSteps
<1>3. CASE ~HasProcess
  <2>1. gateway' = Quieted(gateway) /\ GoWith(k, "reopen", own)
    BY <1>3 DEF Recover
  <2>2. /\ call' \in [Calls -> [at : Places, gateway : Gateways \cup {None}]]
        /\ call'[k].at = "reopen" /\ call'[k].gateway = own
        /\ \A j \in Calls \ {k} : call'[j] = call[j]
    BY <1>0, <2>1, Types, CallMoves, "reopen" \in Places DEF Places
  <2>3. /\ gateway' \in [Gateways -> Records]
        /\ \A h \in Gateways : gateway'[h] =
              IF h = tools THEN [gateway[h] EXCEPT !.ticking = FALSE] ELSE gateway[h]
    BY <1>0, <2>1, Types, QuietedOnes
  <2>4. TypedStep(k)
    BY <1>0, <1>1, <2>1, <2>2, <2>3, Types, CallFacts DEF TypedStep, HasGateway, WithGateway
  <2>5. ASSUME ~crossed PROVE SuitedStep(k)
    <3>1. Works(k)' /\ HealthSuits(k)'
      BY <1>1, <2>2, <2>5, CallFacts DEF Works, HealthSuits, Active, WithGateway
    <3>2. ASSUME own # None PROVE OwnSuits(k)'
      <4>1. /\ own \in Gateways /\ tools = own /\ gateway[own] \in Records
            /\ Ended(gateway[own]) /\ OwnAt(gateway[own], "recover")
        BY <1>1, <2>5, <3>2, CallFacts DEF OwnSuits
      <4>2. gateway'[own] = [gateway[own] EXCEPT !.ticking = FALSE]
        BY <2>3, <4>1
      <4>3. /\ ~gateway'[own].ticking /\ gateway[own].child = "none"
            /\ gateway'[own].closing = gateway[own].closing
            /\ gateway'[own].child = gateway[own].child
            /\ gateway'[own].life = gateway[own].life
            /\ gateway'[own].trouble = gateway[own].trouble
        BY <1>3, <3>2, <4>1, <4>2 DEF Records, HasProcess
      <4> QED
        BY <1>1, <2>2, <4>1, <4>3 DEF OwnSuits, Ended, OwnAt, Calm, OnTheAgent
    <3>3. OwnSuits(k)'
      BY <1>1, <3>2 DEF OwnSuits
    <3> QED
      BY <1>1, <2>3, <2>5, <3>1, <3>3, CallFacts DEF SuitedStep
  <2> QED
    BY <1>1, <2>4, <2>5, MainSteps
<1> QED
  BY <1>2, <1>3

\* And starts a gateway again.
LEMMA ReopenKeeps ==
    ASSUME DesktopGatewayAssumption, GatewayInv, NEW k \in Calls, Reopen(k), crossed' = crossed
    PROVE  GatewayInv'
<1>0. Typing
  BY DEF GatewayInv
<1>1. /\ MainCall(k) /\ call[k].at = "reopen" /\ Active(k)
      /\ StartFrom(k, None, None, StoreClosed(gateway)) /\ UNCHANGED <<preparing, exited, faults>>
  BY DEF MainCall, Active, OnTheAgent, Reopen, At
<1>2. PICK gs \in [Gateways -> Records] :
         /\ gs = StoreClosed(gateway)
         /\ \A g \in Gateways : gs[g] =
               IF g = own THEN [gateway[g] EXCEPT !.store = FALSE] ELSE gateway[g]
  BY <1>0, Types, StoreClosedOnes
<1>3. ASSUME ~crossed PROVE \A g \in Gateways : Gone(gs[g])
  <2>1. ASSUME own # None PROVE Gone(gs[own])
    <3>1. gateway[own] \in Records /\ Ended(gateway[own]) /\ OwnAt(gateway[own], "reopen")
          /\ own \in Gateways
      BY <1>1, <1>3, <2>1, CallFacts DEF OwnSuits
    <3>2. gs[own] = [gateway[own] EXCEPT !.store = FALSE]
      BY <1>2, <3>1
    <3>3. /\ ~gs[own].store /\ gs[own].ticking = gateway[own].ticking
          /\ gs[own].closing = gateway[own].closing /\ gs[own].child = gateway[own].child
          /\ gs[own].life = gateway[own].life
      BY <3>1, <3>2 DEF Records
    <3> QED
      BY <3>1, <3>3 DEF Ended, OwnAt, Gone
  <2> QED
    BY <1>2, <1>3, <2>1, CallFacts
<1>4. ~crossed => ~preparing
  BY <1>1, CallFacts DEF HealthSuits
<1>5. TypedStep(k) /\ (~crossed => SuitedStep(k))
  BY <1>1, <1>2, <1>3, <1>4, StartsSuit
<1> QED
  BY <1>1, <1>5, MainSteps

-----------------------------------------------------------------------------
\* A step beside others that look after the agent.
LEMMA BesideSteps ==
    ASSUME DesktopGatewayAssumption, GatewayInv,
           NEW k \in Calls, call[k].at \in OnTheAgent \cup {"idle"},
           TypedStep(k), crossed' \in BOOLEAN, own' = own,
           call'[k].at \in OnTheAgent \cup {"over"}, preparing' = preparing,
           ~crossed' => /\ ~crossed
                        /\ \A j \in Calls \ {k} : Active(j) => call[j].at \in OnTheAgent
                        /\ Works(k)' /\ (own = None => health' # "ready")
                        /\ \A g \in Gateways \ {own} : gateway'[g] = gateway[g]
                        /\ own # None =>
                              /\ gateway'[own].life = gateway[own].life
                              /\ gateway'[own].closing = gateway[own].closing
                              /\ gateway'[own].ticking = gateway[own].ticking
                              /\ gateway'[own].trouble = gateway[own].trouble
    PROVE  GatewayInv'
<1>1. Typing' /\ FieldsAgree' /\ HaveGateways'
  BY TypedSteps
<1>2. ASSUME ~crossed' PROVE Uncrossed'
  <2>1. Uncrossed /\ ~crossed
    BY <1>2 DEF GatewayInv
  <2>2. /\ \A j \in Calls \ {k} : call'[j] = call[j]
        /\ \A j \in Calls \ {k} : Active(j) => call[j].at \in OnTheAgent
    BY <1>2 DEF TypedStep
  <2>3. Alone'
    BY <2>2 DEF Alone, Active, OnTheAgent
  <2>4. \A g \in Gateways : g # own' => Gone(gateway'[g])
    BY <1>2, <2>1 DEF Uncrossed
  <2>5. \A j \in Calls : Works(j)'
    BY <1>2, <2>1, <2>2 DEF Uncrossed, Works, Active, WithGateway
  <2>6. \A j \in Calls : call[j].at \in Calm /\ call'[j].at \in Calm
    BY <2>2 DEF Active, Calm
  <2>7. ASSUME own # None
        PROVE  /\ Ended(gateway'[own]) /\ Settled(gateway'[own])
               /\ \A p \in Calm : OwnAt(gateway'[own], p)
    <3>1. Settled(gateway[own]) /\ Ended(gateway[own])
      BY <2>1, <2>6, <2>7 DEF Uncrossed, OwnFits
    <3>2. Settled(gateway'[own]) /\ Ended(gateway'[own])
      BY <1>2, <2>7, <3>1 DEF Settled, Ended
    <3>3. \A p \in Calm : OwnAt(gateway'[own], p)
      BY DEF OwnAt, Calm, OnTheAgent
    <3> QED
      BY <3>2, <3>3
  <2>8. OwnFits'
    BY <2>6, <2>7 DEF OwnFits
  <2>9. Tells'
    BY <1>2, <2>6 DEF Tells, Calm, OnTheAgent
  <2> QED
    BY <2>3, <2>4, <2>5, <2>8, <2>9 DEF Uncrossed
<1> QED
  BY <1>1, <1>2 DEF GatewayInv

\* A step of a call that looks after the agent.
LEMMA AgentSteps ==
    ASSUME DesktopGatewayAssumption, GatewayInv, NEW k \in Calls, call[k].at \in OnTheAgent,
           crossed' = crossed, Fault \/ NoFault \/ faults' = faults,
           UNCHANGED <<own, tools, preparing, exited, made>>,
           gateway' \in [Gateways -> Records],
           call' \in [Calls -> [at : Places, gateway : Gateways \cup {None}]],
           \A j \in Calls \ {k} : call'[j] = call[j],
           \/ /\ call'[k].at \in OnTheAgent \ {"down", "relaunch"}
              /\ call'[k].gateway = call[k].gateway
           \/ call'[k].at = "over" /\ call'[k].gateway = None
           \/ call'[k].at \in {"down", "relaunch"} /\ call'[k].gateway # None
              /\ (~crossed => call'[k].gateway = own),
           health' \in {"error", "starting", "ready", health},
           health' = "ready" => health = "ready" \/ crossed \/ own # None,
           \A g \in Gateways \ {own} : ~crossed => gateway'[g] = gateway[g],
           ~crossed /\ own # None =>
                 /\ gateway'[own].life = gateway[own].life
                 /\ gateway'[own].closing = gateway[own].closing
                 /\ gateway'[own].ticking = gateway[own].ticking
                 /\ gateway'[own].trouble = gateway[own].trouble
    PROVE  GatewayInv'
<1>0. Typing
  BY DEF GatewayInv
<1>1. Active(k) /\ call[k].at # "idle"
  BY DEF Active, OnTheAgent
<1>2. TypedStep(k)
  <2>1. HasGateway(k)'
    BY DEF HasGateway, WithGateway, OnTheAgent
  <2>2. health' \in {"stopped", "starting", "ready",
  "error"} /\ (health' = "stopped" => own = None)
    BY <1>0, Types, CallFacts
  <2> QED
    BY <1>0, <2>1, <2>2, Types, CallFacts DEF TypedStep
<1>3. ASSUME ~crossed
      PROVE  /\ \A j \in Calls \ {k} : Active(j) => call[j].at \in OnTheAgent
             /\ Works(k)' /\ (own = None => health' # "ready")
  <2>1. Alone
    BY <1>3 DEF GatewayInv, Uncrossed
  <2>2. \A j \in Calls \ {k} : Active(j) => call[j].at \in OnTheAgent
    BY <1>1, <2>1 DEF Alone
  <2>3. own = None => health' # "ready"
    BY <1>3, CallFacts DEF HealthSuits
  <2>4. Works(k)'
    BY <1>3, CallFacts DEF Works, Active, WithGateway, OnTheAgent
  <2> QED
    BY <2>2, <2>3, <2>4
<1>4. crossed' \in BOOLEAN
  BY <1>0, Types
<1>5. call[k].at \in OnTheAgent \cup {"idle"} /\ call'[k].at \in OnTheAgent \cup {"over"}
  BY DEF OnTheAgent
<1>6. ASSUME ~crossed
      PROVE  /\ \A g \in Gateways \ {own} : gateway'[g] = gateway[g]
             /\ own # None =>
                   /\ gateway'[own].life = gateway[own].life
                   /\ gateway'[own].closing = gateway[own].closing
                   /\ gateway'[own].ticking = gateway[own].ticking
                   /\ gateway'[own].trouble = gateway[own].trouble
  BY <1>6
<1>7. own' = own /\ preparing' = preparing
  OBVIOUS
<1> QED
  BY <1>2, <1>3, <1>4, <1>5, <1>6, <1>7, BesideSteps

\* restartAgent() begins, or is refused.
LEMMA HealthStopsKeeps ==
    ASSUME DesktopGatewayAssumption, GatewayInv, NEW k \in Calls,
           HealthStops(k) \/ Refused(k), crossed' = crossed
    PROVE  GatewayInv'
<1>0. Typing /\ call[k].at \in OnTheAgent
  BY DEF GatewayInv, HealthStops, Refused, At, OnTheAgent
<1>1. /\ UNCHANGED <<own, tools, preparing, exited, gateway, made>>
      /\ Fault \/ NoFault \/ faults' = faults
      /\ IF own = None THEN AgentFails(k) ELSE GoWith(k, "down", own) /\ UNCHANGED health
  BY DEF HealthStops, Refused
<1>2. CASE own = None
  <2>1. Over(k) /\ health' \in {"error", health}
    BY <1>1, <1>2 DEF AgentFails
  <2>2. /\ call' \in [Calls -> [at : Places, gateway : Gateways \cup {None}]]
        /\ call'[k].at = "over" /\ call'[k].gateway = None
        /\ \A j \in Calls \ {k} : call'[j] = call[j]
    BY <1>0, <2>1, CallEnds
  <2> QED
    BY <1>0, <1>1, <2>1, <2>2, Types, AgentSteps
<1>3. CASE own # None
  <2>1. PICK g \in Gateways : g = own
    BY <1>3, CallFacts
  <2>2. GoWith(k, "down", g) /\ UNCHANGED health
    BY <1>1, <1>3, <2>1
  <2>3. /\ call' \in [Calls -> [at : Places, gateway : Gateways \cup {None}]]
        /\ call'[k].at = "down" /\ call'[k].gateway = g
        /\ \A j \in Calls \ {k} : call'[j] = call[j]
    BY <1>0, <2>2, CallMoves, "down" \in Places DEF Places
  <2> QED
    BY <1>0, <1>1, <1>3, <2>1, <2>2, <2>3, Types, AgentSteps
<1> QED
  BY <1>2, <1>3

\* The permissions are handed to the agent.
LEMMA GrantedKeeps ==
    ASSUME DesktopGatewayAssumption, GatewayInv, NEW k \in Calls, Granted(k), crossed' = crossed
    PROVE  GatewayInv'
<1>0. Typing /\ call[k].at \in OnTheAgent
  BY DEF GatewayInv, Granted, At, OnTheAgent
<1>1. /\ UNCHANGED <<own, tools, health, preparing, exited, gateway, made, faults>>
      /\ Over(k)
  BY DEF Granted
<1>2. /\ call' \in [Calls -> [at : Places, gateway : Gateways \cup {None}]]
      /\ call'[k].at = "over" /\ call'[k].gateway = None
      /\ \A j \in Calls \ {k} : call'[j] = call[j]
  BY <1>0, <1>1, CallEnds
<1> QED
  BY <1>0, <1>1, <1>2, Types, AgentSteps

\* The runtime's stop() and start() change its child only.
LEMMA ChildChanges ==
    ASSUME Typing, NEW g \in Gateways, NEW c \in {"none", "alive", "stuck"},
           gateway' = [gateway EXCEPT ![g].child = c]
    PROVE  /\ gateway' \in [Gateways -> Records]
           /\ \A h \in Gateways \ {g} : gateway'[h] = gateway[h]
           /\ gateway'[g].life = gateway[g].life /\ gateway'[g].closing = gateway[g].closing
           /\ gateway'[g].ticking = gateway[g].ticking /\ gateway'[g].trouble = gateway[g].trouble
  BY Types DEF Records

\* The child of a gateway is stopped.
LEMMA AgentStopsKeeps ==
    ASSUME DesktopGatewayAssumption, GatewayInv,
           NEW k \in Calls, AgentStops(k), crossed' = crossed
    PROVE  GatewayInv'
<1>0. Typing /\ call[k].at \in OnTheAgent /\ call[k].at \in WithGateway
  BY DEF GatewayInv, AgentStops, At, OnTheAgent, WithGateway
<1>1. PICK g \in Gateways : g = call[k].gateway
  BY <1>0, CallFacts
<1>2. UNCHANGED <<own, tools, preparing, exited, made>>
  BY DEF AgentStops
<1>3. ~crossed => own = g /\ own # None
  BY <1>0, <1>1, CallFacts DEF Works
<1>4. CASE /\ gateway' = [gateway EXCEPT ![g].child = "none"]
           /\ GoTo(k, "relaunch") /\ NoFault /\ UNCHANGED health
  <2>1. /\ call' \in [Calls -> [at : Places, gateway : Gateways \cup {None}]]
        /\ call'[k].at = "relaunch" /\ call'[k].gateway = g
        /\ \A j \in Calls \ {k} : call'[j] = call[j]
    BY <1>0, <1>1, <1>4, CallMoves, "relaunch" \in Places DEF Places
  <2>2. /\ gateway' \in [Gateways -> Records]
        /\ \A h \in Gateways \ {g} : gateway'[h] = gateway[h]
        /\ gateway'[g].life = gateway[g].life /\ gateway'[g].closing = gateway[g].closing
        /\ gateway'[g].ticking = gateway[g].ticking /\ gateway'[g].trouble = gateway[g].trouble
    BY <1>0, <1>4, ChildChanges
  <2>3. g # None
    BY CallFacts
  <2> QED
    BY <1>0, <1>2, <1>3, <1>4, <2>1, <2>2, <2>3, AgentSteps
<1>5. CASE /\ gateway' = [gateway EXCEPT ![g].child = "stuck"]
           /\ AgentFails(k) /\ Fault
  <2>1. /\ call' \in [Calls -> [at : Places, gateway : Gateways \cup {None}]]
        /\ call'[k].at = "over" /\ call'[k].gateway = None
        /\ \A j \in Calls \ {k} : call'[j] = call[j]
    BY <1>0, <1>5, CallEnds DEF AgentFails
  <2>2. /\ gateway' \in [Gateways -> Records]
        /\ \A h \in Gateways \ {g} : gateway'[h] = gateway[h]
        /\ gateway'[g].life = gateway[g].life /\ gateway'[g].closing = gateway[g].closing
        /\ gateway'[g].ticking = gateway[g].ticking /\ gateway'[g].trouble = gateway[g].trouble
    BY <1>0, <1>5, ChildChanges
  <2>3. health' \in {"error", health}
    BY <1>5 DEF AgentFails
  <2> QED
    BY <1>0, <1>2, <1>3, <1>5, <2>1, <2>2, <2>3, AgentSteps
<1> QED
  BY <1>1, <1>4, <1>5 DEF AgentStops

\* And started.
LEMMA AgentStartsKeeps ==
    ASSUME DesktopGatewayAssumption, GatewayInv,
           NEW k \in Calls, AgentStarts(k), crossed' = crossed
    PROVE  GatewayInv'
<1>0. Typing /\ call[k].at \in OnTheAgent /\ call[k].at \in WithGateway
  BY DEF GatewayInv, AgentStarts, At, OnTheAgent, WithGateway
<1>1. PICK g \in Gateways : g = call[k].gateway
  BY <1>0, CallFacts
<1>2. UNCHANGED <<own, tools, preparing, exited, made>>
  BY DEF AgentStarts
<1>3. ~crossed => own = g /\ own # None
  BY <1>0, <1>1, CallFacts DEF Works
<1>4. CASE /\ gateway' = [gateway EXCEPT ![g].child = "alive"]
           /\ health' = IF KindOf[k] = "agent" THEN "ready" ELSE health
           /\ Over(k) /\ NoFault
  <2>1. /\ call' \in [Calls -> [at : Places, gateway : Gateways \cup {None}]]
        /\ call'[k].at = "over" /\ call'[k].gateway = None
        /\ \A j \in Calls \ {k} : call'[j] = call[j]
    BY <1>0, <1>4, CallEnds
  <2>2. /\ gateway' \in [Gateways -> Records]
        /\ \A h \in Gateways \ {g} : gateway'[h] = gateway[h]
        /\ gateway'[g].life = gateway[g].life /\ gateway'[g].closing = gateway[g].closing
        /\ gateway'[g].ticking = gateway[g].ticking /\ gateway'[g].trouble = gateway[g].trouble
    BY <1>0, <1>4, ChildChanges
  <2>3. health' \in {"ready", health}
    BY <1>4
  <2> QED
    BY <1>0, <1>2, <1>3, <1>4, <2>1, <2>2, <2>3, AgentSteps
<1>5. CASE (NoFault \/ Fault) /\ AgentFails(k) /\ UNCHANGED gateway
  <2>1. /\ call' \in [Calls -> [at : Places, gateway : Gateways \cup {None}]]
        /\ call'[k].at = "over" /\ call'[k].gateway = None
        /\ \A j \in Calls \ {k} : call'[j] = call[j]
    BY <1>0, <1>5, CallEnds DEF AgentFails
  <2>3. health' \in {"error", health}
    BY <1>5 DEF AgentFails
  <2> QED
    BY <1>0, <1>2, <1>3, <1>5, <2>1, <2>3, Types, AgentSteps
<1> QED
  BY <1>1, <1>4, <1>5 DEF AgentStarts

-----------------------------------------------------------------------------
\* A step of a composition keeps what is known of its gateway.
Carries(o, new) ==
    /\ Gone(o) => Gone(new)
    /\ Ended(o) => Ended(new)
    /\ \A p \in Places : Ended(o) /\ OwnAt(o, p) => OwnAt(new, p)
    /\ Settled(o) => Settled(new)

\* A step that a composition takes by itself.
LEMMA CompositionSteps ==
    ASSUME DesktopGatewayAssumption, GatewayInv, NEW g \in Gateways, NEW new \in Records,
           gateway' = [gateway EXCEPT ![g] = new], Carries(gateway[g], new),
           UNCHANGED <<own, tools, health, preparing, exited, call, made, crossed>>,
           Fault \/ NoFault
    PROVE  GatewayInv'
<1>0. Typing
  BY DEF GatewayInv
<1>1. gateway' \in [Gateways -> Records] /\ gateway'[g] = new
      /\ \A h \in Gateways \ {g} : gateway'[h] = gateway[h]
  BY <1>0, Types
<1>2. Typing'
  BY <1>0, <1>1, Types, TypeAgain, FaultCounts DEF Typed
<1>3. FieldsAgree' /\ HaveGateways'
  BY DEF GatewayInv, FieldsAgree, HaveGateways, HasGateway
<1>4. ASSUME ~crossed PROVE Uncrossed'
  <2>1. Uncrossed
    BY <1>4 DEF GatewayInv
  <2>2. Alone' /\ (\A k \in Calls : Works(k)') /\ Tells'
    BY <2>1 DEF Uncrossed, Alone, Works, Active, Tells
  <2>3. \A h \in Gateways : h # own => Gone(gateway'[h])
    BY <1>1, <2>1 DEF Uncrossed, Carries
  <2>4. ASSUME own # None PROVE OwnFits'
    <3>1. own \in Gateways /\ \A k \in Calls : call[k].at \in Places
      BY <1>0, <2>4, Types
    <3>2. CASE own = g
      BY <1>1, <2>1, <2>4, <3>1, <3>2 DEF Uncrossed, OwnFits, Carries
    <3>3. CASE own # g
      BY <1>1, <2>1, <2>4, <3>1, <3>3 DEF Uncrossed, OwnFits
    <3> QED
      BY <3>2, <3>3
  <2>5. OwnFits'
    BY <2>4 DEF OwnFits
  <2> QED
    BY <2>2, <2>3, <2>5 DEF Uncrossed
<1> QED
  BY <1>2, <1>3, <1>4 DEF GatewayInv

\* The steps of compositions: their children come and go.
LEMMA CompositionKeeps ==
    ASSUME DesktopGatewayAssumption, GatewayInv, NEW g \in Gateways, UNCHANGED crossed,
           \/ Spawns(g) \/ ComesUp(g) \/ FailsToComeUp(g)
           \/ IsAborted(g) \/ GoesDown(g) \/ LateExit(g)
    PROVE  GatewayInv'
<1>0. gateway[g] \in Records
  BY Types DEF GatewayInv
<1> DEFINE o == gateway[g]
<1>1. ASSUME NEW new \in Records, Become(g, new), Carries(o, new), Fault \/ NoFault
      PROVE  GatewayInv'
  BY <1>1, CompositionSteps DEF Become
<1>2. CASE Spawns(g)
  <2>1. [o EXCEPT !.child = "alive"] \in Records
    BY <1>0 DEF Records
  <2>2. Carries(o, [o EXCEPT !.child = "alive"])
    BY <1>0, <1>2 DEF Spawns, Carries, Gone, Ended, OwnAt, Settled, Records
  <2> QED
    BY <1>1, <1>2, <2>1, <2>2 DEF Spawns
<1>3. CASE ComesUp(g)
  <2>1. [o EXCEPT !.life = "up"] \in Records
    BY <1>0 DEF Records
  <2>2. Carries(o, [o EXCEPT !.life = "up"])
    BY <1>0, <1>3 DEF ComesUp, Carries, Gone, Ended, OwnAt, Settled, Records
  <2> QED
    BY <1>1, <1>3, <2>1, <2>2 DEF ComesUp
<1>4. CASE FailsToComeUp(g)
  <2>1. PICK left \in {"none", "stuck"} : Become(g, [o EXCEPT !.life = "failed", !.child = left])
    BY <1>4 DEF FailsToComeUp
  <2>2. [o EXCEPT !.life = "failed", !.child = left] \in Records
    BY <1>0 DEF Records
  <2>3. Carries(o, [o EXCEPT !.life = "failed", !.child = left])
    BY <1>0, <1>4 DEF FailsToComeUp, Carries, Gone, Ended, OwnAt, Settled, Records
  <2> QED
    BY <1>1, <1>4, <2>1, <2>2, <2>3 DEF FailsToComeUp
<1>5. CASE IsAborted(g)
  <2>1. [o EXCEPT !.life = "failed"] \in Records
    BY <1>0 DEF Records
  <2>2. Carries(o, [o EXCEPT !.life = "failed"])
    BY <1>0, <1>5 DEF IsAborted, Carries, Gone, Ended, OwnAt, Settled, Records
  <2> QED
    BY <1>1, <1>5, <2>1, <2>2 DEF IsAborted
<1>6. CASE GoesDown(g)
  <2>1. PICK off \in Records :
           /\ off = [o EXCEPT !.life = IF o.life = "up" THEN "off" ELSE "failed",
                              !.closing = "done"]
           /\ off.life = (IF o.life = "up" THEN "off" ELSE "failed") /\ off.closing = "done"
           /\ off.child = o.child /\ off.ticking = o.ticking /\ off.store = o.store
           /\ off.trouble = o.trouble
    <3> DEFINE new == [o EXCEPT !.life = IF o.life = "up" THEN "off" ELSE "failed",
                                !.closing = "done"]
    <3>1. new \in Records
      BY <1>0 DEF Records
    <3>2. /\ new.life = (IF o.life = "up" THEN "off" ELSE "failed") /\ new.closing = "done"
          /\ new.child = o.child /\ new.ticking = o.ticking /\ new.store = o.store
          /\ new.trouble = o.trouble
      BY <1>0 DEF Records
    <3> QED
      BY <3>1, <3>2
  <2>2. \/ gateway[g].child # "stuck" /\ Become(g, [off EXCEPT !.child = "none"]) /\ NoFault
        \/ gateway[g].child = "stuck" /\ Become(g, [off EXCEPT !.trouble = TRUE]) /\ NoFault
        \/ /\ \E left \in {"none", "stuck"} :
                 Become(g, [off EXCEPT !.trouble = TRUE, !.child = left])
           /\ Fault
    BY <1>6, <2>1 DEF GoesDown
  <2>3. o.closing = "begun" /\ o.life # "starting"
    BY <1>6 DEF GoesDown
  <2>4. ASSUME NEW new \in Records, new.life = off.life, new.closing = "done",
               new.ticking = o.ticking, new.child \in {"none", "stuck"},
               new.child # "none" => new.trouble
        PROVE  Carries(o, new)
    BY <2>1, <2>3, <2>4 DEF Carries, Gone, Ended, OwnAt, Settled
  <2>5. CASE gateway[g].child # "stuck" /\ Become(g, [off EXCEPT !.child = "none"]) /\ NoFault
    <3>1. [off EXCEPT !.child = "none"] \in Records
      BY <2>1 DEF Records
    <3>2. Carries(o, [off EXCEPT !.child = "none"])
      <4> DEFINE new == [off EXCEPT !.child = "none"]
      <4>1. /\ new.life = off.life /\ new.closing = "done" /\ new.ticking = o.ticking
            /\ new.child \in {"none", "stuck"} /\ (new.child # "none" => new.trouble)
        BY <2>1 DEF Records
      <4> HIDE DEF new
      <4> QED
        BY <2>4, <3>1, <4>1 DEF new
    <3> QED
      BY <1>1, <2>5, <3>1, <3>2
  <2>6. CASE gateway[g].child = "stuck" /\ Become(g, [off EXCEPT !.trouble = TRUE]) /\ NoFault
    <3>1. [off EXCEPT !.trouble = TRUE] \in Records
      BY <2>1 DEF Records
    <3>2. Carries(o, [off EXCEPT !.trouble = TRUE])
      <4> DEFINE new == [off EXCEPT !.trouble = TRUE]
      <4>1. /\ new.life = off.life /\ new.closing = "done" /\ new.ticking = o.ticking
            /\ new.child \in {"none", "stuck"} /\ (new.child # "none" => new.trouble)
        BY <2>1, <2>6 DEF Records
      <4> HIDE DEF new
      <4> QED
        BY <2>4, <3>1, <4>1 DEF new
    <3> QED
      BY <1>1, <2>6, <3>1, <3>2
  <2>7. CASE /\ \E left \in {"none", "stuck"} :
                   Become(g, [off EXCEPT !.trouble = TRUE, !.child = left])
             /\ Fault
    <3>0. PICK left \in {"none", "stuck"} : Become(g, [off EXCEPT !.trouble = TRUE, !.child = left])
      BY <2>7
    <3>1. [off EXCEPT !.trouble = TRUE, !.child = left] \in Records
      BY <2>1 DEF Records
    <3>2. Carries(o, [off EXCEPT !.trouble = TRUE, !.child = left])
      <4> DEFINE new == [off EXCEPT !.trouble = TRUE, !.child = left]
      <4>1. /\ new.life = off.life /\ new.closing = "done" /\ new.ticking = o.ticking
            /\ new.child \in {"none", "stuck"} /\ (new.child # "none" => new.trouble)
        BY <2>1 DEF Records
      <4> HIDE DEF new
      <4> QED
        BY <2>4, <3>1, <4>1 DEF new
    <3> QED
      BY <1>1, <2>7, <3>0, <3>1, <3>2
  <2> QED
    BY <2>2, <2>5, <2>6, <2>7
<1>7. CASE LateExit(g)
  <2>1. [o EXCEPT !.child = "none"] \in Records
    BY <1>0 DEF Records
  <2>2. Carries(o, [o EXCEPT !.child = "none"])
    BY <1>0, <1>7 DEF LateExit, Carries, Gone, Ended, OwnAt, Settled, Records
  <2> QED
    BY <1>1, <1>7, <2>1, <2>2 DEF LateExit
<1> QED
  BY <1>2, <1>3, <1>4, <1>5, <1>6, <1>7

-----------------------------------------------------------------------------
\* A call that is over as soon as it begins.
LEMMA CallPasses ==
    ASSUME DesktopGatewayAssumption, GatewayInv, NEW k \in Calls, call[k].at = "idle", Over(k),
           UNCHANGED <<own, tools, health, preparing, exited, gateway, made, faults>>,
           crossed' \in BOOLEAN, ~crossed' => ~crossed
    PROVE  GatewayInv'
<1>0. Typing
  BY DEF GatewayInv
<1>1. /\ call' \in [Calls -> [at : Places, gateway : Gateways \cup {None}]]
      /\ call'[k].at = "over" /\ call'[k].gateway = None
      /\ \A j \in Calls \ {k} : call'[j] = call[j]
  BY <1>0, CallEnds
<1>2. TypedStep(k)
  BY <1>0, <1>1, Types, CallFacts DEF TypedStep, HasGateway, WithGateway
<1>3. Typing' /\ FieldsAgree' /\ HaveGateways'
  BY <1>2, TypedSteps
<1>4. ASSUME ~crossed' PROVE Uncrossed'
  <2>1. Uncrossed
    BY <1>4 DEF GatewayInv
  <2>2. Alone' /\ (\A j \in Calls : Works(j)') /\ \A g \in Gateways : g # own' => Gone(gateway[g])'
    BY <1>1, <2>1 DEF Uncrossed, Alone, Works, Active, WithGateway
  <2>3. Tells'
    BY <1>1, <2>1 DEF Uncrossed, Tells
  <2>4. ASSUME own # None PROVE OwnFits'
    <3>1. \A j \in Calls : OwnAt(gateway[own], call'[j].at)
      <4>1. OwnAt(gateway[own], "over")
        BY DEF OwnAt
      <4> QED
        BY <1>1, <2>1, <2>4, <4>1 DEF Uncrossed, OwnFits
    <3>2. (\A j \in Calls : call'[j].at \in Calm) => \A j \in Calls : call[j].at \in Calm
      BY <1>1 DEF Calm
    <3> QED
      BY <2>1, <2>4, <3>1, <3>2 DEF Uncrossed, OwnFits
  <2>5. OwnFits'
    BY <2>4 DEF OwnFits
  <2> QED
    BY <2>2, <2>3, <2>5 DEF Uncrossed
<1> QED
  BY <1>3, <1>4 DEF GatewayInv

\* A call begins.
LEMMA BeginKeeps ==
    ASSUME DesktopGatewayAssumption, GatewayInv, NEW k \in Calls, Begin(k)
    PROVE  GatewayInv'
<1>0. Typing
  BY DEF GatewayInv
<1>1. call[k].at = "idle" /\ crossed' = (crossed \/ Crosses(k)) /\ ~Active(k)
  BY DEF Begin, At, Active
<1>2. crossed' \in BOOLEAN /\ (~crossed' => ~crossed /\ ~Crosses(k))
  BY <1>0, <1>1, Types
<1>3. ASSUME ~crossed', ~Fenced(k), call'[k].at \notin OnTheAgent \cup {"over"}
      PROVE  \A j \in Calls \ {k} : ~Active(j)
  BY <1>2, <1>3 DEF Crosses, Active
<1>4. CASE /\ KindOf[k] = "start" \/ (KindOf[k] = "agent" /\ own = None)
           /\ StartFrom(k, own, tools, gateway)
           /\ UNCHANGED <<preparing, exited, faults>>
  <2>1. tools = own
    BY CallFacts
  <2>2. CASE own # None
    <3>1. /\ own' = own /\ tools' = tools /\ gateway' = gateway /\ Over(k)
          /\ UNCHANGED <<health, made>>
      BY <1>4, <2>2 DEF StartFrom
    <3> QED
      BY <1>1, <1>2, <1>4, <3>1, CallPasses
  <2>3. CASE own = None /\ preparing
    <3>1. /\ own' = own /\ tools' = tools /\ gateway' = gateway /\ Over(k)
          /\ UNCHANGED <<health, made>>
      BY <1>4, <2>3 DEF StartFrom
    <3> QED
      BY <1>1, <1>2, <1>4, <3>1, CallPasses
  <2>4. CASE own = None /\ ~preparing
    <3>1. ~crossed => (preparing => health # "ready") /\ \A g \in Gateways : Gone(gateway[g])
      BY <2>4, CallFacts
    <3>2. TypedStep(k) /\ (~crossed => SuitedStep(k)) /\ call'[k].at \in {"over", "pipe"}
      BY <1>0, <1>4, <2>1, <2>4, <3>1, Types, StartsSuit
    <3>3. ~Fenced(k)
      BY <2>4 DEF Fenced
    <3>4. call'[k].at = "pipe"
      <4>1. GoWith(k, "pipe", made') /\ made' = made + 1 /\ made < MaxGateways
        BY <1>4, <2>4 DEF StartFrom
      <4>2. PICK n \in Gateways : n = made'
        BY <1>0, <4>1, Types, Indices
      <4>3. GoWith(k, "pipe", n)
        BY <4>1, <4>2
      <4> QED
        BY <1>0, <4>3, CallMoves, "pipe" \in Places DEF Places
    <3> QED
      BY <1>2, <1>3, <3>2, <3>3, <3>4, LoneSteps DEF OnTheAgent
  <2> QED
    BY <2>2, <2>3, <2>4
<1>5. CASE (KindOf[k] = "quit" \/ (KindOf[k] = "restart" /\ ~preparing)) /\ BeginStop(k)
  <2>1. TypedStep(k) /\ (~crossed => SuitedStep(k)) /\ call'[k].at = "quiesce"
    BY <1>5, BeginStops
  <2>2. ~Fenced(k)
    BY <1>5 DEF Fenced
  <2> QED
    BY <1>2, <1>3, <2>1, <2>2, LoneSteps DEF OnTheAgent
<1>6. CASE /\ own # None /\ ~Fenced(k)
           /\ \/ RestartAgent(k)
              \/ /\ GoTo(k, "grant")
                 /\ UNCHANGED <<own, tools, health, preparing, exited, gateway, made, faults>>
  <2>1. /\ UNCHANGED <<own, tools, preparing, exited, gateway, made, faults>>
        /\ health' \in {"starting", health}
        /\ GoTo(k, "health") \/ GoTo(k, "grant")
    BY <1>6 DEF RestartAgent
  <2>2. /\ call' \in [Calls -> [at : Places, gateway : Gateways \cup {None}]]
        /\ call'[k].at \in {"health", "grant"} /\ call'[k].gateway = call[k].gateway
        /\ \A j \in Calls \ {k} : call'[j] = call[j]
    BY <1>0, <2>1, CallMoves, "health" \in Places, "grant" \in Places DEF Places
  <2>3. TypedStep(k)
    BY <1>0, <2>1, <2>2, Types, CallFacts DEF TypedStep, HasGateway, WithGateway
  <2>4. ASSUME ~crossed'
        PROVE  /\ \A j \in Calls \ {k} : Active(j) => call[j].at \in OnTheAgent
               /\ Works(k)'
    <3>1. \A j \in Calls \ {k} : Active(j) => call[j].at \in OnTheAgent
      BY <1>2, <1>6, <2>2, <2>4 DEF Crosses, Active
    <3>2. Works(k)'
      BY <1>2, <2>1, <2>2, <2>4, CallFacts DEF Works, Active, WithGateway
    <3> QED
      BY <3>1, <3>2
  <2>5. call[k].at \in OnTheAgent \cup {"idle"} /\ call'[k].at \in OnTheAgent \cup {"over"}
    BY <1>1, <2>2 DEF OnTheAgent
  <2> QED
    BY <1>2, <1>6, <2>1, <2>3, <2>4, <2>5, BesideSteps
<1>7. CASE /\ KindOf[k] = "update" /\ own # None /\ Ready(own) /\ ~preparing
           /\ preparing' = TRUE
           /\ GoTo(k, "fenced")
           /\ UNCHANGED <<own, tools, health, exited, gateway, made, faults>>
  <2>1. /\ call' \in [Calls -> [at : Places, gateway : Gateways \cup {None}]]
        /\ call'[k].at = "fenced" /\ call'[k].gateway = call[k].gateway
        /\ \A j \in Calls \ {k} : call'[j] = call[j]
    BY <1>0, <1>7, CallMoves, "fenced" \in Places DEF Places
  <2>2. TypedStep(k)
    BY <1>0, <1>7, <2>1, Types, CallFacts DEF TypedStep, HasGateway, WithGateway
  <2>3. ~Fenced(k)
    BY <1>7 DEF Fenced
  <2>4. ASSUME ~crossed' PROVE SuitedStep(k)
    <3>1. \A j \in Calls : call[j].at \in Calm
      BY <1>1, <1>3, <2>1, <2>3, <2>4 DEF OnTheAgent, Active, Calm
    <3>2. Settled(gateway[own]) /\ Ended(gateway[own])
      BY <1>2, <1>7, <2>4, <3>1 DEF GatewayInv, Uncrossed, OwnFits
    <3>3. OwnSuits(k)'
      BY <1>7, <2>1, <3>2 DEF OwnSuits, OwnAt
    <3>4. Works(k)' /\ HealthSuits(k)'
      BY <1>2, <1>7, <2>1, <2>4, CallFacts DEF Works, HealthSuits, Active, WithGateway
    <3> QED
      BY <1>2, <1>7, <2>4, <3>3, <3>4, CallFacts DEF SuitedStep
  <2> QED
    BY <1>2, <1>3, <2>1, <2>2, <2>3, <2>4, LoneSteps DEF OnTheAgent
<1> QED
  BY <1>4, <1>5, <1>6, <1>7 DEF Begin, Fenced

\* Every step keeps the invariant.
LEMMA NextKeeps ==
    ASSUME DesktopGatewayAssumption, GatewayInv, Next
    PROVE  GatewayInv'
<1>1. ASSUME NEW k \in Calls, Begin(k) PROVE GatewayInv'
  BY <1>1, BeginKeeps
<1>2. ASSUME NEW k \in Calls, UNCHANGED crossed, Proceeds(k) PROVE GatewayInv'
  BY <1>2, PipeOpensKeeps, PipeFailsKeeps, CompositionStartsKeeps, UndoneKeeps, DroppedKeeps,
     QuiescedKeeps, CompositionStopsKeeps, ClosedKeeps, StartAgainKeeps, HealthStopsKeeps,
     GrantedKeeps, AgentStopsKeeps, AgentStartsKeeps, GiveUpdateUpKeeps, CleanUpKeeps,
     InstallsKeeps, InstallFailsKeeps, RecoverKeeps, RecoveryFailsKeeps, ReopenKeeps
     DEF Proceeds
<1>3. ASSUME NEW g \in Gateways, UNCHANGED crossed, Advances(g) PROVE GatewayInv'
  BY <1>3, CompositionKeeps DEF Advances
<1> QED
  BY <1>1, <1>2, <1>3 DEF Next

\* And so does a step that changes nothing.
LEMMA StutteringKeeps ==
    ASSUME GatewayInv, UNCHANGED vars
    PROVE  GatewayInv'
<1>1. Typing' /\ FieldsAgree' /\ HaveGateways'
  BY DEF vars, GatewayInv, Typing, FieldsAgree, HaveGateways, HasGateway
<1>2. ASSUME ~crossed PROVE Uncrossed'
  <2>1. Uncrossed
    BY <1>2 DEF GatewayInv
  <2>2. Alone' /\ (\A k \in Calls : Works(k)') /\ Tells'
        /\ \A g \in Gateways : g # own' => Gone(gateway[g])'
    BY <2>1 DEF vars, Uncrossed, Alone, Works, Active, Tells
  <2>3. OwnFits'
    BY <2>1 DEF vars, Uncrossed, OwnFits
  <2> QED
    BY <2>2, <2>3 DEF Uncrossed
<1> QED
  BY <1>1, <1>2 DEF GatewayInv, vars

-----------------------------------------------------------------------------
\* What holds however calls overlap.  A gateway that was not made yet:
Blank(o) ==
    o.life = "none" /\ o.closing = "no" /\ ~o.ticking /\ ~o.store /\ o.child = "none"

\* One whose composition was stopped is not up, and one that was given up is at rest.
Stopped(o) == o.closing = "done" => o.life \in {"failed", "off"}
GivenUp(o) == Gone(o) /\ o.closing = "done"

\* What a call at p finds of the gateway it works on.
Fits(o, p) ==
    /\ p = "pipe" => o.life \notin {"starting", "up", "off"}
    /\ p = "undo" => o.closing # "no" /\ o.life \notin {"starting", "up", "off"}
    /\ p \in {"pipe", "compose", "undo", "drop"} => (o.closing = "done" => o.child # "alive")
    /\ p = "drop" => o.closing = "done" /\ ~o.ticking /\ o.life = "failed"
    /\ p = "stop" => o.closing # "no"
    /\ p \in {"close", "reopen"} => o.closing = "done" /\ ~o.ticking /\ o.child = "none"

\* The gateways are numbered as they are made, and calls know of those that were made.
Numbered ==
    /\ stray \subseteq Gateways
    /\ \A g \in Gateways : g > made => Blank(gateway[g]) /\ g \notin stray
    /\ \A k \in Calls : call[k].gateway <= made
    /\ \A g \in Gateways : Stopped(gateway[g])

\* Gateways that were not lost are at rest once they are given up, and the one that is owned
\* fits every call that works on it.
NoneLost ==
    /\ \A g \in Gateways \ stray : g <= made /\ g # own => GivenUp(gateway[g])
    /\ own # None /\ own \notin stray =>
          \A k \in Calls : call[k].gateway = own => Fits(gateway[own], call[k].at)

\* A gateway is started by one call.
Starting(k) == call[k].at \in {"pipe", "compose", "undo", "drop"}
OneStarts ==
    \A j, k \in Calls : j # k /\ Starting(j) /\ Starting(k) => call[j].gateway # call[k].gateway

\* One update at a time has the fence up, from its beginning to its end.
Preparing(k) ==
    KindOf[k] = "update" /\ call[k].at \in {"fenced", "quiesce", "stop", "close", "installing"}
FenceHolds ==
    /\ \A k \in Calls : call[k].at \in {"fenced", "installing"} => KindOf[k] = "update"
    /\ \A k \in Calls : Preparing(k) => preparing
    /\ \A j, k \in Calls : Preparing(j) /\ Preparing(k) => j = k
    /\ \A k \in Calls : call[k].at = "installing" => own = None

LossInv == Numbered /\ NoneLost /\ OneStarts /\ FenceHolds

\* A step of k after which the fence still holds.
FenceStep(k) ==
    /\ call'[k].at \in {"fenced", "installing"} => KindOf[k] = "update"
    /\ Preparing(k)' => preparing' /\ (Preparing(k) \/ ~preparing)
    /\ \/ preparing' = preparing
       \/ Preparing(k) /\ ~Preparing(k)'
       \/ ~preparing
    /\ call'[k].at = "installing" => own' = None
    /\ own' # None /\ own = None => ~preparing

\* And one after which gateways are started once.
StartStep(k) == Starting(k)' => Starting(k) /\ call'[k].gateway = call[k].gateway

\* What is lost by a step of k.
Loses(k) == stray' = stray \cup LetGo(k) \cup Revived

\* The fence holds after such a step.
LEMMA FenceSteps ==
    ASSUME FenceHolds, NEW k \in Calls, FenceStep(k), \A j \in Calls \ {k} : call'[j] = call[j]
    PROVE  FenceHolds'
<1>1. \A j \in Calls \ {k} : Preparing(j)' <=> Preparing(j)
  BY DEF Preparing
<1>2. \A j \in Calls : call'[j].at \in {"fenced", "installing"} => KindOf[j] = "update"
  BY DEF FenceHolds, FenceStep
<1>3. ASSUME NEW j \in Calls, Preparing(j)' PROVE preparing'
  BY <1>1, <1>3 DEF FenceHolds, FenceStep
<1>4. ASSUME NEW i \in Calls, NEW j \in Calls, Preparing(i)', Preparing(j)' PROVE i = j
  BY <1>1, <1>4 DEF FenceHolds, FenceStep
<1>5. ASSUME NEW j \in Calls, call'[j].at = "installing" PROVE own' = None
  <2>1. CASE j = k
    BY <1>5, <2>1 DEF FenceStep
  <2>2. CASE j # k
    <3>1. own = None /\ preparing
      BY <1>5, <2>2 DEF FenceHolds, Preparing
    <3> QED
      BY <3>1 DEF FenceStep
  <2> QED
    BY <2>1, <2>2
<1> QED
  BY <1>2, <1>3, <1>4, <1>5 DEF FenceHolds

\* And gateways are started once.
LEMMA StartSteps ==
    ASSUME OneStarts, NEW k \in Calls, StartStep(k), \A j \in Calls \ {k} : call'[j] = call[j]
    PROVE  OneStarts'
<1>1. \A j \in Calls \ {k} : Starting(j)' <=> Starting(j)
  BY DEF Starting
<1>2. ASSUME NEW i \in Calls, NEW j \in Calls, i # j, Starting(i)', Starting(j)'
      PROVE  call'[i].gateway # call'[j].gateway
  <2>1. Starting(i) /\ Starting(j)
    BY <1>1, <1>2 DEF StartStep
  <2>2. call'[i].gateway = call[i].gateway /\ call'[j].gateway = call[j].gateway
    BY <1>2 DEF StartStep
  <2> QED
    BY <1>2, <2>1, <2>2 DEF OneStarts
<1> QED
  BY <1>2 DEF OneStarts

-----------------------------------------------------------------------------
\* Most steps only put gateways to rest.
Eases(o, n) ==
    /\ n.life = o.life
    /\ n.closing = o.closing \/ (o.closing = "no" /\ n.closing = "begun")
    /\ n.ticking => o.ticking
    /\ n.store => o.store
    /\ n.child = o.child \/ (o.child # "none" /\ n.child \in {"none", "stuck"})
EasesAll(gs) ==
    \A g \in Gateways : Eases(gateway[g], gs[g]) /\ (g > made => gs[g] = gateway[g])

\* This keeps what is said of gateways.
LEMMA EasedOnes ==
    ASSUME NEW o, NEW n, Eases(o, n)
    PROVE  /\ Stopped(o) => Stopped(n)
           /\ GivenUp(o) => GivenUp(n)
           /\ \A p : Fits(o, p) => Fits(n, p)
<1>1. Stopped(o) => Stopped(n)
  BY DEF Eases, Stopped
<1>2. GivenUp(o) => GivenUp(n)
  BY DEF Eases, GivenUp, Gone
<1>3. ASSUME NEW p, Fits(o, p) PROVE Fits(n, p)
  BY <1>3 DEF Eases, Fits
<1> QED
  BY <1>1, <1>2, <1>3

\* The changes that are combined with others are such.
LEMMA Easing ==
    ASSUME DesktopGatewayAssumption, GatewayInv
    PROVE  /\ EasesAll(gateway) /\ EasesAll(Quieted(gateway)) /\ EasesAll(StoreClosed(gateway))
           /\ \A g \in Gateways : g <= made => EasesAll(Closing(gateway, g))
<1>1. /\ gateway \in [Gateways -> Records] /\ own \in Gateways \cup {None}
      /\ tools = own /\ own <= made /\ made \in Nat
  BY Types DEF GatewayInv, FieldsAgree, DesktopGatewayAssumption
<1>2. EasesAll(gateway)
  BY DEF EasesAll, Eases
<1>3. EasesAll(Quieted(gateway))
  <2>1. ASSUME NEW g \in Gateways
        PROVE  /\ Eases(gateway[g], Quieted(gateway)[g])
               /\ g > made => Quieted(gateway)[g] = gateway[g]
    <3>1. /\ gateway[g] \in Records
          /\ Quieted(gateway)[g] =
                IF g = own THEN [gateway[g] EXCEPT !.ticking = FALSE] ELSE gateway[g]
      BY <1>1, QuietedOnes
    <3>2. g \in Nat
      BY DEF Gateways
    <3> QED
      BY <1>1, <3>1, <3>2 DEF Eases, Records
  <2> QED
    BY <2>1 DEF EasesAll
<1>4. EasesAll(StoreClosed(gateway))
  <2>1. ASSUME NEW g \in Gateways
        PROVE  /\ Eases(gateway[g], StoreClosed(gateway)[g])
               /\ g > made => StoreClosed(gateway)[g] = gateway[g]
    <3>1. /\ gateway[g] \in Records
          /\ StoreClosed(gateway)[g] =
                IF g = own THEN [gateway[g] EXCEPT !.store = FALSE] ELSE gateway[g]
      BY <1>1, StoreClosedOnes
    <3>2. g \in Nat
      BY DEF Gateways
    <3> QED
      BY <1>1, <3>1, <3>2 DEF Eases, Records
  <2> QED
    BY <2>1 DEF EasesAll
<1>5. ASSUME NEW h \in Gateways, h <= made PROVE EasesAll(Closing(gateway, h))
  <2>1. ASSUME NEW g \in Gateways
        PROVE  /\ Eases(gateway[g], Closing(gateway, h)[g])
               /\ g > made => Closing(gateway, h)[g] = gateway[g]
    <3>1. /\ gateway[g] \in Records
          /\ Closing(gateway, h)[g] =
                IF g = h THEN [gateway[h] EXCEPT !.closing = IF gateway[h].closing = "no"
                                                             THEN "begun"
                                                             ELSE gateway[h].closing]
                ELSE gateway[g]
      BY <1>1, ClosingOnes
    <3>2. g \in Nat
      BY DEF Gateways
    <3> QED
      BY <1>1, <1>5, <3>1, <3>2 DEF Eases, Records
  <2> QED
    BY <2>1 DEF EasesAll
<1> QED
  BY <1>2, <1>3, <1>4, <1>5

\* What k leaves of the gateway that is owned, and may say of it.
Leaves(k) ==
    /\ own' = None /\ own # None /\ own = call[k].gateway /\ own \notin stray =>
          GivenUp(gateway'[own])
    /\ own # None /\ own \notin stray' /\ call'[k].gateway = own =>
          Fits(gateway'[own], call'[k].at)

\* A step of a call that only puts gateways to rest.
LEMMA EasySteps ==
    ASSUME DesktopGatewayAssumption, GatewayInv, LossInv, NEW k \in Calls,
           \A j \in Calls \ {k} : call'[j] = call[j],
           EasesAll(gateway'), made' = made, call'[k].gateway \in {None, own, call[k].gateway},
           Loses(k) \/ (own' = own /\ stray' = stray), own' \in {own, None},
           Leaves(k), StartStep(k), FenceStep(k)
    PROVE  LossInv'
<1>1. own \in Gateways \cup {None} /\ own <= made /\ made \in Nat /\ call[k].gateway <= made
  BY Types DEF GatewayInv, FieldsAgree, DesktopGatewayAssumption, LossInv, Numbered
<1>2. stray \subseteq stray' /\ stray' \subseteq stray \cup ({own} \ {None})
  <2>1. Revived = {}
    BY DEF Revived, EasesAll, Eases
  <2> QED
    BY <2>1 DEF Loses, LetGo
<1>3. Numbered'
  <2>1. stray' \subseteq Gateways
    BY <1>1, <1>2 DEF LossInv, Numbered
  <2>2. ASSUME NEW g \in Gateways, g > made' PROVE Blank(gateway'[g]) /\ g \notin stray'
    <3>1. g # own /\ g \in Nat
      BY <1>1, <2>2 DEF Gateways
    <3> QED
      BY <1>2, <2>2, <3>1 DEF LossInv, Numbered, EasesAll
  <2>3. ASSUME NEW j \in Calls PROVE call'[j].gateway <= made'
    BY <1>1 DEF LossInv, Numbered, None
  <2>4. ASSUME NEW g \in Gateways PROVE Stopped(gateway'[g])
    BY EasedOnes DEF LossInv, Numbered, EasesAll
  <2> QED
    BY <2>1, <2>2, <2>3, <2>4 DEF Numbered
<1>4. ASSUME NEW g \in Gateways \ stray', g <= made', g # own' PROVE GivenUp(gateway'[g])
  <2>1. CASE g # own
    <3>1. GivenUp(gateway[g])
      BY <1>2, <1>4, <2>1 DEF LossInv, NoneLost
    <3> QED
      BY <3>1, EasedOnes DEF EasesAll
  <2>2. CASE g = own
    <3>1. own' = None /\ own # None /\ own \notin stray /\ Loses(k)
      BY <1>1, <1>2, <1>4, <2>2, Indices
    <3>2. own = call[k].gateway
      BY <1>4, <2>2, <3>1 DEF Loses, LetGo
    <3> QED
      BY <2>2, <3>1, <3>2 DEF Leaves
  <2> QED
    BY <2>1, <2>2
<1>5. ASSUME own' # None, own' \notin stray', NEW j \in Calls, call'[j].gateway = own'
      PROVE  Fits(gateway'[own'], call'[j].at)
  <2>1. own' = own /\ own \in Gateways /\ own \notin stray
    BY <1>1, <1>2, <1>5
  <2>2. CASE j = k
    BY <1>5, <2>1, <2>2 DEF Leaves
  <2>3. CASE j # k
    <3>1. Fits(gateway[own], call[j].at) /\ call'[j] = call[j]
      BY <1>5, <2>1, <2>3 DEF LossInv, NoneLost
    <3> QED
      BY <2>1, <3>1, EasedOnes DEF EasesAll
  <2> QED
    BY <2>2, <2>3
<1>6. NoneLost'
  BY <1>4, <1>5 DEF NoneLost
<1>7. OneStarts' /\ FenceHolds'
  BY StartSteps, FenceSteps DEF LossInv
<1> QED
  BY <1>3, <1>6, <1>7 DEF LossInv

-----------------------------------------------------------------------------
\* Calls and their steps: where a call goes, and what is known of the gateway it works on.
LEMMA LossFacts ==
    ASSUME DesktopGatewayAssumption, GatewayInv, LossInv, NEW k \in Calls
    PROVE  /\ Typing /\ FenceHolds /\ OneStarts
           /\ gateway \in [Gateways -> Records] /\ made \in Nat
           /\ own \in Gateways \cup {None} /\ tools = own /\ own <= made
           /\ call[k].at \in Places /\ call[k].gateway \in Gateways \cup {None}
           /\ call[k].at \in WithGateway => call[k].gateway \in Gateways
           /\ call[k].gateway <= made
           /\ own # None /\ own \notin stray /\ call[k].gateway = own =>
                 Fits(gateway[own], call[k].at)
           /\ \A g \in Gateways : Stopped(gateway[g])
<1>1. /\ Typing /\ FenceHolds /\ OneStarts /\ call[k].gateway <= made
      /\ own # None /\ own \notin stray /\ call[k].gateway = own =>
            Fits(gateway[own], call[k].at)
      /\ \A g \in Gateways : Stopped(gateway[g])
  BY DEF GatewayInv, LossInv, Numbered, NoneLost
<1>2. gateway \in [Gateways -> Records] /\ made \in Nat /\ call[k].at \in Places
  BY <1>1, Types DEF DesktopGatewayAssumption
<1> QED
  BY <1>1, <1>2, CallFacts

\* A call that leaves what is owned, and does not go where it is taken for anything.
LEMMA CalmSteps ==
    ASSUME DesktopGatewayAssumption, GatewayInv, LossInv, NEW k \in Calls,
           \A j \in Calls \ {k} : call'[j] = call[j],
           call'[k].at \in {"over", "recover", "health", "grant", "down", "relaunch"},
           call'[k].gateway \in {None, own, call[k].gateway},
           EasesAll(gateway'), UNCHANGED <<own, made>>,
           preparing' = preparing \/ Preparing(k), Loses(k) \/ stray' = stray
    PROVE  LossInv'
<1>1. StartStep(k)
  BY DEF StartStep, Starting
<1>2. Leaves(k)
  BY DEF Leaves, Fits
<1>3. FenceStep(k)
  BY DEF FenceStep, Preparing
<1> QED
  BY <1>1, <1>2, <1>3, EasySteps

\* Where a call goes.
LEMMA Goings ==
    ASSUME Typing, own \in Gateways \cup {None}, NEW k \in Calls, NEW p \in Places
    PROVE  /\ GoTo(k, p) => /\ call'[k].at = p /\ call'[k].gateway = call[k].gateway
                            /\ \A j \in Calls \ {k} : call'[j] = call[j]
           /\ GoWith(k, p, own) => /\ call'[k].at = p /\ call'[k].gateway = own
                                   /\ \A j \in Calls \ {k} : call'[j] = call[j]
           /\ GoWith(k, p, None) => /\ call'[k].at = p /\ call'[k].gateway = None
                                    /\ \A j \in Calls \ {k} : call'[j] = call[j]
           /\ Over(k) => /\ call'[k].at = "over" /\ call'[k].gateway = None
                         /\ \A j \in Calls \ {k} : call'[j] = call[j]
  BY CallMoves, CallEnds

\* The calls that look after the agent, but for the start of its process.
LEMMA AgentLoses ==
    ASSUME DesktopGatewayAssumption, GatewayInv, LossInv, NEW k \in Calls, Loses(k),
           HealthStops(k) \/ Granted(k) \/ Refused(k) \/ AgentStops(k)
    PROVE  LossInv'
<1>1. Typing /\ own \in Gateways \cup {None}
  BY LossFacts
<1>2. /\ UNCHANGED <<own, made>> /\ preparing' = preparing
      /\ Over(k) \/ GoWith(k, "down", own) \/ GoTo(k, "relaunch")
  BY DEF HealthStops, Granted, Refused, AgentStops, AgentFails
<1>3. /\ call'[k].at \in {"over", "down", "relaunch"}
      /\ call'[k].gateway \in {None, own, call[k].gateway}
      /\ \A j \in Calls \ {k} : call'[j] = call[j]
  BY <1>1, <1>2, Goings, "down" \in Places, "relaunch" \in Places DEF Places
<1>4. EasesAll(gateway')
  <2>1. CASE gateway' = gateway
    BY <2>1, Easing
  <2>2. CASE AgentStops(k)
    <3>1. call[k].at \in WithGateway
      BY <2>2 DEF AgentStops, At, WithGateway
    <3>2. PICK g \in Gateways : g = call[k].gateway /\ g <= made
      BY <3>1, LossFacts
    <3>3. PICK left \in {"none", "stuck"} :
             /\ gateway' = [gateway EXCEPT ![g].child = left]
             /\ left = "none" \/ gateway[g].child # "none"
      BY <2>2, <3>2 DEF AgentStops
    <3>4. gateway \in [Gateways -> Records] /\ made \in Nat
      BY LossFacts
    <3>5. gateway[g] \in Records /\ gateway'[g] = [gateway[g] EXCEPT !.child = left]
          /\ \A h \in Gateways \ {g} : gateway'[h] = gateway[h]
      BY <3>3, <3>4
    <3>6. Eases(gateway[g], gateway'[g])
      BY <3>3, <3>5 DEF Eases, Records
    <3>7. \A h \in Gateways : h > made => h # g
      BY <3>2, <3>4 DEF Gateways
    <3> QED
      BY <3>5, <3>6, <3>7 DEF EasesAll, Eases
  <2> QED
    BY <2>1, <2>2 DEF HealthStops, Granted, Refused
<1> QED
  BY <1>2, <1>3, <1>4, CalmSteps

\* An update that installs nothing, or does, and a recovery that is not needed, or fails.
LEMMA UpdateLoses ==
    ASSUME DesktopGatewayAssumption, GatewayInv, LossInv, NEW k \in Calls, Loses(k),
           GiveUpdateUp(k) \/ Installs(k) \/ InstallFails(k) \/ RecoveryFails(k)
    PROVE  LossInv'
<1>1. Typing /\ own \in Gateways \cup {None} /\ FenceHolds
  BY LossFacts
<1>2. UNCHANGED <<own, made, gateway>> /\ (Over(k) \/ GoWith(k, "recover", None))
  BY DEF GiveUpdateUp, Installs, InstallFails, RecoveryFails, Fails
<1>3. call'[k].at \in {"over", "recover"} /\ call'[k].gateway = None
      /\ \A j \in Calls \ {k} : call'[j] = call[j]
  BY <1>1, <1>2, Goings, "recover" \in Places DEF Places
<1>4. preparing' = preparing \/ Preparing(k)
  <2>1. CASE GiveUpdateUp(k) \/ InstallFails(k)
    BY <1>1, <2>1 DEF GiveUpdateUp, InstallFails, At, FenceHolds, Preparing
  <2>2. CASE Installs(k) \/ RecoveryFails(k)
    BY <2>2 DEF Installs, RecoveryFails
  <2> QED
    BY <2>1, <2>2
<1>5. EasesAll(gateway')
  BY <1>2, Easing
<1> QED
  BY <1>2, <1>3, <1>4, <1>5, CalmSteps

\* A stop begins.
LEMMA BeginStopLoses ==
    ASSUME DesktopGatewayAssumption, GatewayInv, LossInv, NEW k \in Calls, BeginStop(k),
           Loses(k) \/ stray' = stray, KindOf[k] = "update" => call[k].at = "fenced"
    PROVE  LossInv'
<1>1. Typing /\ own \in Gateways \cup {None} /\ FenceHolds
  BY LossFacts
<1>2. gateway' = Quieted(gateway) /\ GoTo(k, "quiesce") /\ UNCHANGED <<own, preparing, made>>
  BY DEF BeginStop
<1>3. call'[k].at = "quiesce" /\ call'[k].gateway = call[k].gateway
      /\ \A j \in Calls \ {k} : call'[j] = call[j]
  BY <1>1, <1>2, Goings, "quiesce" \in Places DEF Places
<1>4. StartStep(k) /\ Leaves(k)
  BY <1>2, <1>3 DEF StartStep, Starting, Leaves, Fits
<1>5. FenceStep(k)
  BY <1>1, <1>2, <1>3 DEF FenceStep, Preparing, FenceHolds
<1> QED
  BY <1>2, <1>3, <1>4, <1>5, Easing, EasySteps

\* The automations are quiet.
LEMMA QuiescedLoses ==
    ASSUME DesktopGatewayAssumption, GatewayInv, LossInv, NEW k \in Calls, Loses(k), Quiesced(k)
    PROVE  LossInv'
<1>1. /\ Typing /\ own \in Gateways \cup {None} /\ FenceHolds /\ own <= made
      /\ gateway \in [Gateways -> Records]
  BY LossFacts
<1>2. UNCHANGED <<own, preparing, made>> /\ call[k].at = "quiesce"
  BY DEF Quiesced, At
<1>3. CASE own = None
  <2>1. gateway' = Quieted(gateway) /\ GoTo(k, "close")
    BY <1>3 DEF Quiesced
  <2>2. call'[k].at = "close" /\ call'[k].gateway = call[k].gateway
        /\ \A j \in Calls \ {k} : call'[j] = call[j]
    BY <1>1, <2>1, Goings, "close" \in Places DEF Places
  <2>3. StartStep(k) /\ Leaves(k)
    BY <1>2, <1>3, <2>2 DEF StartStep, Starting, Leaves
  <2>4. FenceStep(k)
    BY <1>1, <1>2, <2>2 DEF FenceStep, Preparing, FenceHolds
  <2> QED
    BY <1>2, <2>1, <2>2, <2>3, <2>4, Easing, EasySteps
<1>4. CASE own # None
  <2>1. gateway' = Closing(gateway, own) /\ GoWith(k, "stop", own) /\ own \in Gateways
    BY <1>1, <1>4 DEF Quiesced
  <2>2. call'[k].at = "stop" /\ call'[k].gateway = own
        /\ \A j \in Calls \ {k} : call'[j] = call[j]
    BY <1>1, <2>1, Goings, "stop" \in Places DEF Places
  <2>3. gateway'[own].closing # "no"
    <3>1. gateway[own] \in Records
      BY <1>1, <2>1
    <3>2. gateway'[own] = [gateway[own] EXCEPT !.closing = IF gateway[own].closing = "no"
                                                 THEN "begun" ELSE gateway[own].closing]
      BY <1>1, <2>1, ClosingOnes
    <3> QED
      BY <3>1, <3>2 DEF Records
  <2>4. StartStep(k) /\ Leaves(k)
    BY <1>2, <1>4, <2>2, <2>3 DEF StartStep, Starting, Leaves, Fits
  <2>5. FenceStep(k)
    BY <1>1, <1>2, <2>2 DEF FenceStep, Preparing, FenceHolds
  <2> QED
    BY <1>1, <1>2, <2>1, <2>2, <2>4, <2>5, Easing, EasySteps
<1> QED
  BY <1>3, <1>4

\* A step of k that brings something of one gateway up: the numbers stay.
LEMMA NumbersStay ==
    ASSUME DesktopGatewayAssumption, GatewayInv, LossInv, NEW k \in Calls,
           \A j \in Calls \ {k} : call'[j] = call[j], call'[k].gateway = None, made' = made,
           NEW g \in Gateways, g <= made, \A h \in Gateways \ {g} : gateway'[h] = gateway[h],
           gateway'[g].life = gateway[g].life, gateway'[g].closing = gateway[g].closing,
           stray' = stray \cup Revived
    PROVE  Numbered'
<1>1. made \in Nat
  BY LossFacts
<1>2. \A h \in Gateways : h > made => h # g
  BY <1>1 DEF Gateways
<1>3. \A h \in Gateways : h > made => Blank(gateway'[h])
  BY <1>2 DEF LossInv, Numbered
<1>4. \A h \in Gateways : h > made => h \notin Revived
  BY DEF LossInv, Numbered, Blank, Revived
<1>5. stray' \subseteq Gateways
  BY DEF LossInv, Numbered, Revived
<1>6. \A j \in Calls : call'[j].gateway <= made
  BY <1>1 DEF LossInv, Numbered, None
<1>7. \A h \in Gateways : Stopped(gateway'[h])
  BY DEF LossInv, Numbered, Stopped
<1> QED
  BY <1>3, <1>4, <1>5, <1>6, <1>7 DEF LossInv, Numbered

\* A start that failed gives its gateway up.
LEMMA GiveUpLoses ==
    ASSUME DesktopGatewayAssumption, GatewayInv, LossInv, NEW k \in Calls, Loses(k), GiveUp(k),
           call[k].at \in {"pipe", "compose"},
           call[k].gateway = own /\ own \notin stray =>
              gateway[own].life \notin {"starting", "up", "off"}
    PROVE  LossInv'
<1>1. /\ Typing /\ own \in Gateways \cup {None} /\ FenceHolds
      /\ gateway \in [Gateways -> Records]
  BY LossFacts
<1>2. PICK g \in Gateways : g = call[k].gateway /\ g <= made
  BY LossFacts DEF WithGateway
<1>3. /\ gateway' = Closing(gateway, g) /\ GoTo(k, "undo")
      /\ UNCHANGED <<own, preparing, made>>
  BY <1>2 DEF GiveUp
<1>4. call'[k].at = "undo" /\ call'[k].gateway = g
      /\ \A j \in Calls \ {k} : call'[j] = call[j]
  BY <1>1, <1>2, <1>3, Goings, "undo" \in Places DEF Places
<1>5. EasesAll(gateway')
  BY <1>2, <1>3, Easing
<1>6. Leaves(k)
  <2>1. SUFFICES ASSUME own # None, own \notin stray', g = own
                 PROVE  Fits(gateway'[own], "undo")
    BY <1>3, <1>4 DEF Leaves
  <2>2. own \notin stray
    BY <2>1 DEF Loses
  <2>3. Fits(gateway[own], call[k].at)
    BY <1>2, <2>1, <2>2, LossFacts
  <2>4. /\ gateway[own] \in Records
        /\ gateway'[own] = [gateway[own] EXCEPT !.closing = IF gateway[own].closing = "no"
                                                   THEN "begun" ELSE gateway[own].closing]
    BY <1>1, <1>2, <1>3, <2>1, ClosingOnes
  <2>5. /\ gateway'[own].life = gateway[own].life /\ gateway'[own].child = gateway[own].child
        /\ gateway'[own].closing # "no"
        /\ gateway'[own].closing = "done" => gateway[own].closing = "done"
    BY <2>4 DEF Records
  <2> QED
    BY <1>2, <2>1, <2>2, <2>3, <2>5 DEF Fits
<1>7. StartStep(k) /\ FenceStep(k)
  BY <1>2, <1>3, <1>4 DEF StartStep, Starting, FenceStep, Preparing
<1> QED
  BY <1>2, <1>3, <1>4, <1>5, <1>6, <1>7, EasySteps

\* The pipe opens for a composition that nobody has stopped yet: only k starts it.
LEMMA OpenedLoses ==
    ASSUME DesktopGatewayAssumption, GatewayInv, LossInv, NEW k \in Calls, Loses(k),
           call[k].at = "pipe", NEW g \in Gateways, g = call[k].gateway,
           gateway[g].closing = "no", gateway' = [gateway EXCEPT ![g].life = "starting"],
           GoTo(k, "compose"), UNCHANGED <<own, preparing, made>>
    PROVE  LossInv'
<1>1. /\ Typing /\ own \in Gateways \cup {None} /\ FenceHolds /\ OneStarts
      /\ gateway \in [Gateways -> Records] /\ g <= made /\ made \in Nat
  BY LossFacts
<1>2. call'[k].at = "compose" /\ call'[k].gateway = g
      /\ \A j \in Calls \ {k} : call'[j] = call[j]
  BY <1>1, Goings, "compose" \in Places DEF Places
<1>3. /\ gateway[g] \in Records /\ gateway'[g] = [gateway[g] EXCEPT !.life = "starting"]
      /\ \A h \in Gateways \ {g} : gateway'[h] = gateway[h]
  BY <1>1
<1>4. /\ gateway'[g].closing = "no" /\ gateway'[g].ticking = gateway[g].ticking
      /\ gateway'[g].child = gateway[g].child
  BY <1>3 DEF Records
<1>5. stray' = stray
  <2>1. LetGo(k) = {}
    BY <1>2 DEF LetGo
  <2>2. Revived = {}
    BY <1>3, <1>4 DEF Revived
  <2> QED
    BY <2>1, <2>2 DEF Loses
<1>6. Numbered'
  <2>1. \A h \in Gateways : h > made => h # g
    BY <1>1 DEF Gateways
  <2>2. \A h \in Gateways : h > made => Blank(gateway'[h])
    BY <1>3, <2>1 DEF LossInv, Numbered
  <2>3. \A j \in Calls : call'[j].gateway <= made
    BY <1>1, <1>2 DEF LossInv, Numbered
  <2>4. \A h \in Gateways : Stopped(gateway'[h])
    BY <1>3, <1>4 DEF LossInv, Numbered, Stopped
  <2> QED
    BY <1>5, <2>2, <2>3, <2>4 DEF LossInv, Numbered
<1>7. ASSUME NEW h \in Gateways \ stray, h <= made, h # own PROVE GivenUp(gateway'[h])
  <2>1. GivenUp(gateway[h])
    BY <1>7 DEF LossInv, NoneLost
  <2>2. h # g
    BY <2>1 DEF GivenUp
  <2> QED
    BY <1>3, <2>1, <2>2
<1>8. ASSUME own # None, own \notin stray, NEW j \in Calls, call'[j].gateway = own
      PROVE  Fits(gateway'[own], call'[j].at)
  <2>1. CASE j = k
    BY <1>2, <1>4, <1>8, <2>1 DEF Fits
  <2>2. CASE j # k
    <3>1. Fits(gateway[own], call[j].at) /\ call'[j] = call[j]
      BY <1>2, <1>8, <2>2 DEF LossInv, NoneLost
    <3>2. CASE own # g
      BY <1>1, <1>3, <1>8, <3>1, <3>2
    <3>3. CASE own = g
      <4>1. call[j].at \notin {"pipe", "compose", "undo", "drop"}
        BY <1>1, <1>8, <2>2, <3>1, <3>3 DEF OneStarts, Starting
      <4> QED
        BY <1>4, <3>1, <3>3, <4>1 DEF Fits
    <3> QED
      BY <3>2, <3>3
  <2> QED
    BY <2>1, <2>2
<1>9. NoneLost'
  BY <1>5, <1>7, <1>8 DEF NoneLost
<1>10. StartStep(k) /\ FenceStep(k)
  BY <1>2 DEF StartStep, Starting, FenceStep, Preparing
<1> QED
  BY <1>1, <1>2, <1>6, <1>9, <1>10, StartSteps, FenceSteps DEF LossInv

\* A start goes on when the pipe opens, or gives its gateway up.
LEMMA PipeOpensLoses ==
    ASSUME DesktopGatewayAssumption, GatewayInv, LossInv, NEW k \in Calls, Loses(k), PipeOpens(k)
    PROVE  LossInv'
<1>1. PICK g \in Gateways : g = call[k].gateway
  BY LossFacts DEF PipeOpens, At, WithGateway
<1>2. call[k].at = "pipe"
  BY DEF PipeOpens, At
<1>3. CASE gateway[g].closing # "no"
  <2>1. GiveUp(k)
    BY <1>1, <1>3 DEF PipeOpens
  <2>2. call[k].gateway = own /\ own \notin stray =>
           gateway[own].life \notin {"starting", "up", "off"}
    BY <1>1, <1>2, Indices, LossFacts DEF Fits
  <2> QED
    BY <1>2, <2>1, <2>2, GiveUpLoses
<1>4. CASE gateway[g].closing = "no"
  BY <1>1, <1>2, <1>4, OpenedLoses DEF PipeOpens
<1> QED
  BY <1>3, <1>4

\* It gives it up when the pipe does not open.
LEMMA PipeFailsLoses ==
    ASSUME DesktopGatewayAssumption, GatewayInv, LossInv, NEW k \in Calls, Loses(k), PipeFails(k)
    PROVE  LossInv'
<1>1. call[k].at = "pipe" /\ GiveUp(k) /\ call[k].gateway # None
  BY Indices, LossFacts DEF PipeFails, At, WithGateway
<1>2. call[k].gateway = own /\ own \notin stray =>
         gateway[own].life \notin {"starting", "up", "off"}
  BY <1>1, LossFacts DEF Fits
<1> QED
  BY <1>1, <1>2, GiveUpLoses

\* The automations that are started were lost when their gateway was stopped and given up.
LEMMA TickingLoses ==
    ASSUME DesktopGatewayAssumption, GatewayInv, LossInv, NEW k \in Calls, Loses(k),
           tools # None, gateway' = [gateway EXCEPT ![tools].ticking = TRUE], Over(k),
           UNCHANGED <<own, preparing, made>>
    PROVE  LossInv'
<1>1. /\ Typing /\ own \in Gateways /\ tools = own /\ FenceHolds /\ OneStarts
      /\ gateway \in [Gateways -> Records] /\ own <= made /\ made \in Nat
  BY LossFacts
<1>2. call'[k].at = "over" /\ call'[k].gateway = None
      /\ \A j \in Calls \ {k} : call'[j] = call[j]
  BY <1>1, CallEnds
<1>3. /\ gateway[own] \in Records /\ gateway'[own] = [gateway[own] EXCEPT !.ticking = TRUE]
      /\ \A h \in Gateways \ {own} : gateway'[h] = gateway[h]
  BY <1>1
<1>4. /\ gateway'[own].closing = gateway[own].closing /\ gateway'[own].ticking
      /\ gateway'[own].child = gateway[own].child /\ gateway'[own].life = gateway[own].life
  BY <1>3 DEF Records
<1>5. stray' = stray \cup Revived
  BY <1>2 DEF Loses, LetGo
<1>6. Numbered'
  BY <1>1, <1>2, <1>3, <1>4, <1>5, NumbersStay
<1>7. ASSUME NEW h \in Gateways \ stray', h <= made, h # own PROVE GivenUp(gateway'[h])
  BY <1>3, <1>5, <1>7 DEF LossInv, NoneLost
<1>8. ASSUME own \notin stray', NEW j \in Calls, call'[j].gateway = own
      PROVE  Fits(gateway'[own], call'[j].at)
  <2>1. j # k /\ call'[j] = call[j] /\ own # None
    BY <1>1, <1>2, <1>8, Indices
  <2>2. Fits(gateway[own], call[j].at)
    BY <1>5, <1>8, <2>1 DEF LossInv, NoneLost
  <2>3. CASE call[j].at \in {"drop", "close", "reopen"}
    <3>1. gateway[own].closing = "done" /\ ~gateway[own].ticking
      BY <2>2, <2>3 DEF Fits
    <3>2. WorksOn(j, own)
      BY <1>8, <2>1, <2>3 DEF WorksOn, OnTheAgent
    <3>3. own \in Revived
      BY <1>1, <1>4, <3>1, <3>2 DEF Revived
    <3> QED
      BY <1>5, <1>8, <3>3
  <2>4. CASE call[j].at \notin {"drop", "close", "reopen"}
    BY <1>4, <2>1, <2>2, <2>4 DEF Fits
  <2> QED
    BY <2>3, <2>4
<1>9. NoneLost'
  BY <1>7, <1>8 DEF NoneLost
<1>10. StartStep(k) /\ FenceStep(k)
  BY <1>2 DEF StartStep, Starting, FenceStep, Preparing
<1> QED
  BY <1>1, <1>2, <1>6, <1>9, <1>10, StartSteps, FenceSteps DEF LossInv

\* The composition has come up, or has failed to.
LEMMA CompositionStartsLoses ==
    ASSUME DesktopGatewayAssumption, GatewayInv, LossInv, NEW k \in Calls, Loses(k),
           CompositionStarts(k)
    PROVE  LossInv'
<1>1. PICK g \in Gateways : g = call[k].gateway
  BY LossFacts DEF CompositionStarts, At, WithGateway
<1>2. call[k].at = "compose" /\ tools = own
  BY LossFacts DEF CompositionStarts, At
<1>3. CASE gateway[g].life \in {"up", "off"} /\ tools # None
  BY <1>1, <1>3, TickingLoses DEF CompositionStarts
<1>4. CASE ~(gateway[g].life \in {"up", "off"} /\ tools # None)
  <2>1. gateway[g].life # "starting" /\ GiveUp(k)
    BY <1>1, <1>4 DEF CompositionStarts
  <2>2. call[k].gateway = own => gateway[own].life \notin {"starting", "up", "off"}
    BY <1>1, <1>2, <1>4, <2>1, Indices
  <2> QED
    BY <1>2, <2>1, <2>2, GiveUpLoses
<1> QED
  BY <1>3, <1>4

\* What failed to start is stopped, and dropped.
LEMMA UndoneLoses ==
    ASSUME DesktopGatewayAssumption, GatewayInv, LossInv, NEW k \in Calls, Loses(k), Undone(k)
    PROVE  LossInv'
<1>1. /\ Typing /\ own \in Gateways \cup {None} /\ tools = own
      /\ gateway \in [Gateways -> Records]
  BY LossFacts
<1>2. /\ call[k].at = "undo" /\ gateway[call[k].gateway].closing = "done"
      /\ gateway' = Quieted(gateway) /\ GoTo(k, "drop") /\ UNCHANGED <<own, preparing, made>>
  BY DEF Undone, At
<1>3. call'[k].at = "drop" /\ call'[k].gateway = call[k].gateway
      /\ \A j \in Calls \ {k} : call'[j] = call[j]
  BY <1>1, <1>2, Goings, "drop" \in Places DEF Places
<1>4. Leaves(k)
  <2>1. SUFFICES ASSUME own # None, own \notin stray', call[k].gateway = own
                 PROVE  Fits(gateway'[own], "drop")
    BY <1>2, <1>3 DEF Leaves
  <2>2. own \in Gateways /\ own \notin stray
    BY <1>1, <2>1 DEF Loses
  <2>3. Fits(gateway[own], "undo") /\ Stopped(gateway[own])
    BY <1>2, <2>1, <2>2, LossFacts
  <2>4. /\ gateway[own] \in Records
        /\ gateway'[own] = [gateway[own] EXCEPT !.ticking = FALSE]
    BY <1>1, <1>2, <2>2, QuietedOnes
  <2>5. /\ gateway'[own].life = gateway[own].life /\ gateway'[own].child = gateway[own].child
        /\ gateway'[own].closing = "done" /\ gateway[own].closing = "done"
        /\ ~gateway'[own].ticking
    BY <1>2, <2>1, <2>4 DEF Records
  <2> QED
    BY <2>3, <2>5 DEF Fits, Stopped
<1>5. StartStep(k) /\ FenceStep(k)
  BY <1>2, <1>3 DEF StartStep, Starting, FenceStep, Preparing
<1> QED
  BY <1>2, <1>3, <1>4, <1>5, Easing, EasySteps

\* It is dropped with whatever is owned by then.
LEMMA DroppedLoses ==
    ASSUME DesktopGatewayAssumption, GatewayInv, LossInv, NEW k \in Calls, Loses(k), Dropped(k)
    PROVE  LossInv'
<1>1. /\ Typing /\ own \in Gateways \cup {None} /\ made \in Nat
      /\ gateway \in [Gateways -> Records]
  BY LossFacts
<1>2. PICK g \in Gateways : g = call[k].gateway /\ g <= made
  BY LossFacts DEF Dropped, At, WithGateway
<1>3. /\ call[k].at = "drop" /\ gateway' = [gateway EXCEPT ![g].store = FALSE]
      /\ own' = None /\ Over(k) /\ UNCHANGED <<preparing, made>>
  BY <1>2 DEF Dropped, At
<1>4. call'[k].at = "over" /\ call'[k].gateway = None
      /\ \A j \in Calls \ {k} : call'[j] = call[j]
  BY <1>1, <1>3, CallEnds
<1>5. /\ gateway[g] \in Records /\ gateway'[g] = [gateway[g] EXCEPT !.store = FALSE]
      /\ \A h \in Gateways \ {g} : gateway'[h] = gateway[h]
  BY <1>1, <1>3
<1>6. /\ gateway'[g].life = gateway[g].life /\ gateway'[g].child = gateway[g].child
      /\ gateway'[g].closing = gateway[g].closing
      /\ gateway'[g].ticking = gateway[g].ticking /\ ~gateway'[g].store
      /\ gateway[g].child \in {"none", "alive", "stuck"}
  BY <1>5 DEF Records
<1>7. EasesAll(gateway')
  <2>1. \A h \in Gateways : h > made => h # g
    BY <1>1, <1>2 DEF Gateways
  <2> QED
    BY <1>5, <1>6, <2>1 DEF EasesAll, Eases
<1>8. Leaves(k)
  <2>1. SUFFICES ASSUME own # None, own = g, own \notin stray PROVE GivenUp(gateway'[g])
    BY <1>2, <1>4 DEF Leaves
  <2>2. Fits(gateway[g], "drop")
    BY <1>2, <1>3, <2>1, LossFacts
  <2> QED
    BY <1>6, <2>2 DEF Fits, GivenUp, Gone
<1>9. StartStep(k) /\ FenceStep(k)
  BY <1>3, <1>4 DEF StartStep, Starting, FenceStep, Preparing
<1> QED
  BY <1>3, <1>4, <1>7, <1>8, <1>9, EasySteps

\* The composition has stopped, or its stop has failed.
LEMMA CompositionStopsLoses ==
    ASSUME DesktopGatewayAssumption, GatewayInv, LossInv, NEW k \in Calls, Loses(k),
           CompositionStops(k)
    PROVE  LossInv'
<1>1. /\ Typing /\ own \in Gateways \cup {None} /\ tools = own /\ FenceHolds
      /\ gateway \in [Gateways -> Records]
  BY LossFacts
<1>2. /\ call[k].at = "stop" /\ gateway[call[k].gateway].closing = "done"
      /\ UNCHANGED <<own, made>>
  BY DEF CompositionStops, At
<1>3. CASE HasProcess \/ (KindOf[k] = "update" /\ gateway[call[k].gateway].trouble)
  <2>1. Fails(k) /\ UNCHANGED gateway
    BY <1>3 DEF CompositionStops
  <2>2. Over(k) \/ GoWith(k, "recover", None)
    BY <2>1 DEF Fails
  <2>3. call'[k].at \in {"over", "recover"} /\ call'[k].gateway = None
        /\ \A j \in Calls \ {k} : call'[j] = call[j]
    BY <1>1, <2>2, Goings, "recover" \in Places DEF Places
  <2>4. preparing' = preparing \/ Preparing(k)
    BY <1>2, <2>1 DEF Fails, Preparing
  <2>5. EasesAll(gateway')
    BY <2>1, Easing
  <2> QED
    BY <1>2, <2>3, <2>4, <2>5, CalmSteps
<1>4. CASE ~(HasProcess \/ (KindOf[k] = "update" /\ gateway[call[k].gateway].trouble))
  <2>1. gateway' = Quieted(gateway) /\ GoTo(k, "close") /\ UNCHANGED preparing
    BY <1>4 DEF CompositionStops
  <2>2. call'[k].at = "close" /\ call'[k].gateway = call[k].gateway
        /\ \A j \in Calls \ {k} : call'[j] = call[j]
    BY <1>1, <2>1, Goings, "close" \in Places DEF Places
  <2>3. Leaves(k)
    <3>1. SUFFICES ASSUME own # None, call[k].gateway = own PROVE Fits(gateway'[own], "close")
      BY <1>2, <2>2 DEF Leaves
    <3>2. /\ gateway[own] \in Records
          /\ gateway'[own] = [gateway[own] EXCEPT !.ticking = FALSE]
      BY <1>1, <2>1, <3>1, QuietedOnes
    <3>3. gateway[own].child = "none" /\ gateway[own].closing = "done"
      BY <1>2, <1>4, <3>1 DEF HasProcess
    <3> QED
      BY <3>2, <3>3 DEF Fits, Records
  <2>4. StartStep(k)
    BY <2>2 DEF StartStep, Starting
  <2>5. FenceStep(k)
    BY <1>1, <1>2, <2>1, <2>2 DEF FenceStep, Preparing, FenceHolds
  <2> QED
    BY <1>2, <2>1, <2>2, <2>3, <2>4, <2>5, Easing, EasySteps
<1> QED
  BY <1>3, <1>4

\* The gateway is given up.
LEMMA ClosedLoses ==
    ASSUME DesktopGatewayAssumption, GatewayInv, LossInv, NEW k \in Calls, Loses(k), Closed(k)
    PROVE  LossInv'
<1>1. /\ Typing /\ own \in Gateways \cup {None} /\ FenceHolds
      /\ gateway \in [Gateways -> Records]
  BY LossFacts
<1>2. /\ call[k].at = "close" /\ gateway' = StoreClosed(gateway) /\ own' = None
      /\ UNCHANGED <<preparing, made>>
  BY DEF Closed, At
<1>3. /\ \/ GoWith(k, "stopped", None) /\ KindOf[k] # "update"
         \/ GoWith(k, "installing", None) /\ KindOf[k] = "update"
         \/ Over(k)
  BY DEF Closed
<1>4. /\ call'[k].at \in {"stopped", "installing", "over"} /\ call'[k].gateway = None
      /\ call'[k].at = "installing" => KindOf[k] = "update"
      /\ \A j \in Calls \ {k} : call'[j] = call[j]
  BY <1>1, <1>3, Goings, "stopped" \in Places, "installing" \in Places DEF Places
<1>5. Leaves(k)
  <2>1. SUFFICES ASSUME own # None, own = call[k].gateway, own \notin stray
                 PROVE  GivenUp(gateway'[own])
    BY <1>4 DEF Leaves
  <2>2. Fits(gateway[own], "close") /\ Stopped(gateway[own]) /\ own \in Gateways
    BY <1>1, <1>2, <2>1, LossFacts
  <2>3. /\ gateway[own] \in Records
        /\ gateway'[own] = [gateway[own] EXCEPT !.store = FALSE]
    BY <1>1, <1>2, <2>2, StoreClosedOnes
  <2>4. /\ gateway'[own].life = gateway[own].life /\ gateway'[own].child = gateway[own].child
        /\ gateway'[own].closing = gateway[own].closing
        /\ gateway'[own].ticking = gateway[own].ticking /\ ~gateway'[own].store
    BY <2>3 DEF Records
  <2> QED
    BY <2>2, <2>4 DEF Fits, Stopped, GivenUp, Gone
<1>6. StartStep(k)
  BY <1>4 DEF StartStep, Starting
<1>7. FenceStep(k)
  BY <1>1, <1>2, <1>4 DEF FenceStep, Preparing, FenceHolds
<1> QED
  BY <1>2, <1>4, <1>5, <1>6, <1>7, Easing, EasySteps

\* The recovery begins: what is owned without a process is lost unless it was stopped.
LEMMA RecoverLoses ==
    ASSUME DesktopGatewayAssumption, GatewayInv, LossInv, NEW k \in Calls, Loses(k), Recover(k)
    PROVE  LossInv'
<1>1. /\ Typing /\ own \in Gateways \cup {None} /\ tools = own
      /\ gateway \in [Gateways -> Records]
  BY LossFacts
<1>2. UNCHANGED <<own, preparing, made>>
  BY DEF Recover
<1>3. CASE HasProcess
  <2>1. Over(k) /\ gateway' = gateway
    BY <1>3 DEF Recover
  <2>2. call'[k].at = "over" /\ call'[k].gateway = None
        /\ \A j \in Calls \ {k} : call'[j] = call[j]
    BY <1>1, <2>1, CallEnds
  <2> QED
    BY <1>2, <2>1, <2>2, Easing, CalmSteps
<1>4. CASE ~HasProcess
  <2>1. gateway' = Quieted(gateway) /\ GoWith(k, "reopen", own)
    BY <1>4 DEF Recover
  <2>2. call'[k].at = "reopen" /\ call'[k].gateway = own
        /\ \A j \in Calls \ {k} : call'[j] = call[j]
    BY <1>1, <2>1, Goings, "reopen" \in Places DEF Places
  <2>3. Leaves(k)
    <3>1. SUFFICES ASSUME own # None, own \notin stray' PROVE Fits(gateway'[own], "reopen")
      BY <1>2, <2>2 DEF Leaves
    <3>2. /\ gateway[own] \in Records
          /\ gateway'[own] = [gateway[own] EXCEPT !.ticking = FALSE]
      BY <1>1, <2>1, <3>1, QuietedOnes
    <3>3. gateway[own].closing = "done"
      BY <2>2, <3>1 DEF Loses, LetGo
    <3>4. gateway[own].child = "none"
      BY <1>4, <3>1 DEF HasProcess
    <3> QED
      BY <3>2, <3>3, <3>4 DEF Fits, Records
  <2>4. StartStep(k) /\ FenceStep(k)
    BY <1>2, <2>2 DEF StartStep, Starting, FenceStep, Preparing
  <2> QED
    BY <1>2, <2>1, <2>2, <2>3, <2>4, Easing, EasySteps
<1> QED
  BY <1>3, <1>4

\* A gateway that is started, when none is owned or the one that is owned is given up for it.
LEMMA StartFromLoses ==
    ASSUME DesktopGatewayAssumption, GatewayInv, LossInv, NEW k \in Calls,
           Loses(k) \/ (own = None /\ stray' = stray), NEW gs \in [Gateways -> Records],
           EasesAll(gs), own # None => call[k].at = "reopen" /\ ~gs[own].store,
           StartFrom(k, None, None, gs), preparing' = preparing
    PROVE  LossInv'
<1>1. /\ Typing /\ own \in Gateways \cup {None} /\ own <= made /\ made \in Nat
      /\ gateway \in [Gateways -> Records] /\ FenceHolds /\ OneStarts
  BY LossFacts
<1>2. ASSUME own # None, own \notin stray, own = call[k].gateway PROVE GivenUp(gs[own])
  <2>1. own \in Gateways /\ Fits(gateway[own], "reopen") /\ Stopped(gateway[own])
        /\ Eases(gateway[own], gs[own])
    BY <1>1, <1>2, LossFacts DEF EasesAll
  <2> QED
    BY <2>1, <1>2 DEF Fits, Stopped, GivenUp, Gone, Eases
<1>3. CASE preparing
  <2>1. own' = None /\ gateway' = gs /\ Over(k) /\ made' = made
    BY <1>3 DEF StartFrom
  <2>2. call'[k].at = "over" /\ call'[k].gateway = None
        /\ \A j \in Calls \ {k} : call'[j] = call[j]
    BY <1>1, <2>1, CallEnds
  <2>3. Leaves(k)
    BY <1>2, <2>1, <2>2 DEF Leaves
  <2>4. StartStep(k) /\ FenceStep(k)
    BY <2>1, <2>2 DEF StartStep, Starting, FenceStep, Preparing
  <2> QED
    BY <2>1, <2>2, <2>3, <2>4, EasySteps
<1>4. CASE ~preparing
  <2> DEFINE n == made + 1
             fresh == [Unmade EXCEPT !.life = "made", !.store = TRUE]
  <2>1. /\ made < MaxGateways /\ made' = n /\ own' = n
        /\ gateway' = [gs EXCEPT ![n] = fresh] /\ GoWith(k, "pipe", n)
    BY <1>4 DEF StartFrom
  <2>2. n \in Gateways /\ n # None /\ n # own /\ n > made /\ n \in Nat
    BY <1>1, <2>1, Types, Indices DEF None
  <2>3. /\ call'[k].at = "pipe" /\ call'[k].gateway = n
        /\ \A j \in Calls \ {k} : call'[j] = call[j]
    BY <1>1, <2>1, <2>2, CallMoves, "pipe" \in Places DEF Places
  <2>4. /\ gateway'[n] = fresh /\ \A h \in Gateways \ {n} : gateway'[h] = gs[h]
    BY <2>1, <2>2
  <2>5. fresh.life = "made" /\ fresh.closing = "no"
    BY DEF Unmade
  <2> HIDE DEF fresh
  <2>6. stray \subseteq stray' /\ stray' \subseteq stray \cup ({own} \ {None}) \cup Revived
    BY DEF Loses, LetGo
  <2>7. Revived = {}
    <3>1. \A h \in Gateways \ {n} : Eases(gateway[h], gateway'[h])
      BY <2>4 DEF EasesAll
    <3>2. gateway[n].closing # "done"
      BY <2>2 DEF LossInv, Numbered, Blank
    <3> QED
      BY <3>1, <3>2 DEF Revived, Eases
  <2>8. Numbered'
    <3>1. ASSUME NEW h \in Gateways, h > made' PROVE Blank(gateway'[h]) /\ h \notin stray'
      <4>1. h # n /\ h > made /\ h # own
        BY <1>1, <2>1, <2>2, <3>1 DEF Gateways
      <4> QED
        BY <2>4, <2>6, <2>7, <4>1 DEF LossInv, Numbered, EasesAll
    <3>2. ASSUME NEW j \in Calls PROVE call'[j].gateway <= made'
      <4>1. call[j].gateway \in Nat /\ call[j].gateway <= made
        BY <1>1, LossFacts, Indices DEF None
      <4> QED
        BY <1>1, <2>1, <2>3, <4>1
    <3>3. ASSUME NEW h \in Gateways PROVE Stopped(gateway'[h])
      <4>1. CASE h = n
        BY <2>4, <2>5, <4>1 DEF Stopped
      <4>2. CASE h # n
        BY <2>4, <4>2, EasedOnes DEF LossInv, Numbered, EasesAll
      <4> QED
        BY <4>1, <4>2
    <3>4. stray' \subseteq Gateways
      BY <1>1, <2>6, <2>7 DEF LossInv, Numbered
    <3> QED
      BY <3>1, <3>2, <3>3, <3>4 DEF Numbered
  <2>9. ASSUME NEW h \in Gateways \ stray', h <= made', h # own' PROVE GivenUp(gateway'[h])
    <3>1. gateway'[h] = gs[h] /\ h <= made /\ h \notin stray
      BY <1>1, <2>1, <2>2, <2>4, <2>6, <2>9 DEF Gateways
    <3>2. CASE h # own
      BY <3>1, <3>2, <2>9, EasedOnes DEF LossInv, NoneLost, EasesAll
    <3>3. CASE h = own
      <4>1. own # None /\ own' # own
        BY <2>1, <2>2, <3>3, Indices
      <4>2. own = call[k].gateway
        BY <2>9, <3>3, <4>1 DEF Loses, LetGo
      <4> QED
        BY <1>2, <3>1, <3>3, <4>1, <4>2
    <3> QED
      BY <3>2, <3>3
  <2>a. ASSUME NEW j \in Calls PROVE call[j].gateway # n
    <3>1. call[j].gateway <= made /\ call[j].gateway \in Nat
      BY <1>1, LossFacts, Indices DEF None
    <3> QED
      BY <1>1, <3>1
  <2>10. ASSUME NEW j \in Calls, call'[j].gateway = n PROVE Fits(gateway'[n], call'[j].at)
    <3>1. j = k
      BY <2>3, <2>a, <2>10
    <3> QED
      BY <2>3, <2>4, <2>5, <3>1 DEF Fits
  <2>11. NoneLost'
    BY <2>1, <2>9, <2>10 DEF NoneLost
  <2>12. OneStarts'
    <3>1. \A j \in Calls \ {k} : call'[j].gateway # n
      BY <2>3, <2>a
    <3>2. \A i, j \in Calls \ {k} : i # j /\ Starting(i)' /\ Starting(j)' =>
             call'[i].gateway # call'[j].gateway
      BY <1>1, <2>3 DEF OneStarts, Starting
    <3> QED
      BY <2>3, <3>1, <3>2 DEF OneStarts
  <2>13. FenceHolds'
    <3>1. FenceStep(k)
      BY <1>4, <2>1, <2>3 DEF FenceStep, Preparing
    <3> QED
      BY <1>1, <2>3, <3>1, FenceSteps
  <2> QED
    BY <2>8, <2>11, <2>12, <2>13 DEF LossInv
<1> QED
  BY <1>3, <1>4

\* Nothing happens when a gateway is owned.
LEMMA StartAgainLoses ==
    ASSUME DesktopGatewayAssumption, GatewayInv, LossInv, NEW k \in Calls,
           Loses(k) \/ stray' = stray, StartFrom(k, own, tools, gateway), preparing' = preparing
    PROVE  LossInv'
<1>1. Typing /\ own \in Gateways \cup {None} /\ tools = own /\ gateway \in [Gateways -> Records]
  BY LossFacts
<1>2. CASE own # None
  <2>1. own' = own /\ gateway' = gateway /\ Over(k) /\ made' = made
    BY <1>2 DEF StartFrom
  <2>2. call'[k].at = "over" /\ call'[k].gateway = None
        /\ \A j \in Calls \ {k} : call'[j] = call[j]
    BY <1>1, <2>1, CallEnds
  <2> QED
    BY <2>1, <2>2, Easing, CalmSteps
<1>3. CASE own = None
  BY <1>1, <1>3, Easing, StartFromLoses
<1> QED
  BY <1>2, <1>3

\* A recovery starts a gateway again.
LEMMA ReopenLoses ==
    ASSUME DesktopGatewayAssumption, GatewayInv, LossInv, NEW k \in Calls, Loses(k), Reopen(k)
    PROVE  LossInv'
<1>1. own \in Gateways \cup {None} /\ gateway \in [Gateways -> Records]
  BY LossFacts
<1>2. /\ call[k].at = "reopen" /\ preparing' = preparing
      /\ StartFrom(k, None, None, StoreClosed(gateway))
  BY DEF Reopen, At
<1>3. StoreClosed(gateway) \in [Gateways -> Records]
  BY <1>1, StoreClosedOnes
<1>4. own # None => ~StoreClosed(gateway)[own].store
  <2>1. ASSUME own # None PROVE ~StoreClosed(gateway)[own].store
    <3>1. /\ gateway[own] \in Records
          /\ StoreClosed(gateway)[own] = [gateway[own] EXCEPT !.store = FALSE]
      BY <1>1, <2>1, StoreClosedOnes
    <3> QED
      BY <3>1 DEF Records
  <2> QED
    BY <2>1
<1> QED
  BY <1>2, <1>3, <1>4, Easing, StartFromLoses

\* The agent of a gateway is started again: that of one that was stopped, and is given up or
\* about to be, is lost.
LEMMA AliveLoses ==
    ASSUME DesktopGatewayAssumption, GatewayInv, LossInv, NEW k \in Calls, Loses(k),
           NEW g \in Gateways, g = call[k].gateway, gateway[g].child # "stuck",
           gateway' = [gateway EXCEPT ![g].child = "alive"], Over(k),
           UNCHANGED <<own, preparing, made>>
    PROVE  LossInv'
<1>1. /\ Typing /\ own \in Gateways \cup {None} /\ FenceHolds /\ OneStarts
      /\ gateway \in [Gateways -> Records] /\ g <= made /\ made \in Nat
  BY LossFacts
<1>2. call'[k].at = "over" /\ call'[k].gateway = None
      /\ \A j \in Calls \ {k} : call'[j] = call[j]
  BY <1>1, CallEnds
<1>3. /\ gateway[g] \in Records /\ gateway'[g] = [gateway[g] EXCEPT !.child = "alive"]
      /\ \A h \in Gateways \ {g} : gateway'[h] = gateway[h]
  BY <1>1
<1>4. /\ gateway'[g].closing = gateway[g].closing /\ gateway'[g].child = "alive"
      /\ gateway'[g].ticking = gateway[g].ticking /\ gateway'[g].life = gateway[g].life
  BY <1>3 DEF Records
<1>5. stray' = stray \cup Revived
  BY <1>2 DEF Loses, LetGo
<1>6. Numbered'
  BY <1>1, <1>2, <1>3, <1>4, <1>5, NumbersStay
<1>7. ASSUME NEW h \in Gateways \ stray', h <= made, h # own PROVE GivenUp(gateway'[h])
  <2>1. GivenUp(gateway[h])
    BY <1>5, <1>7 DEF LossInv, NoneLost
  <2>2. h # g
    <3>1. SUFFICES ASSUME h = g PROVE FALSE
      OBVIOUS
    <3>2. h \in Revived
      BY <1>4, <1>7, <2>1, <3>1 DEF Revived, GivenUp, Gone
    <3> QED
      BY <1>5, <1>7, <3>2
  <2> QED
    BY <1>3, <2>1, <2>2
<1>8. ASSUME own # None, own \notin stray', NEW j \in Calls, call'[j].gateway = own
      PROVE  Fits(gateway'[own], call'[j].at)
  <2>1. j # k /\ call'[j] = call[j] /\ own \in Gateways
    BY <1>1, <1>2, <1>8
  <2>2. Fits(gateway[own], call[j].at)
    BY <1>5, <1>8, <2>1 DEF LossInv, NoneLost
  <2>3. CASE own # g
    BY <1>3, <2>1, <2>2, <2>3
  <2>4. CASE own = g /\ gateway[g].closing = "done"
    <3>1. CASE call[j].at \in OnTheAgent
      BY <2>1, <3>1 DEF OnTheAgent, Fits
    <3>2. CASE call[j].at \notin OnTheAgent /\ gateway[g].child # "alive"
      <4>1. WorksOn(j, own)
        BY <1>8, <2>1, <3>2 DEF WorksOn
      <4>2. own \in Revived
        BY <1>4, <2>1, <2>4, <3>2, <4>1 DEF Revived
      <4> QED
        BY <1>5, <1>8, <4>2
    <3>3. CASE gateway[g].child = "alive"
      BY <1>4, <2>1, <2>2, <2>4, <3>3 DEF Fits
    <3> QED
      BY <3>1, <3>2, <3>3
  <2>5. CASE own = g /\ gateway[g].closing # "done"
    BY <1>4, <2>1, <2>2, <2>5 DEF Fits
  <2> QED
    BY <2>3, <2>4, <2>5
<1>9. NoneLost'
  BY <1>7, <1>8 DEF NoneLost
<1>10. StartStep(k) /\ FenceStep(k)
  BY <1>2 DEF StartStep, Starting, FenceStep, Preparing
<1> QED
  BY <1>1, <1>2, <1>6, <1>9, <1>10, StartSteps, FenceSteps DEF LossInv

\* The agent is started, or fails to.
LEMMA AgentStartsLoses ==
    ASSUME DesktopGatewayAssumption, GatewayInv, LossInv, NEW k \in Calls, Loses(k),
           AgentStarts(k)
    PROVE  LossInv'
<1>1. PICK g \in Gateways : g = call[k].gateway
  BY LossFacts DEF AgentStarts, At, WithGateway
<1>2. Typing /\ UNCHANGED <<own, preparing, made>>
  BY LossFacts DEF AgentStarts
<1>3. CASE /\ gateway[g].child # "stuck" /\ Over(k)
           /\ gateway' = [gateway EXCEPT ![g].child = "alive"]
  BY <1>1, <1>2, <1>3, AliveLoses
<1>4. CASE Over(k) /\ gateway' = gateway
  <2>1. call'[k].at = "over" /\ call'[k].gateway = None
        /\ \A j \in Calls \ {k} : call'[j] = call[j]
    BY <1>2, <1>4, CallEnds
  <2> QED
    BY <1>2, <1>4, <2>1, Easing, CalmSteps
<1> QED
  BY <1>1, <1>3, <1>4 DEF AgentStarts, AgentFails

-----------------------------------------------------------------------------
\* A step of a call loses what the history says, and what it says no more.
LEMMA ProceedsLoses ==
    ASSUME DesktopGatewayAssumption, GatewayInv, LossInv, NEW k \in Calls, Proceeds(k), Loses(k)
    PROVE  LossInv'
<1>1. CASE PipeOpens(k) \/ PipeFails(k) \/ CompositionStarts(k) \/ Undone(k) \/ Dropped(k)
  BY <1>1, PipeOpensLoses, PipeFailsLoses, CompositionStartsLoses, UndoneLoses, DroppedLoses
<1>2. CASE Quiesced(k) \/ CompositionStops(k) \/ Closed(k)
  BY <1>2, QuiescedLoses, CompositionStopsLoses, ClosedLoses
<1>3. CASE HealthStops(k) \/ Granted(k) \/ Refused(k) \/ AgentStops(k) \/ AgentStarts(k)
  BY <1>3, AgentLoses, AgentStartsLoses
<1>4. CASE GiveUpdateUp(k) \/ Installs(k) \/ InstallFails(k) \/ RecoveryFails(k)
  BY <1>4, UpdateLoses
<1>5. CASE Recover(k) \/ Reopen(k)
  BY <1>5, RecoverLoses, ReopenLoses
<1>6. CASE StartAgain(k)
  BY <1>6, StartAgainLoses DEF StartAgain
<1>7. CASE CleanUp(k)
  BY <1>7, BeginStopLoses DEF CleanUp, At
<1> QED
  BY <1>1, <1>2, <1>3, <1>4, <1>5, <1>6, <1>7 DEF Proceeds

\* And what a call does before it first waits loses none.
LEMMA BeginLoses ==
    ASSUME DesktopGatewayAssumption, GatewayInv, LossInv, NEW k \in Calls, Begin(k),
           stray' = stray
    PROVE  LossInv'
<1>1. Typing /\ own \in Gateways \cup {None}
  BY LossFacts
<1>2. CASE StartFrom(k, own, tools, gateway) /\ preparing' = preparing
  BY <1>2, StartAgainLoses
<1>3. CASE KindOf[k] \in {"restart", "quit"} /\ BeginStop(k)
  BY <1>3, BeginStopLoses
<1>4. CASE RestartAgent(k) \/ (GoTo(k, "grant") /\ UNCHANGED <<own, preparing, gateway, made>>)
  <2>1. /\ GoTo(k, "health") \/ GoTo(k, "grant")
        /\ UNCHANGED <<own, preparing, gateway, made>>
    BY <1>4 DEF RestartAgent
  <2>2. call'[k].at \in {"health", "grant"} /\ call'[k].gateway = call[k].gateway
        /\ \A j \in Calls \ {k} : call'[j] = call[j]
    BY <1>1, <2>1, Goings, "health" \in Places, "grant" \in Places DEF Places
  <2> QED
    BY <2>1, <2>2, Easing, CalmSteps
<1>5. CASE /\ KindOf[k] = "update" /\ ~preparing /\ preparing' = TRUE /\ GoTo(k, "fenced")
           /\ UNCHANGED <<own, gateway, made>>
  <2>1. call'[k].at = "fenced" /\ call'[k].gateway = call[k].gateway
        /\ \A j \in Calls \ {k} : call'[j] = call[j]
    BY <1>1, <1>5, Goings, "fenced" \in Places DEF Places
  <2>2. StartStep(k) /\ FenceStep(k)
    BY <1>5, <2>1 DEF StartStep, Starting, FenceStep, Preparing
  <2>3. Leaves(k)
    BY <1>5, <2>1 DEF Leaves, Fits
  <2> QED
    BY <1>5, <2>1, <2>2, <2>3, Easing, EasySteps
<1> QED
  BY <1>2, <1>3, <1>4, <1>5 DEF Begin

\* What a step of a composition makes of its gateway.
Advanced(o, n) ==
    \/ o.life = "starting" /\ o.closing = "no" /\ n.closing = "no"
    \/ o.life = "starting" /\ o.closing = "begun" /\ n.closing = "begun"
    \/ /\ o.life # "starting" /\ o.closing = "begun" /\ n.closing = "done"
       /\ n.life = (IF o.life = "up" THEN "off" ELSE "failed") /\ n.child \in {"none", "stuck"}
    \/ o.child = "stuck" /\ Eases(o, n)

\* It is one of these, and leaves the others.
LEMMA AdvancedOnes ==
    ASSUME DesktopGatewayAssumption, GatewayInv, NEW g \in Gateways, Advances(g)
    PROVE  /\ Advanced(gateway[g], gateway'[g])
           /\ \A h \in Gateways \ {g} : gateway'[h] = gateway[h]
           /\ UNCHANGED <<own, preparing, call, made>>
<1>1. gateway[g] \in Records /\ gateway \in [Gateways -> Records]
  BY Types DEF GatewayInv
<1> DEFINE o == gateway[g]
           off == [o EXCEPT !.life = IF o.life = "up" THEN "off" ELSE "failed",
                            !.closing = "done"]
<1>2. ASSUME NEW new, Become(g, new), Advanced(o, new)
      PROVE  /\ Advanced(gateway[g], gateway'[g])
             /\ \A h \in Gateways \ {g} : gateway'[h] = gateway[h]
             /\ UNCHANGED <<own, preparing, call, made>>
  BY <1>1, <1>2 DEF Become
<1>3. CASE Spawns(g)
  <2>1. Advanced(o, [o EXCEPT !.child = "alive"])
    BY <1>1, <1>3 DEF Spawns, Advanced, Records
  <2> QED
    BY <1>2, <1>3, <2>1 DEF Spawns
<1>4. CASE ComesUp(g)
  <2>1. Advanced(o, [o EXCEPT !.life = "up"])
    BY <1>1, <1>4 DEF ComesUp, Advanced, Records
  <2> QED
    BY <1>2, <1>4, <2>1 DEF ComesUp
<1>5. CASE FailsToComeUp(g)
  <2>1. PICK left \in {"none", "stuck"} : Become(g, [o EXCEPT !.life = "failed", !.child = left])
    BY <1>5 DEF FailsToComeUp
  <2>2. Advanced(o, [o EXCEPT !.life = "failed", !.child = left])
    BY <1>1, <1>5 DEF FailsToComeUp, Advanced, Records
  <2> QED
    BY <1>2, <2>1, <2>2
<1>6. CASE IsAborted(g)
  <2>1. Advanced(o, [o EXCEPT !.life = "failed"])
    BY <1>1, <1>6 DEF IsAborted, Advanced, Records
  <2> QED
    BY <1>2, <1>6, <2>1 DEF IsAborted
<1>7. CASE GoesDown(g)
  <2>1. o.closing = "begun" /\ o.life # "starting"
    BY <1>7 DEF GoesDown
  <2>2. /\ off.life = (IF o.life = "up" THEN "off" ELSE "failed") /\ off.closing = "done"
        /\ off.child = o.child /\ off \in Records
    BY <1>1 DEF Records
  <2>3. \/ Become(g, [off EXCEPT !.child = "none"])
        \/ o.child = "stuck" /\ Become(g, [off EXCEPT !.trouble = TRUE])
        \/ \E left \in {"none", "stuck"} : Become(g, [off EXCEPT !.trouble = TRUE, !.child = left])
    BY <1>7 DEF GoesDown
  <2> HIDE DEF off
  <2>4. CASE Become(g, [off EXCEPT !.child = "none"])
    <3>1. Advanced(o, [off EXCEPT !.child = "none"])
      BY <2>1, <2>2 DEF Advanced, Records
    <3> QED
      BY <1>2, <2>4, <3>1
  <2>5. CASE o.child = "stuck" /\ Become(g, [off EXCEPT !.trouble = TRUE])
    <3>1. Advanced(o, [off EXCEPT !.trouble = TRUE])
      BY <2>1, <2>2, <2>5 DEF Advanced, Records
    <3> QED
      BY <1>2, <2>5, <3>1
  <2>6. ASSUME NEW left \in {"none", "stuck"},
               Become(g, [off EXCEPT !.trouble = TRUE, !.child = left])
        PROVE  /\ Advanced(gateway[g], gateway'[g])
               /\ \A h \in Gateways \ {g} : gateway'[h] = gateway[h]
               /\ UNCHANGED <<own, preparing, call, made>>
    <3>1. Advanced(o, [off EXCEPT !.trouble = TRUE, !.child = left])
      BY <2>1, <2>2, <2>6 DEF Advanced, Records
    <3> QED
      BY <1>2, <2>6, <3>1
  <2> QED
    BY <2>3, <2>4, <2>5, <2>6
<1>8. CASE LateExit(g)
  <2>1. Advanced(o, [o EXCEPT !.child = "none"])
    BY <1>1, <1>8 DEF LateExit, Advanced, Eases, Records
  <2> QED
    BY <1>2, <1>8, <2>1 DEF LateExit
<1> QED
  BY <1>3, <1>4, <1>5, <1>6, <1>7, <1>8 DEF Advances

\* What is said of gateways stays true of it.
LEMMA AdvancedFits ==
    ASSUME NEW o, NEW n, Advanced(o, n)
    PROVE  /\ Stopped(o) => Stopped(n)
           /\ GivenUp(o) => GivenUp(n)
           /\ \A p : Fits(o, p) => Fits(n, p)
           /\ ~Blank(o)
<1>1. CASE o.child = "stuck" /\ Eases(o, n)
  BY <1>1, EasedOnes DEF Blank
<1>2. CASE ~(o.child = "stuck" /\ Eases(o, n))
  <2>1. (Stopped(o) => Stopped(n)) /\ (GivenUp(o) => GivenUp(n)) /\ ~Blank(o)
    BY <1>2 DEF Advanced, Stopped, GivenUp, Gone, Blank
  <2>2. ASSUME NEW p, Fits(o, p) PROVE Fits(n, p)
    BY <1>2, <2>2 DEF Advanced, Fits
  <2> QED
    BY <2>1, <2>2
<1> QED
  BY <1>1, <1>2

\* The steps a composition takes by itself lose nothing.
LEMMA AdvancesLoses ==
    ASSUME DesktopGatewayAssumption, GatewayInv, LossInv, NEW g \in Gateways, Advances(g),
           stray' = stray
    PROVE  LossInv'
<1>1. /\ Advanced(gateway[g], gateway'[g])
      /\ \A h \in Gateways \ {g} : gateway'[h] = gateway[h]
      /\ UNCHANGED <<own, preparing, call, made>>
  BY AdvancedOnes
<1>2. own \in Gateways \cup {None}
  BY Types DEF GatewayInv
<1>3. Numbered'
  BY <1>1, AdvancedFits DEF LossInv, Numbered
<1>4. ASSUME NEW h \in Gateways \ stray, h <= made, h # own PROVE GivenUp(gateway'[h])
  BY <1>1, <1>4, AdvancedFits DEF LossInv, NoneLost
<1>5. ASSUME own # None, own \notin stray, NEW j \in Calls, call[j].gateway = own
      PROVE  Fits(gateway'[own], call[j].at)
  <2>1. Fits(gateway[own], call[j].at)
    BY <1>5 DEF LossInv, NoneLost
  <2> QED
    BY <1>1, <1>2, <1>5, <2>1, AdvancedFits
<1>6. NoneLost'
  BY <1>1, <1>4, <1>5 DEF NoneLost
<1>7. OneStarts' /\ FenceHolds'
  BY <1>1 DEF LossInv, OneStarts, Starting, FenceHolds, Preparing
<1> QED
  BY <1>3, <1>6, <1>7 DEF LossInv

-----------------------------------------------------------------------------
\* Nothing was made or lost at first.
LEMMA InitLoses == ASSUME DesktopGatewayAssumption, Init PROVE LossInv
<1>1. Numbered
  <2>1. made = 0 /\ \A k \in Calls : call[k].gateway = 0
    BY DEF Init, None
  <2> QED
    BY <2>1 DEF Init, Numbered, Blank, Stopped, Unmade
<1>2. NoneLost /\ OneStarts /\ FenceHolds
  <2>1. \A g \in Gateways : ~(g <= made)
    BY DEF Init, Gateways
  <2> QED
    BY <2>1 DEF Init, NoneLost, OneStarts, Starting, FenceHolds, Preparing
<1> QED
  BY <1>1, <1>2 DEF LossInv

\* Every step keeps what holds however calls overlap.
LEMMA NextLoses ==
    ASSUME DesktopGatewayAssumption, GatewayInv, LossInv, Next
    PROVE  LossInv'
  BY BeginLoses, ProceedsLoses, AdvancesLoses DEF Next, Loses

\* And so does a step that changes nothing.
LEMMA StutteringLoses == ASSUME LossInv, UNCHANGED vars PROVE LossInv'
  BY DEF vars, LossInv, Numbered, NoneLost, OneStarts, Starting, FenceHolds, Preparing

\* As long as no calls have run beside each other but about the agent none is lost: a call
\* gives up the gateway it has stopped, and what it starts is not stopped.
Unlost == ~crossed => stray = {}

\* Where the gateway that is owned goes.
LEMMA OwnMoves ==
    ASSUME DesktopGatewayAssumption, GatewayInv, LossInv, NEW k \in Calls, Proceeds(k)
    PROVE  /\ \/ own' = own
              \/ own' = None /\ (Dropped(k) \/ Closed(k) \/ Reopen(k))
              \/ own' = made + 1 /\ (own = None \/ Reopen(k))
           /\ Active(k)
           /\ call'[k].at = "reopen" => Recover(k)
<1>1. Typing /\ tools = own
  BY LossFacts
<1>2. ASSUME Over(k) \/ \E p \in Places \ {"reopen"} : GoTo(k, p)
      PROVE  call'[k].at # "reopen"
  BY <1>1, <1>2, CallMoves, CallEnds
<1>3. ASSUME NEW p \in Places \ {"reopen"}, NEW g, GoWith(k, p, g)
      PROVE  call'[k].at # "reopen"
  <2>1. call \in [Calls -> [at : Places, gateway : Gateways \cup {None}]]
    BY <1>1 DEF Typing
  <2> QED
    BY <1>3, <2>1 DEF GoWith
<1>4. CASE PipeOpens(k) \/ PipeFails(k) \/ CompositionStarts(k) \/ Undone(k)
  <2>1. own' = own /\ Active(k)
    BY <1>4 DEF PipeOpens, PipeFails, CompositionStarts, Undone, GiveUp, At, Active
  <2>2. Over(k) \/ \E p \in {"undo", "compose", "drop"} : GoTo(k, p)
    BY <1>4 DEF PipeOpens, PipeFails, CompositionStarts, Undone, GiveUp
  <2> QED
    BY <1>2, <2>1, <2>2 DEF Places
<1>5. CASE Quiesced(k) \/ CleanUp(k)
  <2>1. own' = own /\ Active(k)
    BY <1>5 DEF Quiesced, CleanUp, BeginStop, At, Active
  <2>2. GoTo(k, "close") \/ GoTo(k, "quiesce") \/ GoWith(k, "stop", own)
    BY <1>5 DEF Quiesced, CleanUp, BeginStop
  <2> QED
    BY <1>2, <1>3, <2>1, <2>2 DEF Places
<1>6. CASE CompositionStops(k) \/ InstallFails(k)
  <2>1. own' = own /\ Active(k)
    BY <1>6 DEF CompositionStops, InstallFails, At, Active
  <2>2. GoTo(k, "close") \/ Over(k) \/ GoWith(k, "recover", None)
    BY <1>6 DEF CompositionStops, InstallFails, Fails
  <2> QED
    BY <1>2, <1>3, <2>1, <2>2 DEF Places
<1>7. CASE Dropped(k) \/ Closed(k)
  <2>1. own' = None /\ Active(k)
    BY <1>7 DEF Dropped, Closed, At, Active
  <2>2. Over(k) \/ GoWith(k, "stopped", None) \/ GoWith(k, "installing", None)
    BY <1>7 DEF Dropped, Closed
  <2> QED
    BY <1>2, <1>3, <1>7, <2>1, <2>2 DEF Places
<1>8. CASE StartAgain(k) \/ Reopen(k)
  <2>1. /\ Active(k)
        /\ \/ StartFrom(k, own, own, gateway)
           \/ StartFrom(k, None, None, StoreClosed(gateway)) /\ Reopen(k)
    BY <1>1, <1>8 DEF StartAgain, Reopen, At, Active
  <2>2. /\ Over(k) \/ GoWith(k, "pipe", made')
        /\ \/ own' = own
           \/ own' = None /\ Reopen(k)
           \/ own' = made + 1 /\ (own = None \/ Reopen(k))
    BY <2>1 DEF StartFrom
  <2> QED
    BY <1>2, <1>3, <2>1, <2>2 DEF Places
<1>9. CASE HealthStops(k) \/ Granted(k) \/ Refused(k) \/ AgentStops(k) \/ AgentStarts(k)
  <2>1. own' = own /\ Active(k)
    BY <1>9 DEF HealthStops, Granted, Refused, AgentStops, AgentStarts, At, Active
  <2>2. Over(k) \/ GoTo(k, "relaunch") \/ GoWith(k, "down", own)
    BY <1>9 DEF HealthStops, Granted, Refused, AgentStops, AgentStarts, AgentFails
  <2> QED
    BY <1>2, <1>3, <2>1, <2>2 DEF Places
<1>10. CASE GiveUpdateUp(k) \/ Installs(k) \/ RecoveryFails(k)
  BY <1>2, <1>10 DEF GiveUpdateUp, Installs, RecoveryFails, At, Active
<1>11. CASE Recover(k)
  BY <1>11 DEF Recover, At, Active
<1> QED
  BY <1>4, <1>5, <1>6, <1>7, <1>8, <1>9, <1>10, <1>11 DEF Proceeds

\* A call that has stopped the gateway it works on starts nothing of it.
LEMMA WorkersEase ==
    ASSUME DesktopGatewayAssumption, GatewayInv, LossInv, NEW k \in Calls, Proceeds(k), ~crossed,
           own # None, own' = own, WorksOn(k, own), gateway[own].closing = "done"
    PROVE  EasesAll(gateway')
<1>1. /\ tools = own /\ own \in Gateways /\ own <= made /\ Active(k) /\ made \in Nat
      /\ call[k].gateway = own /\ call[k].at \notin OnTheAgent
  BY LossFacts, OwnMoves DEF WorksOn
<1>2. call[k].at \notin {"pipe", "compose"}
  BY <1>1, CallFacts DEF OwnSuits, OwnAt
<1>3. \/ Undone(k) \/ Dropped(k) \/ Quiesced(k) \/ CompositionStops(k) \/ Closed(k)
      \/ StartAgain(k) \/ GiveUpdateUp(k) \/ CleanUp(k) \/ Installs(k) \/ InstallFails(k)
      \/ Recover(k) \/ RecoveryFails(k) \/ Reopen(k)
  BY <1>1, <1>2 DEF Proceeds, PipeOpens, PipeFails, CompositionStarts, HealthStops, Granted,
     Refused, AgentStops, AgentStarts, At, OnTheAgent
<1>4. CASE Undone(k) \/ Quiesced(k) \/ CompositionStops(k)
  <2>1. gateway' \in {gateway, Quieted(gateway), Closing(gateway, own)}
    BY <1>4 DEF Undone, Quiesced, CompositionStops
  <2> QED
    BY <1>1, <2>1, Easing
<1>5. CASE GiveUpdateUp(k) \/ CleanUp(k) \/ Installs(k) \/ InstallFails(k) \/ Recover(k)
           \/ RecoveryFails(k)
  <2>1. gateway' \in {gateway, Quieted(gateway)}
    BY <1>5 DEF GiveUpdateUp, CleanUp, BeginStop, Installs, InstallFails, Recover, RecoveryFails
  <2> QED
    BY <2>1, Easing
<1>6. CASE StartAgain(k)
  <2>1. gateway' = gateway
    BY <1>6 DEF StartAgain, StartFrom
  <2> QED
    BY <2>1, Easing
<1>7. CASE Dropped(k) \/ Closed(k)
  BY <1>7 DEF Dropped, Closed
<1>8. CASE Reopen(k)
  <2>1. own' = None \/ own' = made + 1
    BY <1>8 DEF Reopen, StartFrom
  <2>2. own \in Nat
    BY <1>1 DEF Gateways
  <2> QED
    BY <1>1, <2>1, <2>2
<1> QED
  BY <1>3, <1>4, <1>5, <1>6, <1>7, <1>8

\* A step of a call that runs beside none loses no gateway.
LEMMA ProceedsSpares ==
    ASSUME DesktopGatewayAssumption, GatewayInv, GatewayInv', LossInv, NEW k \in Calls,
           Proceeds(k), ~crossed, ~crossed'
    PROVE  LetGo(k) = {} /\ Revived = {}
<1>1. /\ own \in Gateways \cup {None} /\ own' \in Gateways \cup {None} /\ Active(k)
      /\ Uncrossed /\ Uncrossed' /\ Works(k) /\ made \in Nat
  BY LossFacts, OwnMoves, Types DEF GatewayInv, Uncrossed, Typing
<1>2. LetGo(k) = {}
  <2>1. ASSUME own # None, own' # own PROVE own = call[k].gateway
    <3>1. Dropped(k) \/ Closed(k) \/ Reopen(k)
      BY <2>1, OwnMoves
    <3>2. call[k].at \in {"drop", "close", "reopen"}
      BY <3>1 DEF Dropped, Closed, Reopen, At
    <3> QED
      BY <1>1, <3>2 DEF Works, WithGateway
  <2>2. ASSUME own # None, call'[k].at = "reopen" PROVE gateway[own].closing = "done"
    <3>1. call[k].at = "recover"
      BY <2>2, OwnMoves DEF Recover, At
    <3> QED
      BY <1>1, <2>2, <3>1 DEF Uncrossed, OwnFits, OwnAt
  <2> QED
    BY <2>1, <2>2 DEF LetGo
<1>3. ASSUME NEW g \in Gateways, g \in Revived PROVE FALSE
  <2>1. /\ gateway[g].closing = "done" /\ (g # own \/ \E j \in Calls : WorksOn(j, g))
        /\ \/ ~gateway[g].ticking /\ gateway'[g].ticking
           \/ gateway[g].child # "alive" /\ gateway'[g].child = "alive"
    BY <1>3 DEF Revived
  <2>2. g = own'
    <3>1. SUFFICES ASSUME g # own' PROVE FALSE
      OBVIOUS
    <3>2. Gone(gateway'[g])
      BY <1>1, <3>1 DEF Uncrossed
    <3> QED
      BY <2>1, <3>2 DEF Gone
  <2>3. g = own
    <3>1. SUFFICES ASSUME g # own PROVE FALSE
      OBVIOUS
    <3>2. g = made + 1
      BY <2>2, <3>1, OwnMoves, Indices
    <3>3. Blank(gateway[g])
      BY <1>1, <3>2 DEF LossInv, Numbered
    <3> QED
      BY <2>1, <3>3 DEF Blank
  <2>4. PICK j \in Calls : WorksOn(j, own)
    BY <2>1, <2>3
  <2>5. own # None
    BY <2>3, Indices
  <2>6. j = k
    <3>1. Active(j) /\ call[j].at \notin OnTheAgent
      BY <1>1, <2>4, <2>5 DEF WorksOn, Uncrossed, Works
    <3> QED
      BY <1>1, <3>1 DEF Uncrossed, Alone
  <2>7. EasesAll(gateway')
    BY <2>1, <2>2, <2>3, <2>4, <2>5, <2>6, WorkersEase
  <2> QED
    BY <2>1, <2>7 DEF EasesAll, Eases
<1>4. Revived = {}
  BY <1>3 DEF Revived
<1> QED
  BY <1>2, <1>4

\* Nor does any other step.
LEMMA NextSpares ==
    ASSUME DesktopGatewayAssumption, GatewayInv, GatewayInv', LossInv, Unlost, Next
    PROVE  Unlost'
<1>1. ASSUME NEW k \in Calls, Begin(k), UNCHANGED stray PROVE Unlost'
  <2>1. crossed' = (crossed \/ Crosses(k)) /\ crossed \in BOOLEAN
    BY <1>1, Types DEF Begin, GatewayInv
  <2> QED
    BY <1>1, <2>1 DEF Unlost
<1>2. ASSUME NEW k \in Calls, UNCHANGED crossed, Proceeds(k), Loses(k) PROVE Unlost'
  BY <1>2, ProceedsSpares DEF Unlost, Loses
<1>3. ASSUME UNCHANGED <<crossed, stray>> PROVE Unlost'
  BY <1>3 DEF Unlost
<1> QED
  BY <1>1, <1>2, <1>3 DEF Next, Loses

-----------------------------------------------------------------------------
\* The invariant has the properties.
LEMMA GatewayFacts ==
    ASSUME DesktopGatewayAssumption, GatewayInv, LossInv, Unlost
    PROVE  TypeOK /\ NoStrays /\ InstallsAtRest /\ HealthTells
<1>1. TypeOK
  BY DEF GatewayInv, Typing, Records, LossInv, Numbered, TypeOK
<1>2. \A g \in Gateways \ stray : g # own => Left(g)
  <2>1. SUFFICES ASSUME NEW g \in Gateways \ stray, g # own PROVE Left(g)
    OBVIOUS
  <2>2. CASE g <= made
    BY <2>1, <2>2 DEF LossInv, NoneLost, GivenUp, Gone, Left, Quiet, Unconfirmed
  <2>3. CASE ~(g <= made)
    <3>1. g > made
      BY <2>3, Types DEF Gateways, GatewayInv
    <3> QED
      BY <3>1 DEF LossInv, Numbered, Blank, Left, Quiet
  <2> QED
    BY <2>2, <2>3
<1>3. NoStrays
  BY <1>2 DEF NoStrays, Unlost
<1>4. InstallsAtRest
  BY <1>2, Indices DEF InstallsAtRest, At, LossInv, FenceHolds
<1>5. HealthTells
  <2>1. health = "stopped" => \A g \in Gateways \ stray : Left(g)
    BY <1>2, Indices DEF GatewayInv, FieldsAgree
  <2>2. ASSUME Idle, ~crossed, health = "ready"
        PROVE  own # None /\ (Serves(own) \/ gateway[own].trouble)
    <3>1. Uncrossed
      BY <2>2 DEF GatewayInv
    <3>2. \A k \in Calls : call[k].at \in Calm
      BY <2>2 DEF Idle, Calm
    <3>3. own # None => Settled(gateway[own])
      BY <3>1, <3>2 DEF Uncrossed, OwnFits
    <3> QED
      BY <2>2, <3>1, <3>3 DEF Uncrossed, Tells, Settled, Serves
  <2> QED
    BY <2>1, <2>2 DEF HealthTells
<1> QED
  BY <1>1, <1>3, <1>4, <1>5

\* Whatever calls overlap and whatever fails: nothing runs of a gateway that was given up, an
\* installer finds nothing running and "stopped" is nothing at all, but for the gateways that
\* are lost in the two ways the history names; none is lost, and "ready" is true between
\* calls, as long as no calls ran beside each other but to look after the agent.
THEOREM GatewaysAreKept ==
    ASSUME DesktopGatewayAssumption
    PROVE  Spec => [](TypeOK /\ NoStrays /\ InstallsAtRest /\ HealthTells)
<1>1. Init => GatewayInv /\ LossInv /\ Unlost
  BY InitGateways, InitLoses DEF Init, Unlost
<1>2. GatewayInv /\ LossInv /\ Unlost /\ [Next]_vars => GatewayInv' /\ LossInv' /\ Unlost'
  <2>1. SUFFICES ASSUME GatewayInv, LossInv, Unlost, [Next]_vars
                 PROVE  GatewayInv' /\ LossInv' /\ Unlost'
    OBVIOUS
  <2>2. CASE Next
    BY <2>1, <2>2, NextKeeps, NextLoses, NextSpares
  <2>3. CASE UNCHANGED vars
    BY <2>1, <2>3, StutteringKeeps, StutteringLoses DEF Unlost, vars
  <2> QED
    BY <2>1, <2>2, <2>3
<1>3. GatewayInv /\ LossInv /\ Unlost => TypeOK /\ NoStrays /\ InstallsAtRest /\ HealthTells
  BY GatewayFacts
<1> QED
  BY <1>1, <1>2, <1>3, PTL DEF Spec

-----------------------------------------------------------------------------
(***************************************************************************)
(* The start and the stop of one gateway, GatewayLifecycle, for any number *)
(* of runs and of failures and deadlines that pass.                        *)
(*                                                                         *)
(* The argument: a teardown asks for the stop of whatever was tried, and   *)
(* what it has passed stays down.  What start() still brings up after that *)
(* is remembered in a field, so that the teardown that follows finds it:   *)
(* the second one of a stop() that met a start(), or the one with which a  *)
(* start() that fails cleans up.  The agent does not come back once it was *)
(* told to stop; and the adapter of a channel is wanted exactly while the  *)
(* registry has it as started, so what it does later comes to nothing.     *)
(***************************************************************************)
CONSTANTS MaxRuns, MaxTroubles

VARIABLES start, halt, joined, flags, teardown, waits, stopping, errors, agent, manual,
          current, runs, hung, dispatch, heartbeat, registry, adapter, restart, conn, troubles

\* The start and the stop of one gateway.
Life == INSTANCE GatewayLifecycle WITH
    MaxFaults <- MaxTroubles, stop <- halt, run <- current, faults <- troubles

\* The fields in their ranges.
PhasesShape ==
    /\ start \in {"none", "state", "runtime", "channels", "started", "cleanup", "failed"}
    /\ halt \in {"none", "first", "startup", "second", "done"}
    /\ joined \in BOOLEAN /\ dispatch \in BOOLEAN /\ heartbeat \in BOOLEAN /\ manual \in BOOLEAN
    /\ runs \in 0..MaxRuns
FlagsShape == flags \in [channels : BOOLEAN, heartbeat : BOOLEAN, accepting : BOOLEAN,
                         started : BOOLEAN, shutdown : BOOLEAN]
TeardownsShape ==
    /\ teardown \in [Life!Teardowns -> {"none", "begin", "channels", "heartbeat", "runs",
                                             "runtime", "done"}]
    /\ stopping \in [Life!Teardowns -> {"none", "runs", "agent", "done", "failed"}]
RegistryShape == registry \in [desired : BOOLEAN, started : BOOLEAN,
                               start : {"none", "adapter", "adapter.stop", "ok", "error"},
                               stop : {"none", "start", "adapter.stop"}]
AdapterShape == adapter \in [desired : BOOLEAN, ready : BOOLEAN, sdk : BOOLEAN,
                             start : {"none", "connecting", "done", "failed"},
                             stop : {"none", "restart", "graceful", "forced"}]
RestartShape == restart \in [running : BOOLEAN, timer : BOOLEAN,
                             attempt : {"none", "closing", "opening"}]

\* start() has not come to the channels.
Early == start \in {"none", "state", "runtime"}

\* stop() tears down once, waits for a start() it found, and then tears down once more.
StopsInOrder ==
    /\ flags.shutdown <=> halt # "none"
    /\ teardown["first"] = "none" <=> halt = "none"
    /\ halt \notin {"none", "first"} => teardown["first"] = "done"
    /\ teardown["second"] = "none" <=> halt \notin {"second", "done"} \/ ~joined
    /\ halt \in {"startup", "second"} => joined
    /\ halt = "done" /\ joined => teardown["second"] = "done"

\* A start() that fails by itself tears down what it did, and one that stop() meets leaves it
\* to stop(), which waits for it.
StartsSettle ==
    /\ start \in {"failed", "cleanup"} \/ teardown["cleanup"] = "none"
    /\ start = "cleanup" => teardown["cleanup"] # "none"
    /\ start = "failed" /\ ~flags.shutdown => teardown["cleanup"] = "done"
    /\ flags.shutdown /\ ~joined => Life!StartSettled
    /\ halt \in {"second", "done"} /\ joined /\ "startup" \notin errors => Life!StartSettled

\* A teardown calls the stop of the runtime in its last step, and has its answer or an error.
RuntimeAsked(t) ==
    /\ stopping[t] # "none" <=> teardown[t] \in {"runtime", "done"}
    /\ teardown[t] = "done" /\ t \notin errors => stopping[t] = "done"

\* What is called after the channels is called in order, too.
FieldsFollow ==
    /\ heartbeat => flags.heartbeat
    /\ flags.started => start = "started"
    /\ flags.accepting => ~flags.shutdown /\ start \notin {"cleanup", "failed"}
    /\ Early => ~flags.channels /\ ~flags.heartbeat

\* A teardown leaves nothing on that it has passed.
FieldsCleared(t) ==
    /\ teardown[t] \in {"runs", "runtime", "done"} => ~heartbeat
    /\ teardown[t] = "done" => ~flags.started

\* The agent has runs while it is up, and once it was told to stop it does not come back.
AgentFollows ==
    /\ start \in {"none", "state"} => agent = "down"
    /\ dispatch \/ current # 0 => agent = "up"
    /\ \A t \in Life!Teardowns :
          /\ stopping[t] \in {"agent", "done", "failed"} => manual
          /\ stopping[t] = "done" => agent = "down"

\* The registry knows whether the adapter was started, and the adapter is stopped on behalf of
\* it; what the adapter opened is closed by the time its stop has ended.
AdapterFollows ==
    /\ registry.started <=> adapter.desired
    /\ registry.started => adapter.sdk /\ adapter.stop = "none"
    /\ adapter.stop = "restart" => adapter.sdk
    /\ ~adapter.desired => ~adapter.ready /\ ~restart.running /\ ~restart.timer
    /\ ~adapter.desired /\ adapter.stop = "none" => conn = "closed"

\* A start and a stop of the registry stand where the adapter is.
RegistryFollows ==
    /\ registry.start = "adapter" => registry.started
    /\ registry.start \in {"none", "adapter.stop", "error"} => ~registry.started
    /\ registry.stop = "adapter.stop" => registry.start = "ok" /\ ~registry.started
    /\ adapter.stop # "none" => "adapter.stop" \in {registry.start, registry.stop}
    /\ Early => registry.start = "none" /\ registry.stop = "none"

TeardownsFollow == \A t \in Life!Teardowns : RuntimeAsked(t) /\ FieldsCleared(t)

\* Nothing of the channel is up, or will be.
Stilled == ~registry.started /\ adapter.stop = "none"

\* The channel was stopped, or somebody was asked to.
StopAsked == registry.stop # "none" \/ ~registry.started

\* A teardown that has passed the channels has asked for their stop, and where it recorded no
\* error it saw its end.
ChannelsAsked(t) ==
    /\ teardown[t] \notin {"none", "begin"} => StopAsked
    /\ teardown[t] = "channels" => ~Early
    /\ teardown[t] = "channels" /\ registry.stop = "none" =>
          registry.start \notin {"adapter", "adapter.stop"}
    /\ t \in {"first", "second"} /\ t \notin errors
       /\ teardown[t] \in {"heartbeat", "runs", "runtime", "done"} => Stilled

ChannelsStop == \A t \in Life!Teardowns : ChannelsAsked(t)

\* The channel is still when start() tears down, and where nobody remembers that it was tried,
\* but for the teardown that forgets it.
ChannelsRemembered ==
    /\ teardown["cleanup"] # "none" => Stilled
    /\ ~flags.channels => StopAsked
    /\ ~flags.channels => \/ Stilled
                          \/ ~joined /\ teardown["first"] \in {"runs", "runtime", "done"}
                          \/ teardown["second"] \in {"runs", "runtime", "done"}

\* The inductive invariant.
LifecycleInv ==
    /\ Life!TypeOK /\ PhasesShape /\ FlagsShape /\ TeardownsShape
    /\ RegistryShape /\ AdapterShape /\ RestartShape
    /\ StopsInOrder /\ StartsSettle /\ FieldsFollow /\ TeardownsFollow /\ AgentFollows
    /\ AdapterFollows /\ RegistryFollows /\ ChannelsStop /\ ChannelsRemembered

-----------------------------------------------------------------------------
\* Every action of GatewayLifecycle keeps the invariant.

\* The start() begins.
LEMMA KeepsStart ==
    ASSUME MaxRuns \in Nat, MaxTroubles \in Nat, LifecycleInv, Life!Start
    PROVE  LifecycleInv'
<1>1. /\ Life!TypeOK' /\ FlagsShape' /\ TeardownsShape' /\ RegistryShape' /\ AdapterShape'
      /\ RestartShape' /\ StopsInOrder' /\ TeardownsFollow' /\ AdapterFollows'
      /\ ChannelsRemembered'
  BY DEF LifecycleInv, Life!Start, Life!stopVars, Life!agentVars,
     Life!channelVars, Life!TypeOK, FlagsShape, TeardownsShape, RegistryShape,
     AdapterShape, RestartShape, StopsInOrder, TeardownsFollow, RuntimeAsked, FieldsCleared,
     AdapterFollows, ChannelsRemembered, StopAsked, Stilled
<1>2. PhasesShape' /\ StartsSettle' /\ FieldsFollow' /\ AgentFollows'
  BY DEF LifecycleInv, Life!Start, Life!stopVars, Life!agentVars, PhasesShape,
     StopsInOrder, StartsSettle, FieldsFollow, Early, AgentFollows
<1>3. RegistryFollows' /\ ChannelsStop'
  BY DEF LifecycleInv, Life!Start, Life!stopVars, Life!channelVars, Early,
     RegistryFollows, ChannelsStop, ChannelsAsked, StopAsked, Stilled
<1> QED
  BY <1>1, <1>2, <1>3 DEF LifecycleInv

\* The state of the gateway can be used, or not, or a stop() has come.
LEMMA KeepsStateUsable ==
    ASSUME MaxRuns \in Nat, MaxTroubles \in Nat, LifecycleInv, Life!StateUsable
    PROVE  LifecycleInv'
<1>1. RegistryShape' /\ AdapterShape' /\ RestartShape' /\ AdapterFollows'
  BY DEF LifecycleInv, Life!StateUsable, Life!channelVars, RegistryShape,
     AdapterShape, RestartShape, AdapterFollows
<1>2. CASE start' = "runtime"
  <2>1. Life!TypeOK'
    BY <1>2 DEF LifecycleInv, Life!StateUsable, Life!NoFault, Life!Fault,
       Life!channelVars, Life!TypeOK
  <2>2. PhasesShape'
    BY <1>2 DEF LifecycleInv, Life!StateUsable, Life!NoFault, Life!Fault,
       Life!Failed, Life!channelVars, PhasesShape
  <2>3. FlagsShape' /\ TeardownsShape'
    BY <1>2 DEF LifecycleInv, Life!StateUsable, Life!Failed, FlagsShape,
       TeardownsShape
  <2>4. StopsInOrder' /\ StartsSettle' /\ FieldsFollow' /\ TeardownsFollow'
    BY <1>2 DEF LifecycleInv, Life!StateUsable, Life!Failed, StopsInOrder,
       StartsSettle, Life!StartSettled, FieldsFollow, Early, TeardownsFollow,
       RuntimeAsked, FieldsCleared
  <2>5. AgentFollows' /\ RegistryFollows'
    BY <1>2 DEF LifecycleInv, Life!StateUsable, Life!channelVars, StopsInOrder,
       StartsSettle, Early, TeardownsFollow, RuntimeAsked, AgentFollows, RegistryFollows,
       Life!Teardowns
  <2>6. ChannelsStop' /\ ChannelsRemembered'
    BY <1>2 DEF LifecycleInv, Life!StateUsable, Life!Failed, Life!channelVars,
       Early, ChannelsStop, ChannelsAsked, StopAsked, Stilled, ChannelsRemembered
  <2> QED
    BY <1>1, <2>1, <2>2, <2>3, <2>4, <2>5, <2>6 DEF LifecycleInv
<1>3. CASE start' = "failed"
  <2>1. Life!TypeOK' /\ PhasesShape'
    BY <1>3 DEF LifecycleInv, Life!StateUsable, Life!NoFault, Life!Fault,
       Life!channelVars, Life!TypeOK, PhasesShape
  <2>2. FlagsShape'
    BY <1>3 DEF LifecycleInv, Life!StateUsable, Life!NoFault, Life!Fault,
       Life!Failed, Life!channelVars, FlagsShape
  <2>3. TeardownsShape' /\ StopsInOrder' /\ StartsSettle'
    BY <1>3 DEF LifecycleInv, Life!StateUsable, Life!Failed, FlagsShape,
       TeardownsShape, StopsInOrder, StartsSettle, Life!StartSettled
  <2>4. FieldsFollow' /\ TeardownsFollow' /\ AgentFollows' /\ RegistryFollows'
    BY <1>3 DEF LifecycleInv, Life!StateUsable, Life!Failed, Life!channelVars,
       FlagsShape, FieldsFollow, Early, TeardownsFollow, RuntimeAsked, FieldsCleared,
       AgentFollows, RegistryFollows
  <2>5. ChannelsStop' /\ ChannelsRemembered'
    BY <1>3 DEF LifecycleInv, Life!StateUsable, Life!Failed, Life!channelVars,
       FlagsShape, Early, ChannelsStop, ChannelsAsked, StopAsked, Stilled, ChannelsRemembered
  <2> QED
    BY <1>1, <2>1, <2>2, <2>3, <2>4, <2>5 DEF LifecycleInv
<1>4. CASE start' = "cleanup"
  <2>1. Life!TypeOK' /\ PhasesShape'
    BY <1>4 DEF LifecycleInv, Life!StateUsable, Life!NoFault, Life!Fault,
       Life!channelVars, Life!TypeOK, PhasesShape
  <2>2. FlagsShape'
    BY <1>4 DEF LifecycleInv, Life!StateUsable, Life!NoFault, Life!Fault,
       Life!Failed, Life!channelVars, FlagsShape
  <2>3. TeardownsShape' /\ StopsInOrder' /\ StartsSettle'
    BY <1>4 DEF LifecycleInv, Life!StateUsable, Life!Failed, FlagsShape,
       TeardownsShape, StopsInOrder, StartsSettle, Life!StartSettled, Life!Teardowns
  <2>4. FieldsFollow' /\ TeardownsFollow'
    BY <1>4 DEF LifecycleInv, Life!StateUsable, Life!Failed, FlagsShape,
       TeardownsShape, StartsSettle, FieldsFollow, Early, TeardownsFollow, RuntimeAsked,
       FieldsCleared
  <2>5. AgentFollows' /\ RegistryFollows'
    BY <1>4 DEF LifecycleInv, Life!StateUsable, Life!channelVars, Early,
       AgentFollows, RegistryFollows
  <2>6. ChannelsStop' /\ ChannelsRemembered'
    BY <1>4 DEF LifecycleInv, Life!StateUsable, Life!Failed, Life!channelVars,
       TeardownsShape, StopsInOrder, FieldsFollow, Early, ChannelsStop, ChannelsAsked,
       StopAsked, Stilled, ChannelsRemembered
  <2> QED
    BY <1>1, <2>1, <2>2, <2>3, <2>4, <2>5, <2>6 DEF LifecycleInv
<1> QED
  BY <1>2, <1>3, <1>4 DEF Life!StateUsable, Life!NoFault, Life!Fault,
     Life!Failed

\* The agent is up or has failed to come up: the channels are started, or start() fails.
LEMMA KeepsRuntimeStarted ==
    ASSUME MaxRuns \in Nat, MaxTroubles \in Nat, LifecycleInv, Life!RuntimeStarted
    PROVE  LifecycleInv'
<1>1. RestartShape'
  BY DEF LifecycleInv, Life!RuntimeStarted, Life!channelVars, Life!StartAll,
     RestartShape
<1>2. CASE agent = "up" /\ ~flags.shutdown
  <2>r. /\ start' = "channels" /\ teardown' = teardown /\ flags'.channels /\ registry'.started
        /\ adapter'.desired /\ adapter'.sdk /\ adapter'.stop = adapter.stop
    BY <1>2 DEF LifecycleInv, Life!RuntimeStarted, Life!StartAll, FlagsShape,
       RegistryShape,
       AdapterShape
  <2>1. Life!TypeOK' /\ PhasesShape'
    BY <1>2 DEF LifecycleInv, Life!RuntimeStarted, Life!StartAll, Life!TypeOK,
       PhasesShape
  <2>2. FlagsShape'
    BY <1>2 DEF LifecycleInv, Life!RuntimeStarted, Life!Failed, Life!StartAll,
       Life!channelVars, FlagsShape
  <2>3. TeardownsShape'
    BY <1>2 DEF LifecycleInv, Life!RuntimeStarted, TeardownsShape
  <2>4. RegistryShape'
    BY <1>2 DEF LifecycleInv, Life!RuntimeStarted, Life!Failed, Life!StartAll,
       Life!channelVars, RegistryShape
  <2>5. AdapterShape'
    BY <1>2 DEF LifecycleInv, Life!RuntimeStarted, Life!Failed, Life!StartAll,
       Life!channelVars, AdapterShape
  <2>6. StopsInOrder'
    BY <1>2 DEF LifecycleInv, Life!RuntimeStarted, Life!Failed, Life!StartAll,
       Life!channelVars, PhasesShape, FlagsShape, TeardownsShape, StopsInOrder,
       Life!Teardowns
  <2>7. StartsSettle'
    BY <1>2 DEF LifecycleInv, Life!RuntimeStarted, Life!Failed, Life!StartAll,
       Life!channelVars, Life!TypeOK, PhasesShape, FlagsShape, TeardownsShape,
       StartsSettle, Life!StartSettled, Life!Teardowns
  <2>8. FieldsFollow'
    BY <1>2 DEF LifecycleInv, Life!RuntimeStarted, Life!Failed, Life!StartAll,
       Life!channelVars, PhasesShape, FlagsShape, FieldsFollow, Early
  <2>9. TeardownsFollow' /\ AgentFollows'
    BY <1>2 DEF LifecycleInv, Life!RuntimeStarted, StopsInOrder, StartsSettle,
       TeardownsFollow, RuntimeAsked, FieldsCleared, AgentFollows, Life!Teardowns
  <2>10. AdapterFollows'
    BY <1>2, <2>r DEF LifecycleInv, Life!RuntimeStarted, AdapterFollows, RegistryFollows,
       Early
  <2>11. RegistryFollows'
    BY <1>2 DEF LifecycleInv, Life!RuntimeStarted, Life!Failed, Life!StartAll,
       Life!channelVars, PhasesShape, RegistryShape, AdapterShape, RegistryFollows, Early
  <2>12. ChannelsStop'
    BY <1>2 DEF LifecycleInv, Life!RuntimeStarted, StopsInOrder, StartsSettle,
       ChannelsStop, ChannelsAsked, Life!Teardowns
  <2>13. ChannelsRemembered'
    BY <1>2, <2>r DEF LifecycleInv, Life!RuntimeStarted, StartsSettle, ChannelsRemembered
  <2> QED
    BY <1>1, <2>1, <2>2, <2>3, <2>4, <2>5, <2>6, <2>7, <2>8, <2>9, <2>10, <2>11, <2>12, <2>13
       DEF LifecycleInv
<1>3. CASE agent # "up" /\ ~flags.shutdown
  <2>1. Life!TypeOK' /\ PhasesShape'
    BY <1>3 DEF LifecycleInv, Life!RuntimeStarted, Life!Failed,
       Life!channelVars, Life!TypeOK, PhasesShape
  <2>2. FlagsShape'
    BY <1>3 DEF LifecycleInv, Life!RuntimeStarted, Life!Failed, Life!StartAll,
       Life!channelVars, FlagsShape
  <2>3. TeardownsShape' /\ RegistryShape' /\ AdapterShape' /\ StopsInOrder' /\ StartsSettle'
    BY <1>3 DEF LifecycleInv, Life!RuntimeStarted, Life!Failed,
       Life!channelVars, FlagsShape, TeardownsShape, RegistryShape, AdapterShape,
       StopsInOrder, StartsSettle, Life!StartSettled, Life!Teardowns
  <2>4. FieldsFollow' /\ TeardownsFollow'
    BY <1>3 DEF LifecycleInv, Life!RuntimeStarted, Life!Failed, FlagsShape,
       TeardownsShape, StartsSettle, FieldsFollow, Early, TeardownsFollow, RuntimeAsked,
       FieldsCleared
  <2>5. AgentFollows'
    BY <1>3 DEF LifecycleInv, Life!RuntimeStarted, Life!Failed, Life!StartAll,
       Life!channelVars, AgentFollows, Life!Teardowns
  <2>6. AdapterFollows' /\ RegistryFollows' /\ ChannelsStop'
    BY <1>3 DEF LifecycleInv, Life!RuntimeStarted, Life!Failed,
       Life!channelVars, TeardownsShape, Early, AdapterFollows, RegistryFollows,
       ChannelsStop, ChannelsAsked, StopAsked, Stilled
  <2>7. ChannelsRemembered'
    BY <1>3 DEF LifecycleInv, Life!RuntimeStarted, Life!channelVars, StopsInOrder,
       FieldsFollow, Early, StopAsked, Stilled, ChannelsRemembered
  <2> QED
    BY <1>1, <2>1, <2>2, <2>3, <2>4, <2>5, <2>6, <2>7 DEF LifecycleInv
<1>4. CASE flags.shutdown
  <2>1. Life!TypeOK' /\ PhasesShape'
    BY <1>4 DEF LifecycleInv, Life!RuntimeStarted, Life!Failed,
       Life!channelVars, Life!TypeOK, PhasesShape
  <2>2. FlagsShape'
    BY <1>4 DEF LifecycleInv, Life!RuntimeStarted, Life!Failed, Life!StartAll,
       Life!channelVars, FlagsShape
  <2>3. TeardownsShape' /\ RegistryShape' /\ AdapterShape'
    BY <1>4 DEF LifecycleInv, Life!RuntimeStarted, Life!Failed,
       Life!channelVars, TeardownsShape, RegistryShape, AdapterShape
  <2>4. StopsInOrder' /\ StartsSettle' /\ FieldsFollow' /\ TeardownsFollow'
    BY <1>4 DEF LifecycleInv, Life!RuntimeStarted, Life!Failed, FlagsShape,
       StopsInOrder, StartsSettle, Life!StartSettled, FieldsFollow, Early,
       TeardownsFollow, RuntimeAsked, FieldsCleared
  <2>5. AgentFollows'
    BY <1>4 DEF LifecycleInv, Life!RuntimeStarted, Life!Failed, Life!StartAll,
       Life!channelVars, AgentFollows, Life!Teardowns
  <2>6. AdapterFollows' /\ RegistryFollows' /\ ChannelsStop' /\ ChannelsRemembered'
    BY <1>4 DEF LifecycleInv, Life!RuntimeStarted, Life!Failed,
       Life!channelVars, FlagsShape, Early, AdapterFollows, RegistryFollows, ChannelsStop,
       ChannelsAsked, StopAsked, Stilled, ChannelsRemembered
  <2> QED
    BY <1>1, <2>1, <2>2, <2>3, <2>4, <2>5, <2>6 DEF LifecycleInv
<1> QED
  BY <1>2, <1>3, <1>4 DEF Life!RuntimeStarted, Life!Failed, Life!StartAll

\* The channels are started: so is the gateway, unless a stop() has come.
LEMMA KeepsChannelsStarted ==
    ASSUME MaxRuns \in Nat, MaxTroubles \in Nat, LifecycleInv, Life!ChannelsStarted
    PROVE  LifecycleInv'
<1>1. Life!TypeOK' /\ RegistryShape' /\ AdapterShape' /\ RestartShape' /\ AdapterFollows'
  BY DEF LifecycleInv, Life!ChannelsStarted, Life!agentVars, Life!channelVars,
     Life!TypeOK, RegistryShape, AdapterShape, RestartShape, AdapterFollows
<1>2. PhasesShape'
  BY DEF LifecycleInv, Life!ChannelsStarted, Life!Failed, Life!agentVars,
     PhasesShape
<1>3. FlagsShape'
  BY DEF LifecycleInv, Life!ChannelsStarted, Life!Failed, Life!agentVars,
     Life!channelVars, FlagsShape
<1>4. TeardownsShape' /\ StopsInOrder' /\ StartsSettle' /\ FieldsFollow'
  BY DEF LifecycleInv, Life!ChannelsStarted, Life!Failed, Life!agentVars,
     FlagsShape, TeardownsShape, StopsInOrder, StartsSettle, Life!StartSettled,
     FieldsFollow, Early, Life!Teardowns
<1>5. TeardownsFollow' /\ AgentFollows'
  BY DEF LifecycleInv, Life!ChannelsStarted, Life!Failed, Life!agentVars,
     FlagsShape, TeardownsShape, StopsInOrder, StartsSettle, TeardownsFollow, RuntimeAsked,
     FieldsCleared, AgentFollows, Life!Teardowns
<1>6. RegistryFollows' /\ ChannelsStop' /\ ChannelsRemembered'
  BY DEF LifecycleInv, Life!ChannelsStarted, Life!Failed, Life!channelVars,
     FlagsShape, TeardownsShape, Early, RegistryFollows, ChannelsStop, ChannelsAsked,
     StopAsked, Stilled, ChannelsRemembered
<1> QED
  BY <1>1, <1>2, <1>3, <1>4, <1>5, <1>6 DEF LifecycleInv

\* The clean-up of a failed start() is over.
LEMMA KeepsCleanedUp ==
    ASSUME MaxRuns \in Nat, MaxTroubles \in Nat, LifecycleInv, Life!CleanedUp
    PROVE  LifecycleInv'
<1>1. /\ Life!TypeOK' /\ FlagsShape' /\ TeardownsShape' /\ RegistryShape' /\ AdapterShape'
      /\ RestartShape' /\ StopsInOrder' /\ TeardownsFollow' /\ AdapterFollows'
      /\ ChannelsRemembered'
  BY DEF LifecycleInv, Life!CleanedUp, Life!stopVars, Life!agentVars,
     Life!channelVars, Life!TypeOK, FlagsShape, TeardownsShape, RegistryShape,
     AdapterShape, RestartShape, StopsInOrder, TeardownsFollow, RuntimeAsked, FieldsCleared,
     AdapterFollows, ChannelsRemembered, StopAsked, Stilled
<1>2. PhasesShape' /\ StartsSettle' /\ FieldsFollow' /\ AgentFollows'
  BY DEF LifecycleInv, Life!CleanedUp, Life!stopVars, Life!agentVars,
     PhasesShape, StartsSettle, Life!StartSettled, FieldsFollow, Early, AgentFollows
<1>3. RegistryFollows' /\ ChannelsStop'
  BY DEF LifecycleInv, Life!CleanedUp, Life!stopVars, Life!channelVars, Early,
     RegistryFollows, ChannelsStop, ChannelsAsked, StopAsked, Stilled
<1> QED
  BY <1>1, <1>2, <1>3 DEF LifecycleInv

\* The stop() begins, wherever start() stands.
LEMMA KeepsStop ==
    ASSUME MaxRuns \in Nat, MaxTroubles \in Nat, LifecycleInv, Life!Stop
    PROVE  LifecycleInv'
<1>1. /\ Life!TypeOK' /\ RegistryShape' /\ AdapterShape' /\ RestartShape' /\ AgentFollows'
      /\ AdapterFollows' /\ RegistryFollows'
  BY DEF LifecycleInv, Life!Stop, Life!agentVars, Life!channelVars,
     Life!TypeOK, RegistryShape, AdapterShape, RestartShape, AgentFollows, AdapterFollows,
     RegistryFollows, Early
<1>2. PhasesShape'
  BY DEF LifecycleInv, Life!Stop, Life!agentVars, PhasesShape
<1>3. FlagsShape'
  BY DEF LifecycleInv, Life!Stop, Life!StartSettled, Life!agentVars,
     Life!channelVars, FlagsShape
<1>4. TeardownsShape' /\ StopsInOrder'
  BY DEF LifecycleInv, Life!Stop, Life!agentVars, TeardownsShape, StopsInOrder,
     Life!Teardowns
<1>5. StartsSettle'
  BY DEF LifecycleInv, Life!Stop, Life!StartSettled, Life!agentVars,
     Life!channelVars, Life!TypeOK, PhasesShape, FlagsShape, TeardownsShape,
     StartsSettle, Life!Teardowns
<1>6. FieldsFollow'
  BY DEF LifecycleInv, Life!Stop, FieldsFollow, Early
<1>7. TeardownsFollow' /\ ChannelsStop'
  BY DEF LifecycleInv, Life!Stop, Life!agentVars, Life!channelVars,
     StopsInOrder, Early, TeardownsFollow, RuntimeAsked, FieldsCleared, ChannelsStop,
     ChannelsAsked, StopAsked, Stilled
<1>8. ChannelsRemembered'
  BY DEF LifecycleInv, Life!Stop, Life!channelVars, StopsInOrder, StopAsked, Stilled,
     ChannelsRemembered
<1> QED
  BY <1>1, <1>2, <1>3, <1>4, <1>5, <1>6, <1>7, <1>8 DEF LifecycleInv

\* The first teardown is over.
LEMMA KeepsFirstDone ==
    ASSUME MaxRuns \in Nat, MaxTroubles \in Nat, LifecycleInv, Life!FirstDone
    PROVE  LifecycleInv'
<1>1. /\ Life!TypeOK' /\ FlagsShape' /\ TeardownsShape' /\ RegistryShape' /\ AdapterShape'
      /\ RestartShape' /\ FieldsFollow' /\ TeardownsFollow' /\ AgentFollows' /\ AdapterFollows'
      /\ RegistryFollows' /\ ChannelsStop' /\ ChannelsRemembered'
  BY DEF LifecycleInv, Life!FirstDone, Life!startVars, Life!agentVars,
     Life!channelVars, Life!TypeOK, FlagsShape, TeardownsShape, RegistryShape,
     AdapterShape, RestartShape, FieldsFollow, Early, TeardownsFollow, RuntimeAsked,
     FieldsCleared, AgentFollows, AdapterFollows, RegistryFollows, ChannelsStop, ChannelsAsked,
     StopAsked, Stilled, ChannelsRemembered
<1>2. PhasesShape' /\ StopsInOrder' /\ StartsSettle'
  BY DEF LifecycleInv, Life!FirstDone, Life!startVars, Life!agentVars,
     PhasesShape, StopsInOrder, StartsSettle, Life!StartSettled
<1> QED
  BY <1>1, <1>2 DEF LifecycleInv

\* The start() that stop() found has ended, or the wait for it has.
LEMMA KeepsStartupOver ==
    ASSUME MaxRuns \in Nat, MaxTroubles \in Nat, LifecycleInv, Life!StartupOver
    PROVE  LifecycleInv'
<1>1. /\ FlagsShape' /\ RegistryShape' /\ AdapterShape' /\ RestartShape' /\ FieldsFollow'
      /\ AgentFollows' /\ AdapterFollows' /\ RegistryFollows'
  BY DEF LifecycleInv, Life!StartupOver, Life!startVars, Life!agentVars,
     Life!channelVars, FlagsShape, RegistryShape, AdapterShape, RestartShape,
     FieldsFollow, Early, AgentFollows, AdapterFollows, RegistryFollows
<1>2. Life!TypeOK'
  <2>1. errors' \subseteq Life!Teardowns \cup {"startup"}
    BY DEF LifecycleInv, Life!StartupOver, Life!TypeOK
  <2>2. troubles' \in 0..MaxTroubles
    BY DEF LifecycleInv, Life!StartupOver, Life!NoFault, Life!Fault,
       Life!TypeOK
  <2> QED BY <2>1, <2>2 DEF LifecycleInv, Life!StartupOver, Life!agentVars,
             Life!channelVars, Life!TypeOK
<1>3. PhasesShape' /\ TeardownsShape' /\ StopsInOrder' /\ StartsSettle' /\ TeardownsFollow'
  BY DEF LifecycleInv, Life!StartupOver, Life!StartSettled, Life!startVars,
     Life!agentVars, PhasesShape, TeardownsShape, StopsInOrder, StartsSettle,
     TeardownsFollow, RuntimeAsked, FieldsCleared, Life!Teardowns
<1>4. ChannelsStop' /\ ChannelsRemembered'
  BY DEF LifecycleInv, Life!StartupOver, Life!startVars, Life!channelVars,
     StopsInOrder, Early, ChannelsStop, ChannelsAsked, StopAsked, Stilled, ChannelsRemembered
<1> QED
  BY <1>1, <1>2, <1>3, <1>4 DEF LifecycleInv

\* The second teardown is over.
LEMMA KeepsSecondDone ==
    ASSUME MaxRuns \in Nat, MaxTroubles \in Nat, LifecycleInv, Life!SecondDone
    PROVE  LifecycleInv'
<1>1. /\ Life!TypeOK' /\ FlagsShape' /\ TeardownsShape' /\ RegistryShape' /\ AdapterShape'
      /\ RestartShape' /\ FieldsFollow' /\ TeardownsFollow' /\ AgentFollows' /\ AdapterFollows'
      /\ RegistryFollows' /\ ChannelsStop' /\ ChannelsRemembered'
  BY DEF LifecycleInv, Life!SecondDone, Life!startVars, Life!agentVars,
     Life!channelVars, Life!TypeOK, FlagsShape, TeardownsShape, RegistryShape,
     AdapterShape, RestartShape, FieldsFollow, Early, TeardownsFollow, RuntimeAsked,
     FieldsCleared, AgentFollows, AdapterFollows, RegistryFollows, ChannelsStop, ChannelsAsked,
     StopAsked, Stilled, ChannelsRemembered
<1>2. PhasesShape' /\ StopsInOrder' /\ StartsSettle'
  BY DEF LifecycleInv, Life!SecondDone, Life!startVars, Life!agentVars,
     PhasesShape, StopsInOrder, StartsSettle, Life!StartSettled
<1> QED
  BY <1>1, <1>2 DEF LifecycleInv

\* A teardown asks the channels to stop, if they were tried.
LEMMA KeepsBeginTeardown ==
    ASSUME MaxRuns \in Nat, MaxTroubles \in Nat, LifecycleInv,
           NEW t \in Life!Teardowns, Life!BeginTeardown(t)
    PROVE  LifecycleInv'
<1>1. /\ Life!TypeOK' /\ PhasesShape' /\ FlagsShape' /\ AdapterShape' /\ RestartShape'
      /\ FieldsFollow' /\ AgentFollows'
  BY DEF LifecycleInv, Life!BeginTeardown, Life!startVars, Life!agentVars,
     Life!TypeOK, PhasesShape, FlagsShape, AdapterShape, RestartShape, FieldsFollow,
     Early, AgentFollows
<1>2. CASE flags.channels
  <2>r. /\ registry'.start = registry.start /\ registry'.started = registry.started
        /\ registry'.stop = IF registry.stop = "none" THEN "start" ELSE registry.stop
    BY <1>2 DEF LifecycleInv, Life!BeginTeardown, RegistryShape
  <2>1. TeardownsShape'
    BY <1>2 DEF LifecycleInv, Life!BeginTeardown, Life!agentVars, TeardownsShape
  <2>2. RegistryShape'
    BY <1>2 DEF LifecycleInv, Life!BeginTeardown, Life!startVars,
       Life!agentVars, RegistryShape, Life!Teardowns
  <2>3. StopsInOrder' /\ StartsSettle' /\ TeardownsFollow'
    BY <1>2 DEF LifecycleInv, Life!BeginTeardown, Life!startVars,
       Life!agentVars, TeardownsShape, StopsInOrder, StartsSettle, Life!StartSettled,
       TeardownsFollow, RuntimeAsked, FieldsCleared, Life!Teardowns
  <2>4. AdapterFollows'
    BY <1>2 DEF LifecycleInv, Life!BeginTeardown, Life!startVars,
       Life!agentVars, Life!TypeOK, RegistryShape, AdapterShape, RestartShape,
       AdapterFollows, Life!Teardowns
  <2>5. RegistryFollows'
    BY <1>2, <2>r DEF LifecycleInv, Life!BeginTeardown, Life!startVars,
       RegistryShape, FieldsFollow, RegistryFollows, Early
  <2>6. ChannelsStop'
    <3> SUFFICES ASSUME NEW s \in Life!Teardowns  PROVE ChannelsAsked(s)'
      BY DEF ChannelsStop
    <3>1. CASE s = t
      BY <1>2, <2>r, <3>1 DEF LifecycleInv, Life!BeginTeardown, Life!startVars,
         TeardownsShape, RegistryShape, FieldsFollow, ChannelsAsked, StopAsked, Early
    <3>2. CASE s # t
      BY <1>2, <2>r, <3>2 DEF LifecycleInv, Life!BeginTeardown, Life!startVars,
         TeardownsShape, RegistryShape, ChannelsStop, ChannelsAsked, StopAsked, Stilled, Early
    <3> QED BY <3>1, <3>2
  <2>7. ChannelsRemembered'
    BY <1>2, <2>r DEF LifecycleInv, Life!BeginTeardown, Life!startVars,
       TeardownsShape,
       ChannelsRemembered, Stilled, Life!Teardowns
  <2> QED
    BY <1>1, <2>1, <2>2, <2>3, <2>4, <2>5, <2>6, <2>7 DEF LifecycleInv
<1>3. CASE ~flags.channels
  <2>1. TeardownsShape' /\ RegistryShape' /\ StopsInOrder' /\ StartsSettle'
    BY <1>3 DEF LifecycleInv, Life!BeginTeardown, Life!startVars,
       Life!agentVars, TeardownsShape, RegistryShape, StopsInOrder, StartsSettle,
       Life!StartSettled, Life!Teardowns
  <2>2. TeardownsFollow' /\ AdapterFollows'
    BY <1>3 DEF LifecycleInv, Life!BeginTeardown, Life!startVars,
       Life!agentVars, TeardownsShape, TeardownsFollow, RuntimeAsked, FieldsCleared,
       AdapterFollows
  <2>3. RegistryFollows' /\ ChannelsStop' /\ ChannelsRemembered'
    BY <1>3 DEF LifecycleInv, Life!BeginTeardown, Life!startVars, TeardownsShape,
       StopsInOrder, Early, RegistryFollows, ChannelsStop, ChannelsAsked, StopAsked, Stilled,
       ChannelsRemembered, Life!Teardowns
  <2> QED
    BY <1>1, <2>1, <2>2, <2>3 DEF LifecycleInv
<1> QED
  BY <1>2, <1>3 DEF Life!BeginTeardown

\* The channels have stopped, or their deadline has passed.
LEMMA KeepsChannelsStopped ==
    ASSUME MaxRuns \in Nat, MaxTroubles \in Nat, LifecycleInv,
           NEW t \in Life!Teardowns, Life!ChannelsStopped(t)
    PROVE  LifecycleInv'
<1>1. /\ PhasesShape' /\ FlagsShape' /\ RegistryShape' /\ AdapterShape' /\ RestartShape'
      /\ FieldsFollow' /\ AgentFollows' /\ AdapterFollows' /\ RegistryFollows'
  BY DEF LifecycleInv, Life!ChannelsStopped, Life!startVars, Life!agentVars,
     Life!channelVars, PhasesShape, FlagsShape, RegistryShape, AdapterShape, RestartShape,
     FieldsFollow, Early, AgentFollows, AdapterFollows, RegistryFollows
<1>2. Life!TypeOK'
  <2>1. errors' \subseteq Life!Teardowns \cup {"startup"}
    BY DEF LifecycleInv, Life!ChannelsStopped, Life!StepEnds, Life!TypeOK
  <2>2. troubles' \in 0..MaxTroubles
    BY DEF LifecycleInv, Life!ChannelsStopped, Life!StepEnds, Life!NoFault,
           Life!Fault, Life!TypeOK
  <2> QED BY <2>1, <2>2 DEF LifecycleInv, Life!ChannelsStopped, Life!agentVars,
             Life!channelVars, Life!TypeOK
<1>3. TeardownsShape' /\ StopsInOrder' /\ StartsSettle' /\ TeardownsFollow'
  BY DEF LifecycleInv, Life!ChannelsStopped, Life!StepEnds, Life!startVars,
     Life!agentVars, TeardownsShape, StopsInOrder, StartsSettle, Life!StartSettled,
     TeardownsFollow, RuntimeAsked, FieldsCleared
<1>4. ChannelsStop' /\ ChannelsRemembered'
  BY DEF LifecycleInv, Life!ChannelsStopped, Life!StepEnds, Life!startVars,
     Life!channelVars, Early, RegistryFollows, ChannelsStop, ChannelsAsked, StopAsked,
     Stilled, ChannelsRemembered
<1> QED
  BY <1>1, <1>2, <1>3, <1>4 DEF LifecycleInv

\* The heartbeat and the dispatching end.
LEMMA KeepsQuieten ==
    ASSUME MaxRuns \in Nat, MaxTroubles \in Nat, LifecycleInv,
           NEW t \in Life!Teardowns, Life!Quieten(t)
    PROVE  LifecycleInv'
<1>1. /\ Life!TypeOK' /\ RegistryShape' /\ AdapterShape' /\ RestartShape'
      /\ AdapterFollows' /\ RegistryFollows'
  BY DEF LifecycleInv, Life!Quieten, Life!channelVars, Life!TypeOK,
     RegistryShape, AdapterShape, RestartShape, AdapterFollows, RegistryFollows, Early
<1>2. PhasesShape'
  BY DEF LifecycleInv, Life!Quieten, Life!channelVars, PhasesShape,
     Life!Teardowns
<1>3. FlagsShape'
  BY DEF LifecycleInv, Life!Quieten, Life!channelVars, FlagsShape,
     Life!Teardowns
<1>4. TeardownsShape' /\ StopsInOrder'
  BY DEF LifecycleInv, Life!Quieten, TeardownsShape, StopsInOrder
<1>5. StartsSettle' /\ FieldsFollow' /\ TeardownsFollow' /\ AgentFollows'
  BY DEF LifecycleInv, Life!Quieten, PhasesShape, FlagsShape, StartsSettle,
     Life!StartSettled, FieldsFollow, Early, TeardownsFollow, RuntimeAsked, FieldsCleared,
     AgentFollows
<1>6. ChannelsStop' /\ ChannelsRemembered'
  BY DEF LifecycleInv, Life!Quieten, Life!channelVars, PhasesShape, TeardownsShape,
     Early, ChannelsStop, ChannelsAsked, StopAsked, Stilled, ChannelsRemembered,
     Life!Teardowns
<1> QED
  BY <1>1, <1>2, <1>3, <1>4, <1>5, <1>6 DEF LifecycleInv

\* The active run has ended, or its deadline has passed, and the runtime is stopped.
LEMMA KeepsRunsFailed ==
    ASSUME MaxRuns \in Nat, MaxTroubles \in Nat, LifecycleInv,
           NEW t \in Life!Teardowns, Life!RunsFailed(t)
    PROVE  LifecycleInv'
<1>1. /\ FlagsShape' /\ RegistryShape' /\ AdapterShape' /\ RestartShape' /\ FieldsFollow'
      /\ AdapterFollows' /\ RegistryFollows'
  BY DEF LifecycleInv, Life!RunsFailed, Life!startVars, Life!channelVars,
     FlagsShape, RegistryShape, AdapterShape, RestartShape, FieldsFollow, Early,
     AdapterFollows, RegistryFollows
<1>2. Life!TypeOK'
  <2>1. errors' \subseteq Life!Teardowns \cup {"startup"}
    BY DEF LifecycleInv, Life!RunsFailed, Life!StepEnds, Life!TypeOK
  <2>2. troubles' \in 0..MaxTroubles
    BY DEF LifecycleInv, Life!RunsFailed, Life!StepEnds, Life!NoFault,
           Life!Fault, Life!TypeOK
  <2> QED BY <2>1, <2>2 DEF LifecycleInv, Life!RunsFailed, Life!channelVars,
             Life!TypeOK
<1>3. PhasesShape'
  BY DEF LifecycleInv, Life!RunsFailed, Life!StepEnds, Life!NoFault,
     Life!Fault, Life!startVars, Life!channelVars, PhasesShape,
     Life!Teardowns
<1>4. TeardownsShape' /\ StopsInOrder' /\ StartsSettle' /\ TeardownsFollow' /\ AgentFollows'
  BY DEF LifecycleInv, Life!RunsFailed, Life!StepEnds, Life!startVars,
     TeardownsShape, StopsInOrder, StartsSettle, Life!StartSettled, TeardownsFollow,
     RuntimeAsked, FieldsCleared, AgentFollows
<1>5. ChannelsStop' /\ ChannelsRemembered'
  BY DEF LifecycleInv, Life!RunsFailed, Life!StepEnds, Life!startVars,
     Life!channelVars, Early, ChannelsStop, ChannelsAsked, StopAsked, Stilled,
     ChannelsRemembered
<1> QED
  BY <1>1, <1>2, <1>3, <1>4, <1>5 DEF LifecycleInv

\* The stop of the runtime has waited for the runs it found.
LEMMA KeepsRunsSettled ==
    ASSUME MaxRuns \in Nat, MaxTroubles \in Nat, LifecycleInv,
           NEW t \in Life!Teardowns, Life!RunsSettled(t)
    PROVE  LifecycleInv'
<1>1. /\ Life!TypeOK' /\ FlagsShape' /\ RegistryShape' /\ AdapterShape' /\ RestartShape'
      /\ StopsInOrder' /\ StartsSettle' /\ FieldsFollow' /\ AdapterFollows' /\ RegistryFollows'
      /\ ChannelsStop' /\ ChannelsRemembered'
  BY DEF LifecycleInv, Life!RunsSettled, Life!startVars, Life!stopVars,
     Life!channelVars, Life!TypeOK, FlagsShape, RegistryShape, AdapterShape,
     RestartShape, StopsInOrder, StartsSettle, Life!StartSettled, FieldsFollow, Early,
     AdapterFollows, RegistryFollows, ChannelsStop, ChannelsAsked, StopAsked, Stilled,
     ChannelsRemembered
<1>2. PhasesShape' /\ TeardownsShape' /\ TeardownsFollow' /\ AgentFollows'
  BY DEF LifecycleInv, Life!RunsSettled, Life!startVars, Life!stopVars,
     PhasesShape, TeardownsShape, TeardownsFollow, RuntimeAsked, FieldsCleared, AgentFollows
<1> QED
  BY <1>1, <1>2 DEF LifecycleInv

\* The process of the agent is gone, or its end could not be confirmed.
LEMMA KeepsAgentStopped ==
    ASSUME MaxRuns \in Nat, MaxTroubles \in Nat, LifecycleInv,
           NEW t \in Life!Teardowns, Life!AgentStopped(t)
    PROVE  LifecycleInv'
<1>1. /\ FlagsShape' /\ RegistryShape' /\ AdapterShape' /\ RestartShape' /\ StopsInOrder'
      /\ StartsSettle' /\ FieldsFollow' /\ AdapterFollows' /\ RegistryFollows' /\ ChannelsStop'
      /\ ChannelsRemembered'
  BY DEF LifecycleInv, Life!AgentStopped, Life!startVars, Life!stopVars,
     Life!channelVars, FlagsShape, RegistryShape, AdapterShape, RestartShape,
     StopsInOrder, StartsSettle, Life!StartSettled, FieldsFollow, Early, AdapterFollows,
     RegistryFollows, ChannelsStop, ChannelsAsked, StopAsked, Stilled, ChannelsRemembered
<1>2. Life!TypeOK'
  BY DEF LifecycleInv, Life!AgentStopped, Life!NoFault, Life!Fault,
     Life!stopVars, Life!channelVars, Life!TypeOK
<1>3. PhasesShape'
  BY DEF LifecycleInv, Life!AgentStopped, Life!NoFault, Life!Fault,
     Life!startVars, Life!stopVars, Life!channelVars, PhasesShape,
     Life!Teardowns
<1>4. TeardownsShape' /\ TeardownsFollow' /\ AgentFollows'
  BY DEF LifecycleInv, Life!AgentStopped, Life!startVars, Life!stopVars,
     TeardownsShape, TeardownsFollow, RuntimeAsked, FieldsCleared, AgentFollows
<1> QED
  BY <1>1, <1>2, <1>3, <1>4 DEF LifecycleInv

\* The stop of the runtime has answered, or its deadline has passed.
LEMMA KeepsRuntimeStopped ==
    ASSUME MaxRuns \in Nat, MaxTroubles \in Nat, LifecycleInv,
           NEW t \in Life!Teardowns, Life!RuntimeStopped(t)
    PROVE  LifecycleInv'
<1>1. /\ PhasesShape' /\ RegistryShape' /\ AdapterShape' /\ RestartShape' /\ AgentFollows'
      /\ AdapterFollows' /\ RegistryFollows'
  BY DEF LifecycleInv, Life!RuntimeStopped, Life!agentVars, Life!channelVars,
     PhasesShape, RegistryShape, AdapterShape, RestartShape, AgentFollows, AdapterFollows,
     RegistryFollows, Early
<1>2. Life!TypeOK'
  BY DEF LifecycleInv, Life!RuntimeStopped, Life!StepEnds, Life!NoFault,
     Life!Fault, Life!agentVars, Life!channelVars, Life!TypeOK
<1>3. FlagsShape'
  BY DEF LifecycleInv, Life!RuntimeStopped, Life!StepEnds, Life!NoFault,
     Life!Fault, Life!agentVars, Life!channelVars, FlagsShape,
     Life!Teardowns
<1>4. TeardownsShape' /\ StopsInOrder' /\ StartsSettle' /\ FieldsFollow'
  BY DEF LifecycleInv, Life!RuntimeStopped, Life!StepEnds, Life!agentVars,
     TeardownsShape, StopsInOrder, StartsSettle, Life!StartSettled, FieldsFollow, Early
<1>5. TeardownsFollow' /\ ChannelsStop'
  BY DEF LifecycleInv, Life!RuntimeStopped, Life!StepEnds, Life!agentVars,
     Life!channelVars, Early, TeardownsFollow, RuntimeAsked, FieldsCleared, ChannelsStop,
     ChannelsAsked, StopAsked, Stilled
<1>6. ChannelsRemembered'
  BY DEF LifecycleInv, Life!RuntimeStopped, Life!channelVars, ChannelsRemembered,
     StopAsked, Stilled
<1> QED
  BY <1>1, <1>2, <1>3, <1>4, <1>5, <1>6 DEF LifecycleInv

\* The agent comes up.
LEMMA KeepsAgentReady ==
    ASSUME MaxRuns \in Nat, MaxTroubles \in Nat, LifecycleInv, Life!AgentReady
    PROVE  LifecycleInv'
<1>1. /\ FlagsShape' /\ TeardownsShape' /\ RegistryShape' /\ AdapterShape' /\ RestartShape'
      /\ StopsInOrder' /\ StartsSettle' /\ FieldsFollow' /\ TeardownsFollow' /\ AdapterFollows'
      /\ RegistryFollows' /\ ChannelsStop' /\ ChannelsRemembered'
  BY DEF LifecycleInv, Life!AgentReady, Life!startVars, Life!stopVars,
     Life!channelVars, FlagsShape, TeardownsShape, RegistryShape, AdapterShape,
     RestartShape, StopsInOrder, StartsSettle, Life!StartSettled, FieldsFollow, Early,
     TeardownsFollow, RuntimeAsked, FieldsCleared, AdapterFollows, RegistryFollows,
     ChannelsStop, ChannelsAsked, StopAsked, Stilled, ChannelsRemembered
<1>2. Life!TypeOK' /\ PhasesShape' /\ AgentFollows'
  BY DEF LifecycleInv, Life!AgentReady, Life!startVars, Life!stopVars,
     Life!channelVars, Life!TypeOK, PhasesShape, AgentFollows
<1> QED
  BY <1>1, <1>2 DEF LifecycleInv

\* The agent goes down by itself.
LEMMA KeepsAgentDown ==
    ASSUME MaxRuns \in Nat, MaxTroubles \in Nat, LifecycleInv, Life!AgentDown
    PROVE  LifecycleInv'
<1>1. /\ FlagsShape' /\ TeardownsShape' /\ RegistryShape' /\ AdapterShape' /\ RestartShape'
      /\ StopsInOrder' /\ StartsSettle' /\ FieldsFollow' /\ TeardownsFollow' /\ AdapterFollows'
      /\ RegistryFollows' /\ ChannelsStop' /\ ChannelsRemembered'
  BY DEF LifecycleInv, Life!AgentDown, Life!startVars, Life!stopVars,
     Life!channelVars, FlagsShape, TeardownsShape, RegistryShape, AdapterShape,
     RestartShape, StopsInOrder, StartsSettle, Life!StartSettled, FieldsFollow, Early,
     TeardownsFollow, RuntimeAsked, FieldsCleared, AdapterFollows, RegistryFollows,
     ChannelsStop, ChannelsAsked, StopAsked, Stilled, ChannelsRemembered
<1>2. Life!TypeOK'
  BY DEF LifecycleInv, Life!AgentDown, Life!Fault, Life!stopVars,
     Life!channelVars, Life!TypeOK
<1>3. PhasesShape'
  BY DEF LifecycleInv, Life!AgentDown, Life!Fault, Life!startVars,
     Life!stopVars, Life!channelVars, PhasesShape
<1>4. AgentFollows'
  BY DEF LifecycleInv, Life!AgentDown, AgentFollows
<1> QED
  BY <1>1, <1>2, <1>3, <1>4 DEF LifecycleInv

\* The agent is started again.
LEMMA KeepsAgentRecovers ==
    ASSUME MaxRuns \in Nat, MaxTroubles \in Nat, LifecycleInv, Life!AgentRecovers
    PROVE  LifecycleInv'
<1>1. /\ PhasesShape' /\ FlagsShape' /\ TeardownsShape' /\ RegistryShape' /\ AdapterShape'
      /\ RestartShape' /\ StopsInOrder' /\ StartsSettle' /\ FieldsFollow' /\ TeardownsFollow'
      /\ AdapterFollows' /\ RegistryFollows' /\ ChannelsStop' /\ ChannelsRemembered'
  BY DEF LifecycleInv, Life!AgentRecovers, Life!startVars, Life!stopVars,
     Life!channelVars, PhasesShape, FlagsShape, TeardownsShape, RegistryShape,
     AdapterShape, RestartShape, StopsInOrder, StartsSettle, Life!StartSettled,
     FieldsFollow, Early, TeardownsFollow, RuntimeAsked, FieldsCleared, AdapterFollows,
     RegistryFollows, ChannelsStop, ChannelsAsked, StopAsked, Stilled, ChannelsRemembered
<1>2. Life!TypeOK' /\ AgentFollows'
  BY DEF LifecycleInv, Life!AgentRecovers, Life!startVars, Life!stopVars,
     Life!channelVars, Life!TypeOK, AgentFollows
<1> QED
  BY <1>1, <1>2 DEF LifecycleInv

\* A run starts.
LEMMA KeepsRunStarts ==
    ASSUME MaxRuns \in Nat, MaxTroubles \in Nat, LifecycleInv, Life!RunStarts
    PROVE  LifecycleInv'
<1>1. /\ FlagsShape' /\ TeardownsShape' /\ RegistryShape' /\ AdapterShape' /\ RestartShape'
      /\ StopsInOrder' /\ StartsSettle' /\ FieldsFollow' /\ TeardownsFollow' /\ AdapterFollows'
      /\ RegistryFollows' /\ ChannelsStop' /\ ChannelsRemembered'
  BY DEF LifecycleInv, Life!RunStarts, Life!startVars, Life!stopVars,
     Life!channelVars, FlagsShape, TeardownsShape, RegistryShape, AdapterShape,
     RestartShape, StopsInOrder, StartsSettle, Life!StartSettled, FieldsFollow, Early,
     TeardownsFollow, RuntimeAsked, FieldsCleared, AdapterFollows, RegistryFollows,
     ChannelsStop, ChannelsAsked, StopAsked, Stilled, ChannelsRemembered
<1>2. Life!TypeOK' /\ PhasesShape' /\ AgentFollows'
  BY DEF LifecycleInv, Life!RunStarts, Life!startVars, Life!stopVars,
     Life!channelVars, Life!TypeOK, PhasesShape, AgentFollows
<1> QED
  BY <1>1, <1>2 DEF LifecycleInv

\* A run does not heed its abort.
LEMMA KeepsRunHangs ==
    ASSUME MaxRuns \in Nat, MaxTroubles \in Nat, LifecycleInv, Life!RunHangs
    PROVE  LifecycleInv'
<1>1. /\ PhasesShape' /\ FlagsShape' /\ TeardownsShape' /\ RegistryShape' /\ AdapterShape'
      /\ RestartShape' /\ StopsInOrder' /\ StartsSettle' /\ FieldsFollow' /\ TeardownsFollow'
      /\ AgentFollows' /\ AdapterFollows' /\ RegistryFollows' /\ ChannelsStop'
      /\ ChannelsRemembered'
  BY DEF LifecycleInv, Life!RunHangs, Life!startVars, Life!stopVars,
     Life!channelVars, PhasesShape, FlagsShape, TeardownsShape, RegistryShape,
     AdapterShape, RestartShape, StopsInOrder, StartsSettle, Life!StartSettled,
     FieldsFollow, Early, TeardownsFollow, RuntimeAsked, FieldsCleared, AgentFollows,
     AdapterFollows, RegistryFollows, ChannelsStop, ChannelsAsked, StopAsked, Stilled,
     ChannelsRemembered
<1>2. Life!TypeOK'
  BY DEF LifecycleInv, Life!RunHangs, Life!Fault, Life!stopVars,
     Life!channelVars, Life!TypeOK
<1> QED
  BY <1>1, <1>2 DEF LifecycleInv

\* A run ends.
LEMMA KeepsRunEnds ==
    ASSUME MaxRuns \in Nat, MaxTroubles \in Nat, LifecycleInv, Life!RunEnds
    PROVE  LifecycleInv'
<1>1. /\ PhasesShape' /\ FlagsShape' /\ TeardownsShape' /\ RegistryShape' /\ AdapterShape'
      /\ RestartShape' /\ StopsInOrder' /\ StartsSettle' /\ FieldsFollow' /\ TeardownsFollow'
      /\ AdapterFollows' /\ RegistryFollows' /\ ChannelsStop' /\ ChannelsRemembered'
  BY DEF LifecycleInv, Life!RunEnds, Life!startVars, Life!stopVars,
     Life!channelVars, PhasesShape, FlagsShape, TeardownsShape, RegistryShape,
     AdapterShape, RestartShape, StopsInOrder, StartsSettle, Life!StartSettled,
     FieldsFollow, Early, TeardownsFollow, RuntimeAsked, FieldsCleared, AdapterFollows,
     RegistryFollows, ChannelsStop, ChannelsAsked, StopAsked, Stilled, ChannelsRemembered
<1>2. Life!TypeOK' /\ AgentFollows'
  BY DEF LifecycleInv, Life!RunEnds, Life!startVars, Life!stopVars,
     Life!channelVars, Life!TypeOK, AgentFollows
<1> QED
  BY <1>1, <1>2 DEF LifecycleInv

\* The adapter has started, or not, or is not wanted any more.
LEMMA KeepsAdapterStarted ==
    ASSUME MaxRuns \in Nat, MaxTroubles \in Nat, LifecycleInv, Life!AdapterStarted
    PROVE  LifecycleInv'
<1>1. /\ Life!TypeOK' /\ PhasesShape' /\ FlagsShape' /\ TeardownsShape' /\ StopsInOrder'
      /\ StartsSettle' /\ FieldsFollow' /\ TeardownsFollow' /\ AgentFollows'
  BY DEF LifecycleInv, Life!AdapterStarted, Life!Others, Life!startVars,
     Life!stopVars, Life!agentVars, Life!TypeOK, PhasesShape, FlagsShape,
     TeardownsShape, StopsInOrder, StartsSettle, Life!StartSettled, FieldsFollow, Early,
     TeardownsFollow, RuntimeAsked, FieldsCleared, AgentFollows
<1>2. CASE adapter.start = "done" /\ registry.desired
  <2>1. RegistryShape' /\ AdapterShape' /\ RestartShape' /\ AdapterFollows'
    BY <1>2 DEF LifecycleInv, Life!AdapterStarted, RegistryShape, AdapterShape,
       RestartShape, AdapterFollows
  <2>2. RegistryFollows' /\ ChannelsStop' /\ ChannelsRemembered'
    BY <1>2 DEF LifecycleInv, Life!AdapterStarted, Life!Others, Life!startVars,
       Life!stopVars, RegistryShape, Early, RegistryFollows, ChannelsStop, ChannelsAsked,
       StopAsked, Stilled, ChannelsRemembered
  <2> QED
    BY <1>1, <2>1, <2>2 DEF LifecycleInv
<1>3. CASE ~(adapter.start = "done" /\ registry.desired) /\ registry.started
  <2>r. /\ ~registry'.started
        /\ registry'.start = "adapter.stop" /\ registry'.stop = registry.stop
        /\ ~adapter'.desired /\ ~adapter'.ready /\ adapter'.sdk = adapter.sdk
        /\ adapter'.stop = IF adapter.stop = "none" THEN "restart" ELSE adapter.stop
        /\ ~restart'.running /\ ~restart'.timer
    BY <1>3 DEF LifecycleInv, Life!AdapterStarted, Life!StopStarted,
       Life!StopAdapter,
       RegistryShape, AdapterShape, RestartShape
  <2>1. RegistryShape'
    BY <1>3 DEF LifecycleInv, Life!AdapterStarted, Life!StopStarted,
       Life!StopAdapter, Life!Others, Life!startVars, Life!stopVars,
       Life!agentVars, RegistryShape
  <2>2. AdapterShape'
    BY <1>3 DEF LifecycleInv, Life!AdapterStarted, Life!StopStarted,
       Life!StopAdapter, Life!Others, Life!startVars, Life!stopVars,
       Life!agentVars, AdapterShape
  <2>3. RestartShape'
    BY <1>3 DEF LifecycleInv, Life!AdapterStarted, Life!StopStarted,
       Life!StopAdapter, Life!Others, Life!startVars, Life!stopVars,
       Life!agentVars, RestartShape
  <2>4. AdapterFollows'
    BY <1>3, <2>r DEF LifecycleInv, AdapterFollows
  <2>5. RegistryFollows'
    BY <1>3, <2>r DEF LifecycleInv, Life!AdapterStarted, Life!Others,
       Life!startVars,
       RegistryShape, RegistryFollows, Early
  <2>6. ChannelsStop'
    BY <1>3, <2>r DEF LifecycleInv, Life!AdapterStarted, Life!Others,
       Life!startVars, Life!stopVars,
       ChannelsStop, ChannelsAsked, StopAsked, Stilled, Early
  <2>7. ChannelsRemembered'
    BY <1>3, <2>r DEF LifecycleInv, Life!AdapterStarted, Life!Others,
       Life!startVars, Life!stopVars,
       ChannelsRemembered, StopAsked, Stilled
  <2> QED
    BY <1>1, <2>1, <2>2, <2>3, <2>4, <2>5, <2>6, <2>7 DEF LifecycleInv
<1> QED
  BY <1>2, <1>3 DEF Life!AdapterStarted, Life!StopStarted, Life!StopAdapter,
     Life!Others, LifecycleInv, RegistryFollows

\* What was started of the adapter has been stopped.
LEMMA KeepsStartUndone ==
    ASSUME MaxRuns \in Nat, MaxTroubles \in Nat, LifecycleInv, Life!StartUndone
    PROVE  LifecycleInv'
<1>1. /\ Life!TypeOK' /\ PhasesShape' /\ FlagsShape' /\ TeardownsShape' /\ AdapterShape'
      /\ RestartShape' /\ StopsInOrder' /\ StartsSettle' /\ FieldsFollow' /\ TeardownsFollow'
      /\ AgentFollows'
  BY DEF LifecycleInv, Life!StartUndone, Life!Others, Life!startVars,
     Life!stopVars, Life!agentVars, Life!TypeOK, PhasesShape, FlagsShape,
     TeardownsShape, AdapterShape, RestartShape, StopsInOrder, StartsSettle,
     Life!StartSettled, FieldsFollow, Early, TeardownsFollow, RuntimeAsked, FieldsCleared,
     AgentFollows
<1>2. RegistryShape' /\ AdapterFollows' /\ RegistryFollows' /\ ChannelsStop'
  BY DEF LifecycleInv, Life!StartUndone, Life!Others, Life!startVars,
     Life!stopVars, RegistryShape, Early, AdapterFollows, RegistryFollows, ChannelsStop,
     ChannelsAsked, StopAsked, Stilled
<1>3. ChannelsRemembered'
  BY DEF LifecycleInv, Life!StartUndone, Life!Others, Life!startVars,
     Life!stopVars, ChannelsRemembered, StopAsked, Stilled
<1> QED
  BY <1>1, <1>2, <1>3 DEF LifecycleInv

\* The registry stops the adapter that was started.
LEMMA KeepsStopAll ==
    ASSUME MaxRuns \in Nat, MaxTroubles \in Nat, LifecycleInv, Life!StopAll
    PROVE  LifecycleInv'
<1>1. /\ Life!TypeOK' /\ PhasesShape' /\ FlagsShape' /\ TeardownsShape' /\ StopsInOrder'
      /\ StartsSettle' /\ FieldsFollow' /\ TeardownsFollow' /\ AgentFollows'
  BY DEF LifecycleInv, Life!StopAll, Life!Others, Life!startVars,
     Life!stopVars, Life!agentVars, Life!TypeOK, PhasesShape, FlagsShape,
     TeardownsShape, StopsInOrder, StartsSettle, Life!StartSettled, FieldsFollow, Early,
     TeardownsFollow, RuntimeAsked, FieldsCleared, AgentFollows
<1>2. CASE registry.started
  <2>r. /\ ~registry'.started
        /\ registry'.start = registry.start /\ registry'.stop = "adapter.stop"
        /\ ~adapter'.desired /\ ~adapter'.ready /\ adapter'.sdk = adapter.sdk
        /\ adapter'.stop = IF adapter.stop = "none" THEN "restart" ELSE adapter.stop
        /\ ~restart'.running /\ ~restart'.timer
    BY <1>2 DEF LifecycleInv, Life!StopAll, Life!StopStarted, Life!StopAdapter,
       RegistryShape, AdapterShape, RestartShape
  <2>1. RegistryShape'
    BY <1>2 DEF LifecycleInv, Life!StopAll, Life!StopStarted, Life!StopAdapter,
       Life!Others, Life!startVars, Life!stopVars, Life!agentVars,
       RegistryShape
  <2>2. AdapterShape'
    BY <1>2 DEF LifecycleInv, Life!StopAll, Life!StopStarted, Life!StopAdapter,
       Life!Others, Life!startVars, Life!stopVars, Life!agentVars,
       AdapterShape
  <2>3. RestartShape'
    BY <1>2 DEF LifecycleInv, Life!StopAll, Life!StopStarted, Life!StopAdapter,
       Life!Others, Life!startVars, Life!stopVars, Life!agentVars,
       RestartShape
  <2>4. AdapterFollows'
    BY <1>2, <2>r DEF LifecycleInv, AdapterFollows
  <2>5. RegistryFollows'
    BY <1>2, <2>r DEF LifecycleInv, Life!StopAll, Life!Others, Life!startVars,
       RegistryShape, RegistryFollows, Early
  <2>6. ChannelsStop'
    BY <1>2, <2>r DEF LifecycleInv, Life!StopAll, Life!Others, Life!startVars,
       Life!stopVars,
       ChannelsStop, ChannelsAsked, StopAsked, Stilled, Early
  <2>7. ChannelsRemembered'
    BY <1>2, <2>r DEF LifecycleInv, Life!StopAll, Life!Others, Life!startVars,
       Life!stopVars,
       ChannelsRemembered, StopAsked, Stilled
  <2> QED
    BY <1>1, <2>1, <2>2, <2>3, <2>4, <2>5, <2>6, <2>7 DEF LifecycleInv
<1>3. CASE ~registry.started
  <2>1. RegistryShape' /\ AdapterShape' /\ RestartShape' /\ AdapterFollows'
    BY <1>3 DEF LifecycleInv, Life!StopAll, Life!StopStarted, RegistryShape,
       AdapterShape, RestartShape, AdapterFollows
  <2>2. RegistryFollows' /\ ChannelsStop'
    BY <1>3 DEF LifecycleInv, Life!StopAll, Life!StopStarted, Life!Others,
       Life!startVars, Life!stopVars, RegistryShape, Early, RegistryFollows,
       ChannelsStop, ChannelsAsked, StopAsked, Stilled
  <2>3. ChannelsRemembered'
    BY <1>3 DEF LifecycleInv, Life!StopAll, Life!StopStarted, Life!Others,
       Life!startVars, Life!stopVars, RegistryShape, ChannelsRemembered, StopAsked,
       Stilled
  <2> QED
    BY <1>1, <2>1, <2>2, <2>3 DEF LifecycleInv
<1> QED
  BY <1>2, <1>3 DEF Life!StopAll, Life!StopStarted, Life!StopAdapter,
     Life!Others

\* The stop of the adapter has ended, for the registry.
LEMMA KeepsStoppedAll ==
    ASSUME MaxRuns \in Nat, MaxTroubles \in Nat, LifecycleInv, Life!StoppedAll
    PROVE  LifecycleInv'
<1>1. /\ Life!TypeOK' /\ PhasesShape' /\ FlagsShape' /\ TeardownsShape' /\ AdapterShape'
      /\ RestartShape' /\ StopsInOrder' /\ StartsSettle' /\ FieldsFollow' /\ TeardownsFollow'
      /\ AgentFollows'
  BY DEF LifecycleInv, Life!StoppedAll, Life!Others, Life!startVars,
     Life!stopVars, Life!agentVars, Life!TypeOK, PhasesShape, FlagsShape,
     TeardownsShape, AdapterShape, RestartShape, StopsInOrder, StartsSettle,
     Life!StartSettled, FieldsFollow, Early, TeardownsFollow, RuntimeAsked, FieldsCleared,
     AgentFollows
<1>2. /\ RegistryShape' /\ AdapterFollows' /\ RegistryFollows' /\ ChannelsStop'
      /\ ChannelsRemembered'
  BY DEF LifecycleInv, Life!StoppedAll, Life!Others, Life!startVars,
     RegistryShape, Early, AdapterFollows, RegistryFollows, ChannelsStop, ChannelsAsked,
     StopAsked, Stilled, ChannelsRemembered
<1> QED
  BY <1>1, <1>2 DEF LifecycleInv

\* The connection opens.
LEMMA KeepsConnectionOpens ==
    ASSUME MaxRuns \in Nat, MaxTroubles \in Nat, LifecycleInv, Life!ConnectionOpens
    PROVE  LifecycleInv'
<1>1. /\ PhasesShape' /\ FlagsShape' /\ TeardownsShape' /\ RegistryShape' /\ RestartShape'
      /\ StopsInOrder' /\ StartsSettle' /\ FieldsFollow' /\ TeardownsFollow' /\ AgentFollows'
  BY DEF LifecycleInv, Life!ConnectionOpens, Life!Others, Life!startVars,
     Life!stopVars, Life!agentVars, PhasesShape, FlagsShape, TeardownsShape,
     RegistryShape, RestartShape, StopsInOrder, StartsSettle, Life!StartSettled,
     FieldsFollow, Early, TeardownsFollow, RuntimeAsked, FieldsCleared, AgentFollows
<1>2. Life!TypeOK' /\ AdapterShape' /\ AdapterFollows' /\ RegistryFollows'
  BY DEF LifecycleInv, Life!ConnectionOpens, Life!Others, Life!startVars,
     Life!stopVars, Life!agentVars, Life!TypeOK, AdapterShape, Early,
     AdapterFollows, RegistryFollows
<1>3. ChannelsStop' /\ ChannelsRemembered'
  BY DEF LifecycleInv, Life!ConnectionOpens, Life!Others, Life!startVars,
     Life!stopVars, Early, ChannelsStop, ChannelsAsked, StopAsked, Stilled,
     ChannelsRemembered
<1> QED
  BY <1>1, <1>2, <1>3 DEF LifecycleInv

\* It does not open.
LEMMA KeepsConnectionFails ==
    ASSUME MaxRuns \in Nat, MaxTroubles \in Nat, LifecycleInv, Life!ConnectionFails
    PROVE  LifecycleInv'
<1>1. /\ PhasesShape' /\ FlagsShape' /\ TeardownsShape' /\ RegistryShape' /\ AdapterShape'
      /\ RestartShape' /\ StopsInOrder' /\ StartsSettle' /\ FieldsFollow' /\ TeardownsFollow'
      /\ AgentFollows' /\ RegistryFollows' /\ ChannelsStop' /\ ChannelsRemembered'
  BY DEF LifecycleInv, Life!ConnectionFails, Life!Others, Life!startVars,
     Life!stopVars, Life!agentVars, PhasesShape, FlagsShape, TeardownsShape,
     RegistryShape, AdapterShape, RestartShape, StopsInOrder, StartsSettle,
     Life!StartSettled, FieldsFollow, Early, TeardownsFollow, RuntimeAsked, FieldsCleared,
     AgentFollows, RegistryFollows, ChannelsStop, ChannelsAsked, StopAsked, Stilled,
     ChannelsRemembered
<1>2. Life!TypeOK' /\ AdapterFollows'
  BY DEF LifecycleInv, Life!ConnectionFails, Life!Fault, Life!Others,
     Life!stopVars, Life!agentVars, Life!TypeOK, AdapterFollows
<1> QED
  BY <1>1, <1>2 DEF LifecycleInv

\* It is lost, and opens again.
LEMMA KeepsConnectionDrops ==
    ASSUME MaxRuns \in Nat, MaxTroubles \in Nat, LifecycleInv, Life!ConnectionDrops
    PROVE  LifecycleInv'
<1>1. /\ PhasesShape' /\ FlagsShape' /\ TeardownsShape' /\ RegistryShape' /\ RestartShape'
      /\ StopsInOrder' /\ StartsSettle' /\ FieldsFollow' /\ TeardownsFollow' /\ AgentFollows'
  BY DEF LifecycleInv, Life!ConnectionDrops, Life!Others, Life!startVars,
     Life!stopVars, Life!agentVars, PhasesShape, FlagsShape, TeardownsShape,
     RegistryShape, RestartShape, StopsInOrder, StartsSettle, Life!StartSettled,
     FieldsFollow, Early, TeardownsFollow, RuntimeAsked, FieldsCleared, AgentFollows
<1>2. Life!TypeOK'
  BY DEF LifecycleInv, Life!ConnectionDrops, Life!Fault, Life!Others,
     Life!stopVars, Life!agentVars, Life!TypeOK
<1>3. AdapterShape'
  BY DEF LifecycleInv, Life!ConnectionDrops, Life!Fault, Life!Others,
     Life!startVars, Life!stopVars, Life!agentVars, AdapterShape
<1>4. AdapterFollows' /\ RegistryFollows' /\ ChannelsStop' /\ ChannelsRemembered'
  BY DEF LifecycleInv, Life!ConnectionDrops, Life!Others, Life!startVars,
     Life!stopVars, Early, AdapterFollows, RegistryFollows, ChannelsStop, ChannelsAsked,
     StopAsked, Stilled, ChannelsRemembered
<1> QED
  BY <1>1, <1>2, <1>3, <1>4 DEF LifecycleInv

\* The start of the adapter has its connection, or not.
LEMMA KeepsConnected ==
    ASSUME MaxRuns \in Nat, MaxTroubles \in Nat, LifecycleInv, Life!Connected
    PROVE  LifecycleInv'
<1>1. /\ PhasesShape' /\ FlagsShape' /\ TeardownsShape' /\ RegistryShape' /\ StopsInOrder'
      /\ StartsSettle' /\ FieldsFollow' /\ TeardownsFollow' /\ AgentFollows'
  BY DEF LifecycleInv, Life!Connected, Life!Others, Life!startVars,
     Life!stopVars, Life!agentVars, PhasesShape, FlagsShape, TeardownsShape,
     RegistryShape, StopsInOrder, StartsSettle, Life!StartSettled, FieldsFollow, Early,
     TeardownsFollow, RuntimeAsked, FieldsCleared, AgentFollows
<1>2. CASE conn = "open" /\ adapter.desired
  <2>r. adapter'.stop = adapter.stop
    BY <1>2 DEF LifecycleInv, Life!Connected, AdapterShape
  <2>1. Life!TypeOK'
    BY <1>2 DEF LifecycleInv, Life!Connected, Life!Others, Life!stopVars,
       Life!agentVars, Life!TypeOK
  <2>2. AdapterShape'
    BY <1>2 DEF LifecycleInv, Life!Connected, Life!Others, Life!startVars,
       Life!stopVars, Life!agentVars, AdapterShape
  <2>3. RestartShape'
    BY <1>2 DEF LifecycleInv, Life!Connected, Life!Others, Life!startVars,
       Life!stopVars, Life!agentVars, RestartShape
  <2>4. AdapterFollows'
    BY <1>2 DEF LifecycleInv, Life!Connected, Life!Others, Life!startVars,
       Life!stopVars, Life!agentVars, Life!TypeOK, RegistryShape, AdapterShape,
       RestartShape, AdapterFollows
  <2>5. RegistryFollows'
    BY <1>2 DEF LifecycleInv, Life!Connected, Life!Others, Life!startVars,
       Life!stopVars, Life!agentVars, PhasesShape, RegistryShape, AdapterShape,
       RegistryFollows, Early
  <2>6. ChannelsStop'
    BY <1>2, <2>r DEF LifecycleInv, Life!Connected, Life!Others, Life!startVars,
       Life!stopVars,
       ChannelsStop, ChannelsAsked, StopAsked, Stilled, Early
  <2>7. ChannelsRemembered'
    BY <1>2, <2>r DEF LifecycleInv, Life!Connected, Life!Others, Life!startVars,
       Life!stopVars,
       ChannelsRemembered, StopAsked, Stilled
  <2> QED
    BY <1>1, <2>1, <2>2, <2>3, <2>4, <2>5, <2>6, <2>7 DEF LifecycleInv
<1>3. CASE ~(conn = "open" /\ adapter.desired)
  <2>r. adapter'.stop = adapter.stop
    BY <1>3 DEF LifecycleInv, Life!Connected, AdapterShape
  <2>1. Life!TypeOK'
    BY <1>3 DEF LifecycleInv, Life!Connected, Life!Others, Life!stopVars,
       Life!agentVars, Life!TypeOK
  <2>2. AdapterShape'
    BY <1>3 DEF LifecycleInv, Life!Connected, Life!Others, Life!startVars,
       Life!stopVars, Life!agentVars, AdapterShape
  <2>3. RestartShape'
    BY <1>3 DEF LifecycleInv, Life!Connected, RestartShape
  <2>4. AdapterFollows'
    BY <1>3 DEF LifecycleInv, Life!Connected, Life!Others, Life!startVars,
       Life!stopVars, Life!agentVars, Life!TypeOK, RegistryShape, AdapterShape,
       RestartShape, AdapterFollows
  <2>5. RegistryFollows'
    BY <1>3 DEF LifecycleInv, Life!Connected, Life!Others, Life!startVars,
       Life!stopVars, Life!agentVars, PhasesShape, RegistryShape, AdapterShape,
       RegistryFollows, Early
  <2>6. ChannelsStop'
    BY <1>3, <2>r DEF LifecycleInv, Life!Connected, Life!Others, Life!startVars,
       Life!stopVars,
       ChannelsStop, ChannelsAsked, StopAsked, Stilled, Early
  <2>7. ChannelsRemembered'
    BY <1>3, <2>r DEF LifecycleInv, Life!Connected, Life!Others, Life!startVars,
       Life!stopVars,
       ChannelsRemembered, StopAsked, Stilled
  <2> QED
    BY <1>1, <2>1, <2>2, <2>3, <2>4, <2>5, <2>6, <2>7 DEF LifecycleInv
<1> QED
  BY <1>2, <1>3 DEF Life!Connected, Life!Others

\* The stop of the adapter has waited for an attempt to renew the connection.
LEMMA KeepsRestartStopped ==
    ASSUME MaxRuns \in Nat, MaxTroubles \in Nat, LifecycleInv, Life!RestartStopped
    PROVE  LifecycleInv'
<1>1. /\ PhasesShape' /\ FlagsShape' /\ TeardownsShape' /\ RegistryShape' /\ RestartShape'
      /\ StopsInOrder' /\ StartsSettle' /\ FieldsFollow' /\ TeardownsFollow' /\ AgentFollows'
  BY DEF LifecycleInv, Life!RestartStopped, Life!Others, Life!startVars,
     Life!stopVars, Life!agentVars, PhasesShape, FlagsShape, TeardownsShape,
     RegistryShape, RestartShape, StopsInOrder, StartsSettle, Life!StartSettled,
     FieldsFollow, Early, TeardownsFollow, RuntimeAsked, FieldsCleared, AgentFollows
<1>2. Life!TypeOK' /\ AdapterShape' /\ AdapterFollows' /\ RegistryFollows'
  BY DEF LifecycleInv, Life!RestartStopped, Life!NoFault, Life!Fault,
     Life!Others, Life!startVars, Life!stopVars, Life!agentVars,
     Life!TypeOK, AdapterShape, Early, AdapterFollows, RegistryFollows
<1>3. ChannelsStop' /\ ChannelsRemembered'
  BY DEF LifecycleInv, Life!RestartStopped, Life!Others, Life!startVars,
     Life!stopVars, Early, ChannelsStop, ChannelsAsked, StopAsked, Stilled,
     ChannelsRemembered
<1> QED
  BY <1>1, <1>2, <1>3 DEF LifecycleInv

\* It closes, or its deadline passes.
LEMMA KeepsConnectionStopped ==
    ASSUME MaxRuns \in Nat, MaxTroubles \in Nat, LifecycleInv, Life!ConnectionStopped
    PROVE  LifecycleInv'
<1>1. /\ PhasesShape' /\ FlagsShape' /\ TeardownsShape' /\ RegistryShape' /\ RestartShape'
      /\ StopsInOrder' /\ StartsSettle' /\ FieldsFollow' /\ TeardownsFollow' /\ AgentFollows'
  BY DEF LifecycleInv, Life!ConnectionStopped, Life!Others, Life!startVars,
     Life!stopVars, Life!agentVars, PhasesShape, FlagsShape, TeardownsShape,
     RegistryShape, RestartShape, StopsInOrder, StartsSettle, Life!StartSettled,
     FieldsFollow, Early, TeardownsFollow, RuntimeAsked, FieldsCleared, AgentFollows
<1>2. CASE conn' = "closed" /\ adapter' = [adapter EXCEPT !.stop = "none", !.ready = FALSE, !.sdk = FALSE]
  <2>1. Life!TypeOK'
    BY <1>2 DEF LifecycleInv, Life!ConnectionStopped, Life!NoFault, Life!Fault,
       Life!Others, Life!stopVars, Life!agentVars, Life!TypeOK
  <2>2. AdapterShape'
    BY <1>2 DEF LifecycleInv, Life!ConnectionStopped, Life!NoFault, Life!Fault,
       Life!Others, Life!startVars, Life!stopVars, Life!agentVars,
       AdapterShape
  <2>3. AdapterFollows' /\ RegistryFollows' /\ ChannelsStop' /\ ChannelsRemembered'
    BY <1>2 DEF LifecycleInv, Life!ConnectionStopped, Life!Others,
       Life!startVars, Life!stopVars, Early, AdapterFollows, RegistryFollows,
       ChannelsStop, ChannelsAsked, StopAsked, Stilled, ChannelsRemembered
  <2> QED
    BY <1>1, <2>1, <2>2, <2>3 DEF LifecycleInv
<1>3. CASE adapter.stop = "graceful" /\ conn' = conn /\ adapter' = [adapter EXCEPT !.stop = "forced"]
  <2>1. Life!TypeOK' /\ AdapterShape' /\ AdapterFollows' /\ RegistryFollows'
    BY <1>3 DEF LifecycleInv, Life!ConnectionStopped, Life!NoFault, Life!Fault,
       Life!Others, Life!startVars, Life!stopVars, Life!agentVars,
       Life!TypeOK, AdapterShape, Early, AdapterFollows, RegistryFollows
  <2>2. ChannelsStop' /\ ChannelsRemembered'
    BY <1>3 DEF LifecycleInv, Life!ConnectionStopped, Life!Others,
       Life!startVars, Life!stopVars, Early, ChannelsStop, ChannelsAsked, StopAsked,
       Stilled, ChannelsRemembered
  <2> QED
    BY <1>1, <2>1, <2>2 DEF LifecycleInv
<1> QED
  BY <1>2, <1>3 DEF Life!ConnectionStopped, Life!NoFault, Life!Fault,
     Life!Others

\* The connection is to be renewed.
LEMMA KeepsTimerFires ==
    ASSUME MaxRuns \in Nat, MaxTroubles \in Nat, LifecycleInv, Life!TimerFires
    PROVE  LifecycleInv'
<1>1. /\ Life!TypeOK' /\ PhasesShape' /\ FlagsShape' /\ TeardownsShape' /\ RegistryShape'
      /\ StopsInOrder' /\ StartsSettle' /\ FieldsFollow' /\ TeardownsFollow' /\ AgentFollows'
  BY DEF LifecycleInv, Life!TimerFires, Life!Others, Life!startVars,
     Life!stopVars, Life!agentVars, Life!TypeOK, PhasesShape, FlagsShape,
     TeardownsShape, RegistryShape, StopsInOrder, StartsSettle, Life!StartSettled,
     FieldsFollow, Early, TeardownsFollow, RuntimeAsked, FieldsCleared, AgentFollows
<1>2. AdapterShape'
  BY DEF LifecycleInv, Life!TimerFires, Life!Others, Life!startVars,
     Life!stopVars, Life!agentVars, AdapterShape
<1>3. RestartShape'
  BY DEF LifecycleInv, Life!TimerFires, Life!Others, Life!startVars,
     Life!stopVars, Life!agentVars, RestartShape
<1>4. AdapterFollows' /\ RegistryFollows' /\ ChannelsStop' /\ ChannelsRemembered'
  BY DEF LifecycleInv, Life!TimerFires, Life!Others, Life!startVars,
     Life!stopVars, Early, AdapterFollows, RegistryFollows, ChannelsStop, ChannelsAsked,
     StopAsked, Stilled, ChannelsRemembered
<1> QED
  BY <1>1, <1>2, <1>3, <1>4 DEF LifecycleInv

\* The old connection is closed.
LEMMA KeepsRestartClosed ==
    ASSUME MaxRuns \in Nat, MaxTroubles \in Nat, LifecycleInv, Life!RestartClosed
    PROVE  LifecycleInv'
<1>1. /\ PhasesShape' /\ FlagsShape' /\ TeardownsShape' /\ RegistryShape' /\ AdapterShape'
      /\ StopsInOrder' /\ StartsSettle' /\ FieldsFollow' /\ TeardownsFollow' /\ AgentFollows'
      /\ RegistryFollows' /\ ChannelsStop' /\ ChannelsRemembered'
  BY DEF LifecycleInv, Life!RestartClosed, Life!Others, Life!startVars,
     Life!stopVars, Life!agentVars, PhasesShape, FlagsShape, TeardownsShape,
     RegistryShape, AdapterShape, StopsInOrder, StartsSettle, Life!StartSettled,
     FieldsFollow, Early, TeardownsFollow, RuntimeAsked, FieldsCleared, AgentFollows,
     RegistryFollows, ChannelsStop, ChannelsAsked, StopAsked, Stilled, ChannelsRemembered
<1>2. CASE adapter.desired
  <2>1. Life!TypeOK' /\ RestartShape' /\ AdapterFollows'
    BY <1>2 DEF LifecycleInv, Life!RestartClosed, Life!Others, Life!stopVars,
       Life!agentVars, Life!TypeOK, RestartShape, AdapterFollows
  <2> QED
    BY <1>1, <2>1 DEF LifecycleInv
<1>3. CASE ~adapter.desired
  <2>1. Life!TypeOK'
    BY <1>3 DEF LifecycleInv, Life!RestartClosed, Life!Others, Life!stopVars,
       Life!agentVars, Life!TypeOK
  <2>2. RestartShape'
    BY <1>3 DEF LifecycleInv, Life!RestartClosed, Life!AttemptEnds, Life!Others,
       Life!startVars, Life!stopVars, Life!agentVars, RestartShape
  <2>3. AdapterFollows'
    BY <1>3 DEF LifecycleInv, Life!RestartClosed, Life!AttemptEnds, Life!Others,
       Life!startVars, Life!stopVars, Life!agentVars, Life!TypeOK,
       RegistryShape, AdapterShape, RestartShape, AdapterFollows
  <2> QED
    BY <1>1, <2>1, <2>2, <2>3 DEF LifecycleInv
<1> QED
  BY <1>2, <1>3 DEF Life!RestartClosed, Life!AttemptEnds, Life!Others

\* The new one has opened, or not.
LEMMA KeepsRestartOpened ==
    ASSUME MaxRuns \in Nat, MaxTroubles \in Nat, LifecycleInv, Life!RestartOpened
    PROVE  LifecycleInv'
<1>1. /\ Life!TypeOK' /\ PhasesShape' /\ FlagsShape' /\ TeardownsShape' /\ RegistryShape'
      /\ StopsInOrder' /\ StartsSettle' /\ FieldsFollow' /\ TeardownsFollow' /\ AgentFollows'
  BY DEF LifecycleInv, Life!RestartOpened, Life!Others, Life!startVars,
     Life!stopVars, Life!agentVars, Life!TypeOK, PhasesShape, FlagsShape,
     TeardownsShape, RegistryShape, StopsInOrder, StartsSettle, Life!StartSettled,
     FieldsFollow, Early, TeardownsFollow, RuntimeAsked, FieldsCleared, AgentFollows
<1>2. AdapterShape'
  BY DEF LifecycleInv, Life!RestartOpened, AdapterShape
<1>3. RestartShape'
  BY DEF LifecycleInv, Life!RestartOpened, Life!AttemptEnds, Life!Others,
     Life!startVars, Life!stopVars, Life!agentVars, RestartShape
<1>4. AdapterFollows' /\ RegistryFollows'
  BY DEF LifecycleInv, Life!RestartOpened, Life!AttemptEnds, Life!Others,
     Life!startVars, RegistryShape, Early, AdapterFollows, RegistryFollows
<1>5. ChannelsStop' /\ ChannelsRemembered'
  BY DEF LifecycleInv, Life!RestartOpened, Life!Others, Life!startVars,
     Life!stopVars, Early, ChannelsStop, ChannelsAsked, StopAsked, Stilled,
     ChannelsRemembered
<1> QED
  BY <1>1, <1>2, <1>3, <1>4, <1>5 DEF LifecycleInv

-----------------------------------------------------------------------------
\* The invariant holds before start() is called.
LEMMA LifecycleBegins ==
    ASSUME MaxRuns \in Nat, MaxTroubles \in Nat, Life!Init
    PROVE  LifecycleInv
<1>1. Life!TypeOK
  BY DEF Life!Init, Life!TypeOK
<1>2. PhasesShape /\ FlagsShape
  <2>1. joined \in BOOLEAN /\ dispatch \in BOOLEAN /\ heartbeat \in BOOLEAN /\ manual \in BOOLEAN
    BY Zenon DEF Life!Init
  <2>2. runs \in 0..MaxRuns
    BY DEF Life!Init
  <2>3. FlagsShape
    BY DEF Life!Init, FlagsShape
  <2> QED BY <2>1, <2>2, <2>3 DEF Life!Init, PhasesShape
<1>3. TeardownsShape
  BY DEF Life!Init, TeardownsShape
<1>4. RegistryShape /\ AdapterShape /\ RestartShape
  BY DEF Life!Init, RegistryShape, AdapterShape, RestartShape
<1>5. StopsInOrder /\ StartsSettle /\ FieldsFollow
  BY DEF Life!Init, StopsInOrder, StartsSettle, Life!StartSettled, FieldsFollow, Early, Life!Teardowns
<1>6. TeardownsFollow /\ AgentFollows
  BY DEF Life!Init, TeardownsFollow, RuntimeAsked, FieldsCleared, AgentFollows
<1>7. AdapterFollows /\ RegistryFollows
  BY DEF Life!Init, AdapterFollows, RegistryFollows, Early
<1>8. ChannelsStop /\ ChannelsRemembered
  BY DEF Life!Init, ChannelsStop, ChannelsAsked, StopAsked, Stilled, Early, ChannelsRemembered, Life!Teardowns
<1> QED
  BY <1>1, <1>2, <1>3, <1>4, <1>5, <1>6, <1>7, <1>8 DEF LifecycleInv

\* A step that changes nothing keeps it.
LEMMA LifecycleStays ==
    ASSUME LifecycleInv, UNCHANGED Life!vars
    PROVE  LifecycleInv'
<1>1. /\ Life!TypeOK' /\ PhasesShape' /\ FlagsShape' /\ TeardownsShape'
      /\ RegistryShape' /\ AdapterShape' /\ RestartShape'
  BY DEF LifecycleInv, Life!vars, Life!TypeOK, PhasesShape, FlagsShape, TeardownsShape,
     RegistryShape, AdapterShape, RestartShape
<1>2. StopsInOrder' /\ StartsSettle' /\ FieldsFollow' /\ TeardownsFollow' /\ AgentFollows'
  BY DEF LifecycleInv, Life!vars, StopsInOrder, StartsSettle, Life!StartSettled,
     FieldsFollow, Early, TeardownsFollow, RuntimeAsked, FieldsCleared, AgentFollows
<1>3. AdapterFollows' /\ RegistryFollows' /\ ChannelsStop' /\ ChannelsRemembered'
  BY DEF LifecycleInv, Life!vars, AdapterFollows, RegistryFollows, Early, ChannelsStop,
     ChannelsAsked, StopAsked, Stilled, ChannelsRemembered
<1> QED
  BY <1>1, <1>2, <1>3 DEF LifecycleInv

\* Every step of a gateway keeps the invariant.
LEMMA LifecycleKeeps ==
    ASSUME MaxRuns \in Nat, MaxTroubles \in Nat, LifecycleInv, [Life!Next]_(Life!vars)
    PROVE  LifecycleInv'
<1>1. CASE Life!LifecycleStep
  BY <1>1, KeepsStart, KeepsStateUsable, KeepsRuntimeStarted, KeepsChannelsStarted,
     KeepsCleanedUp, KeepsStop, KeepsFirstDone, KeepsStartupOver, KeepsSecondDone,
     KeepsBeginTeardown, KeepsChannelsStopped, KeepsQuieten, KeepsRunsFailed, KeepsRunsSettled,
     KeepsAgentStopped, KeepsRuntimeStopped DEF Life!LifecycleStep
<1>2. CASE Life!AgentStep
  BY <1>2, KeepsAgentReady, KeepsAgentDown, KeepsAgentRecovers, KeepsRunStarts, KeepsRunHangs,
     KeepsRunEnds DEF Life!AgentStep
<1>3. CASE Life!ChannelStep
  BY <1>3, KeepsAdapterStarted, KeepsStartUndone, KeepsStopAll, KeepsStoppedAll,
     KeepsConnectionOpens, KeepsConnectionFails, KeepsConnectionDrops, KeepsConnected,
     KeepsRestartStopped, KeepsConnectionStopped, KeepsTimerFires, KeepsRestartClosed,
     KeepsRestartOpened DEF Life!ChannelStep
<1>4. CASE UNCHANGED Life!vars
  BY <1>4, LifecycleStays
<1> QED
  BY <1>1, <1>2, <1>3, <1>4 DEF Life!Next

\* A stop() that is over has torn down all it had to.
LEMMA StopIsOver ==
    ASSUME LifecycleInv, halt = "done"
    PROVE  /\ flags.shutdown /\ ~flags.accepting
           /\ teardown["first"] = "done"
           /\ joined => teardown["second"] = "done"
           /\ ~joined => teardown["second"] = "none"
BY DEF LifecycleInv, StopsInOrder, FieldsFollow, FlagsShape

\* A stop() without errors has left nothing up, and start() has settled.
LEMMA CleanStops ==
    ASSUME LifecycleInv, halt = "done", errors \cap {"first", "startup", "second"} = {}
    PROVE  Life!Down /\ Life!StartSettled
<1>1. PICK t \in {"first", "second"} : teardown[t] = "done" /\ t \notin errors
  BY StopIsOver
<1>2. ~heartbeat /\ ~flags.started /\ stopping[t] = "done"
  BY <1>1 DEF LifecycleInv, TeardownsFollow, RuntimeAsked, FieldsCleared, Life!Teardowns
<1>3. agent = "down" /\ ~dispatch /\ current = 0
  BY <1>1, <1>2 DEF LifecycleInv, AgentFollows, Life!Teardowns
<1>4. Stilled
  BY <1>1 DEF LifecycleInv, ChannelsStop, ChannelsAsked, Life!Teardowns
<1>5. Life!ChannelDown
  BY <1>4 DEF LifecycleInv, AdapterFollows, Stilled, Life!ChannelDown
<1>6. Life!StartSettled
  BY StopIsOver DEF LifecycleInv, StartsSettle
<1> QED
  BY <1>2, <1>3, <1>5, <1>6, StopIsOver DEF Life!Down

\* A start() that failed by itself, and whose clean-up had no errors, has left nothing up.
LEMMA CleanFailures ==
    ASSUME LifecycleInv, start = "failed", halt = "none", errors = {}
    PROVE  Life!Down
<1>1. teardown["cleanup"] = "done"
  BY DEF LifecycleInv, StopsInOrder, StartsSettle
<1>2. ~heartbeat /\ ~flags.started /\ stopping["cleanup"] = "done"
  BY <1>1 DEF LifecycleInv, TeardownsFollow, RuntimeAsked, FieldsCleared, Life!Teardowns
<1>3. agent = "down" /\ ~dispatch /\ current = 0
  BY <1>2 DEF LifecycleInv, AgentFollows, Life!Teardowns
<1>4. Life!ChannelDown
  BY <1>1 DEF LifecycleInv, ChannelsRemembered, AdapterFollows, Stilled, Life!ChannelDown
<1>5. ~flags.accepting
  BY DEF LifecycleInv, FieldsFollow
<1> QED
  BY <1>2, <1>3, <1>4, <1>5 DEF Life!Down

\* When the last call that a stop() has made has ended, the channel and the heartbeat are down,
\* and the agent is, or has not been stopped.
LEMMA StopsEnd ==
    ASSUME LifecycleInv, halt = "done", Life!AtRest
    PROVE  /\ Life!ChannelDown /\ ~heartbeat /\ ~flags.accepting /\ ~flags.started
           /\ \/ agent = "down" /\ ~dispatch
              \/ \E t \in Life!Teardowns : stopping[t] \in {"runs", "failed"}
<1>1. ~heartbeat /\ ~flags.started
  BY StopIsOver DEF LifecycleInv, TeardownsFollow, FieldsCleared, Life!Teardowns
<1>2. StopAsked
  BY StopIsOver DEF LifecycleInv, ChannelsStop, ChannelsAsked, Life!Teardowns
<1>3. Life!ChannelDown
  BY <1>2 DEF LifecycleInv, AdapterFollows, StopAsked, Life!AtRest, Life!ChannelDown
<1>4. stopping["first"] # "none" /\ stopping["first"] # "agent"
  BY StopIsOver DEF LifecycleInv, TeardownsFollow, RuntimeAsked, Life!AtRest, Life!Teardowns
<1>5. stopping["first"] \in {"none", "runs", "agent", "done", "failed"}
  BY DEF LifecycleInv, TeardownsShape, Life!Teardowns
<1>6. stopping["first"] = "done" => agent = "down" /\ ~dispatch
  BY DEF LifecycleInv, AgentFollows, Life!Teardowns
<1>7. \/ agent = "down" /\ ~dispatch
      \/ \E t \in Life!Teardowns : stopping[t] \in {"runs", "failed"}
  BY <1>4, <1>5, <1>6 DEF Life!Teardowns
<1> QED
  BY <1>1, <1>3, <1>7, StopIsOver

\* However start() and stop() meet, whatever fails and whatever deadline passes: a stop() that
\* recorded no error, and a start() that failed and cleaned up, leave nothing up; and any stop()
\* leaves nothing up in the end but an agent that could not be stopped.
THEOREM StopsLeaveNothing ==
    ASSUME Life!GatewayLifecycleAssumption
    PROVE  Life!Spec =>
               [](Life!TypeOK /\ Life!CleanEndsAreDown /\ Life!StopsInTheEnd)
<1>1. MaxRuns \in Nat /\ MaxTroubles \in Nat
  BY DEF Life!GatewayLifecycleAssumption
<1>2. Life!Init => LifecycleInv
  BY <1>1, LifecycleBegins
<1>3. LifecycleInv /\ [Life!Next]_(Life!vars) => LifecycleInv'
  BY <1>1, LifecycleKeeps
<1>4. LifecycleInv =>
          Life!TypeOK /\ Life!CleanEndsAreDown /\ Life!StopsInTheEnd
  BY CleanStops, CleanFailures, StopsEnd DEF LifecycleInv, Life!CleanEndsAreDown,
     Life!StopsInTheEnd
<1> QED
  BY <1>2, <1>3, <1>4, PTL DEF Life!Spec

-----------------------------------------------------------------------------
(***************************************************************************)
(* The update of the application, UpdateInstall, for any number of tasks   *)
(* and of releases.                                                        *)
(*                                                                         *)
(* The argument: from the authorization of an installation on, the file is *)
(* that of the release that is shown and the one to be installed, since    *)
(* only checks and downloads change them, and one operation is under way   *)
(* at a time.  Once admissions have settled behind the fence nothing is    *)
(* admitted or started: what can still appear is steering of a running job *)
(* that comes back, which carries on one that the user was shown, until    *)
(* cancellation has marked all that run.  So when the gateway has stopped  *)
(* with nothing running, nothing waits, and no job is lost with it.        *)
(***************************************************************************)
CONSTANTS MaxTasks, MaxReleases

VARIABLES published, paused, progress, release, installer, op, installing, approved, fenced,
          task, origin, steered, discard, process

\* The update of the application.
Update == INSTANCE UpdateInstall WITH phase <- progress, file <- installer, gateway <- process

\* The steps of an operation, and those from which on it installs.
OpSteps == {"none", "checking", "downloading", "fetching", "authorizing", "confirming",
            "settling", "reauthorizing", "cancelling", "stopping", "launching"}
OpShape == op \in [at : OpSteps, target : 0..MaxReleases]
ToInstall == {"authorizing", "confirming", "settling", "reauthorizing", "cancelling",
              "stopping", "launching"}

\* The phases that are shown, and what can be known of a job.
Phases == {"idle", "checking", "available", "downloading", "ready", "preparing", "installing",
           "error"}
JobStates == {"none", "admitting", "refused", "queued", "active", "stopping", "done",
              "cancelled", "lost"}

\* The steps of an installation behind the fence.
BehindFence == {"settling", "reauthorizing", "cancelling", "stopping"}

\* The file is that of the release the service shows, which is the one to be installed.
ReleaseStays ==
    /\ installer # 0 => installer = release
    /\ op.at \in ToInstall => installer = release /\ op.target = release
    /\ installing => installer = release

\* The installer runs while nothing else is done, and the gateway is down.
InstallsAlone ==
    /\ installing => op.at \in {"none", "launching"} /\ process = "stopped"
    /\ op.at = "launching" => installing

\* No job is admitted behind the fence once those under way have settled, none is left that
\* waits, and the running ones bring nothing back, once they are being cancelled; and there
\* are none without a gateway.
JobsSettle ==
    /\ op.at \in {"reauthorizing", "cancelling", "stopping"} => Update!Admitting = {}
    /\ op.at \in {"cancelling", "stopping"} =>
          Update!Waiting = {} /\ Update!Running \subseteq discard
    /\ process # "up" => Update!Running \cup Update!Waiting \cup Update!Admitting = {}
    /\ \A t \in Update!Tasks : task[t] # "lost"

\* What the user has confirmed was a job; and what is left to be stopped is that, or steering
\* of it that came back.
JobsAreKnown ==
    /\ \A t \in approved : task[t] # "none"
    /\ op.at = "reauthorizing" =>
          \A t \in Update!Snapshot : \E u \in approved : origin[t] = origin[u]

\* The inductive invariant.
UpdateInv ==
    /\ Update!TypeOK /\ OpShape /\ Update!FenceIsLifted /\ ReleaseStays /\ InstallsAlone
    /\ JobsSettle /\ JobsAreKnown

-----------------------------------------------------------------------------
\* What the service and the scheduler are made of.
LEMMA Parts ==
    ASSUME Update!UpdateAssumption, UpdateInv
    PROVE  /\ release \in 0..MaxReleases /\ Update!Offered \in 0..MaxReleases
           /\ installer \in 0..MaxReleases /\ 0 \in 0..MaxReleases
           /\ installing \in BOOLEAN /\ fenced \in BOOLEAN
           /\ fenced <=> installing \/ op.at \in BehindFence
<1>1. MaxReleases \in Nat /\ published \in 1..MaxReleases
  BY DEF Update!UpdateAssumption, UpdateInv, Update!TypeOK, Update!Releases
<1>2. fenced <=> installing \/ op.at \in BehindFence
  BY Zenon DEF UpdateInv, Update!FenceIsLifted, BehindFence
<1> QED
  BY <1>1, <1>2 DEF UpdateInv, Update!TypeOK, Update!Offered

\* An operation that goes on keeps what it was asked for; one that ends is gone.
LEMMA OpGoesOn ==
    ASSUME OpShape, NEW step \in OpSteps, Update!Step(step)
    PROVE  OpShape' /\ op'.at = step /\ op'.target = op.target
BY DEF OpShape, OpSteps, Update!Step

LEMMA OpIsOver ==
    ASSUME Update!UpdateAssumption, NEW p, Update!OpEnds(p)
    PROVE  OpShape' /\ op'.at = "none" /\ progress' = p
BY DEF OpShape, OpSteps, Update!OpEnds, Update!NoOp, Update!UpdateAssumption

\* A release is published.
LEMMA AfterPublish ==
    ASSUME Update!UpdateAssumption, UpdateInv, Update!Publish
    PROVE  UpdateInv'
<1>1. /\ OpShape' /\ Update!FenceIsLifted' /\ ReleaseStays' /\ InstallsAlone' /\ JobsSettle'
      /\ JobsAreKnown'
  BY DEF UpdateInv, Update!Publish, Update!service, Update!scheduler, OpShape,
     Update!FenceIsLifted, ReleaseStays, InstallsAlone, JobsSettle, Update!Admitting,
     Update!Waiting, Update!Running, JobsAreKnown, Update!Snapshot
<1>2. Update!TypeOK'
  <2>1. published' \in Update!Releases
    BY Parts DEF Update!Publish, Update!Releases, UpdateInv, Update!TypeOK,
       Update!UpdateAssumption
  <2>2. paused' \in BOOLEAN
    BY Zenon DEF Update!Publish
  <2> QED
    BY <2>1, <2>2 DEF UpdateInv, Update!Publish, Update!service, Update!scheduler,
       Update!TypeOK
<1> QED
  BY <1>1, <1>2 DEF UpdateInv

\* The channel is paused.
LEMMA AfterPause ==
    ASSUME Update!UpdateAssumption, UpdateInv, Update!Pause
    PROVE  UpdateInv'
<1>1. /\ OpShape' /\ Update!FenceIsLifted' /\ ReleaseStays' /\ InstallsAlone' /\ JobsSettle'
      /\ JobsAreKnown'
  BY DEF UpdateInv, Update!Pause, Update!service, Update!scheduler, OpShape,
     Update!FenceIsLifted, ReleaseStays, InstallsAlone, JobsSettle, Update!Admitting,
     Update!Waiting, Update!Running, JobsAreKnown, Update!Snapshot
<1>2. Update!TypeOK'
  BY DEF UpdateInv, Update!Pause, Update!service, Update!scheduler, Update!TypeOK
<1> QED
  BY <1>1, <1>2 DEF UpdateInv

\* A job is being admitted.
LEMMA AfterAdmit ==
    ASSUME Update!UpdateAssumption, UpdateInv, NEW t \in Update!Tasks, Update!Admit(t)
    PROVE  UpdateInv'
<1>1. OpShape' /\ Update!FenceIsLifted' /\ ReleaseStays' /\ InstallsAlone'
  BY DEF UpdateInv, Update!Admit, Update!service, OpShape, Update!FenceIsLifted, ReleaseStays,
     InstallsAlone
<1>2. Update!TypeOK'
  BY DEF UpdateInv, Update!Admit, Update!Set, Update!server, Update!service, Update!TypeOK
<1>3. JobsSettle'
  BY Parts DEF UpdateInv, Update!Admit, Update!Set, Update!service, Update!TypeOK, JobsSettle,
     BehindFence, Update!Admitting, Update!Waiting, Update!Running
<1>4. JobsAreKnown'
  BY DEF UpdateInv, Update!Admit, Update!Set, Update!service, JobsAreKnown, Update!Snapshot,
     Update!Waiting, Update!Running
<1> QED
  BY <1>1, <1>2, <1>3, <1>4 DEF UpdateInv

\* It was admitted, or refused.
LEMMA AfterAdmitted ==
    ASSUME Update!UpdateAssumption, UpdateInv, NEW t \in Update!Tasks, Update!Admitted(t)
    PROVE  UpdateInv'
<1>1. OpShape' /\ Update!FenceIsLifted' /\ ReleaseStays' /\ InstallsAlone'
  BY DEF UpdateInv, Update!Admitted, Update!service, OpShape, Update!FenceIsLifted,
     ReleaseStays, InstallsAlone
<1>2. Update!TypeOK' /\ JobsSettle' /\ JobsAreKnown'
  BY DEF UpdateInv, Update!Admitted, Update!Set, Update!server, Update!service, Update!TypeOK,
     OpShape, JobsSettle, Update!Admitting, Update!Waiting, Update!Running, JobsAreKnown,
     Update!Snapshot
<1> QED
  BY <1>1, <1>2 DEF UpdateInv

\* It starts.
LEMMA AfterStart ==
    ASSUME Update!UpdateAssumption, UpdateInv, NEW t \in Update!Tasks, Update!Start(t)
    PROVE  UpdateInv'
<1>1. OpShape' /\ Update!FenceIsLifted' /\ ReleaseStays' /\ InstallsAlone'
  BY DEF UpdateInv, Update!Start, Update!service, OpShape, Update!FenceIsLifted, ReleaseStays,
     InstallsAlone
<1>2. Update!TypeOK' /\ JobsSettle' /\ JobsAreKnown'
  BY DEF UpdateInv, Update!Start, Update!Set, Update!server, Update!service, Update!TypeOK,
     JobsSettle, Update!Admitting, Update!Waiting, Update!Running, JobsAreKnown,
     Update!Snapshot
<1> QED
  BY <1>1, <1>2 DEF UpdateInv

\* A turn accepts steering.
LEMMA AfterSteer ==
    ASSUME Update!UpdateAssumption, UpdateInv, NEW t \in Update!Tasks, Update!Steer(t)
    PROVE  UpdateInv'
<1>1. /\ OpShape' /\ Update!FenceIsLifted' /\ ReleaseStays' /\ InstallsAlone' /\ JobsSettle'
      /\ JobsAreKnown'
  BY DEF UpdateInv, Update!Steer, Update!service, OpShape, Update!FenceIsLifted, ReleaseStays,
     InstallsAlone, JobsSettle, Update!Admitting, Update!Waiting, Update!Running, JobsAreKnown,
     Update!Snapshot
<1>2. Update!TypeOK'
  BY DEF UpdateInv, Update!Steer, Update!server, Update!service, Update!TypeOK
<1> QED
  BY <1>1, <1>2 DEF UpdateInv

\* It consumes it.
LEMMA AfterConsume ==
    ASSUME Update!UpdateAssumption, UpdateInv, NEW t \in Update!Tasks, Update!Consume(t)
    PROVE  UpdateInv'
<1>1. /\ OpShape' /\ Update!FenceIsLifted' /\ ReleaseStays' /\ InstallsAlone' /\ JobsSettle'
      /\ JobsAreKnown'
  BY DEF UpdateInv, Update!Consume, Update!service, OpShape, Update!FenceIsLifted,
     ReleaseStays, InstallsAlone, JobsSettle, Update!Admitting, Update!Waiting, Update!Running,
     JobsAreKnown, Update!Snapshot
<1>2. Update!TypeOK'
  BY DEF UpdateInv, Update!Consume, Update!server, Update!service, Update!TypeOK
<1> QED
  BY <1>1, <1>2 DEF UpdateInv

\* A turn ends, and steering it did not consume comes back as a job.
LEMMA AfterEnd ==
    ASSUME Update!UpdateAssumption, UpdateInv, NEW t \in Update!Tasks, Update!End(t)
    PROVE  UpdateInv'
<1>1. OpShape' /\ Update!FenceIsLifted' /\ ReleaseStays' /\ InstallsAlone'
  BY DEF UpdateInv, Update!End, Update!service, OpShape, Update!FenceIsLifted, ReleaseStays,
     InstallsAlone
<1>2. Update!TypeOK' /\ JobsSettle'
  BY DEF UpdateInv, Update!End, Update!Running, Update!Set, Update!server, Update!service,
     Update!TypeOK, OpShape, JobsSettle, Update!Admitting, Update!Waiting
<1>3. JobsAreKnown'
  <2>1. /\ t \in Update!Tasks /\ task[t] # "none" /\ t \in Update!Snapshot
        /\ \A v \in approved : v \in Update!Tasks
        /\ approved' = approved /\ op' = op
    BY DEF UpdateInv, Update!TypeOK, Update!End, Update!service, Update!Snapshot,
       Update!Running
  <2>2. PICK u \in Update!Tasks :
           /\ u # t => task[u] = "none" /\ origin'[u] = origin[t]
           /\ \A v \in Update!Tasks \ {t, u} : task'[v] = task[v] /\ origin'[v] = origin[v]
           /\ task'[t] \in {"done", "cancelled"} /\ origin'[t] = origin[t]
    BY <2>1 DEF UpdateInv, Update!TypeOK, Update!End, Update!Set, Update!Fresh
  <2>3. \A v \in approved : v \in Update!Tasks /\ (u # t => v # u) /\ task'[v] # "none"
        /\ origin'[v] = origin[v]
    BY <2>1, <2>2 DEF UpdateInv, JobsAreKnown
  <2>4. ASSUME op.at = "reauthorizing", NEW w \in Update!Snapshot'
        PROVE  \E v \in approved : origin'[w] = origin[v]
    <3>1. CASE w = u /\ u # t
      BY <2>1, <2>2, <2>4, <3>1 DEF UpdateInv, JobsAreKnown
    <3>2. CASE w # u \/ u = t
      <4>1. w \in Update!Snapshot /\ origin'[w] = origin[w]
        BY <2>1, <2>2, <3>2 DEF Update!Snapshot, Update!Waiting, Update!Running, Update!Tasks
      <4> QED BY <4>1, <2>4 DEF UpdateInv, JobsAreKnown
    <3> QED BY <3>1, <3>2
  <2> QED BY <2>1, <2>3, <2>4 DEF JobsAreKnown
<1> QED
  BY <1>1, <1>2, <1>3 DEF UpdateInv

\* A check begins.
LEMMA AfterCheck ==
    ASSUME Update!UpdateAssumption, UpdateInv, Update!Check
    PROVE  UpdateInv'
<1>1. Update!TypeOK' /\ Update!FenceIsLifted' /\ ReleaseStays' /\ InstallsAlone'
  BY DEF UpdateInv, Update!Check, Update!MayBegin, Update!NoOp, Update!server,
     Update!scheduler, Update!TypeOK, Update!FenceIsLifted, ReleaseStays, ToInstall,
     InstallsAlone
<1>2. OpShape'
  BY OpIsOver, Parts DEF UpdateInv, OpShape, OpSteps, Update!Check, Update!Releases,
     Update!MayBegin
<1>3. JobsSettle' /\ JobsAreKnown'
  BY DEF UpdateInv, Update!Check, Update!scheduler, JobsSettle, Update!Admitting,
     Update!Waiting, Update!Running, JobsAreKnown
<1> QED
  BY <1>1, <1>2, <1>3 DEF UpdateInv

\* The server has answered it, or failed to.
LEMMA AfterCheckAnswered ==
    ASSUME Update!UpdateAssumption, UpdateInv, Update!CheckAnswered
    PROVE  UpdateInv'
<1>1. \/ OpShape' /\ op'.at = "none" /\ progress' = "error" /\ installer' = installer
         /\ release' = release
      \/ OpShape' /\ op'.at = "none" /\ progress' \in {"idle", "ready", "available"}
         /\ release' \in 0..MaxReleases /\ installer' \in 0..MaxReleases
         /\ (installer' # 0 => installer' = installer /\ release' = release)
  BY Parts, OpIsOver DEF Update!CheckAnswered
<1>2. Update!TypeOK'
  BY <1>1, Parts DEF UpdateInv, Update!CheckAnswered, Update!At, Update!server,
     Update!scheduler, Update!TypeOK
<1>3. OpShape' /\ Update!FenceIsLifted' /\ ReleaseStays' /\ InstallsAlone'
  BY <1>1 DEF UpdateInv, Update!CheckAnswered, Update!At, OpShape, Update!FenceIsLifted,
     ReleaseStays, ToInstall, InstallsAlone
<1>4. JobsSettle' /\ JobsAreKnown'
  BY <1>1 DEF UpdateInv, Update!CheckAnswered, Update!scheduler, JobsSettle, Update!Admitting,
     Update!Waiting, Update!Running, JobsAreKnown
<1> QED
  BY <1>1, <1>2, <1>3, <1>4 DEF UpdateInv

\* A download begins, unless it is of another release.
LEMMA AfterDownload ==
    ASSUME Update!UpdateAssumption, UpdateInv,
           NEW target \in Update!Releases, Update!Download(target)
    PROVE  UpdateInv'
<1>1. Update!TypeOK' /\ Update!FenceIsLifted' /\ ReleaseStays' /\ InstallsAlone'
  BY DEF UpdateInv, Update!Download, Update!MayBegin, Update!OpEnds, Update!NoOp,
     Update!server, Update!scheduler, Update!TypeOK, OpShape, Update!FenceIsLifted,
     ReleaseStays, ToInstall, InstallsAlone
<1>2. OpShape'
  BY OpIsOver, Parts DEF UpdateInv, OpShape, OpSteps, Update!Download, Update!Releases,
     Update!MayBegin
<1>3. JobsSettle' /\ JobsAreKnown'
  BY DEF UpdateInv, Update!Download, Update!MayBegin, Update!OpEnds, Update!NoOp,
     Update!scheduler, JobsSettle, Update!Admitting, Update!Waiting, Update!Running,
     JobsAreKnown
<1> QED
  BY <1>1, <1>2, <1>3 DEF UpdateInv

\* The server still offers the release, or it does not.
LEMMA AfterDownloadAnswered ==
    ASSUME Update!UpdateAssumption, UpdateInv, Update!DownloadAnswered
    PROVE  UpdateInv'
<1>1. \/ OpShape' /\ op'.at = "none" /\ progress' = "error" /\ installer' = 0
         /\ release' = release
      \/ OpShape' /\ op'.at = "fetching" /\ op'.target = op.target /\ progress' = "downloading"
         /\ installer' = 0
  BY OpGoesOn, OpIsOver DEF UpdateInv, OpSteps, Update!DownloadAnswered
<1>2. Update!TypeOK'
  BY <1>1, Parts DEF UpdateInv, Update!DownloadAnswered, Update!At, Update!server,
     Update!scheduler, Update!TypeOK
<1>3. OpShape' /\ Update!FenceIsLifted' /\ ReleaseStays' /\ InstallsAlone'
  BY <1>1 DEF UpdateInv, Update!DownloadAnswered, Update!At, OpShape, Update!FenceIsLifted,
     ReleaseStays, ToInstall, InstallsAlone
<1>4. JobsSettle' /\ JobsAreKnown'
  BY <1>1 DEF UpdateInv, Update!DownloadAnswered, Update!scheduler, JobsSettle,
     Update!Admitting, Update!Waiting, Update!Running, JobsAreKnown
<1> QED
  BY <1>1, <1>2, <1>3, <1>4 DEF UpdateInv

\* The file is there and verified, or not.
LEMMA AfterDownloadEnds ==
    ASSUME Update!UpdateAssumption, UpdateInv, Update!DownloadEnds
    PROVE  UpdateInv'
<1>1. \/ OpShape' /\ op'.at = "none" /\ progress' = "error" /\ installer' = 0
      \/ OpShape' /\ op'.at = "none" /\ progress' = "ready" /\ installer' = release
  BY OpIsOver DEF Update!DownloadEnds
<1>2. Update!TypeOK'
  BY <1>1, Parts DEF UpdateInv, Update!DownloadEnds, Update!At, Update!server,
     Update!scheduler, Update!TypeOK
<1>3. OpShape' /\ Update!FenceIsLifted' /\ ReleaseStays' /\ InstallsAlone'
  BY <1>1 DEF UpdateInv, Update!DownloadEnds, Update!At, OpShape, Update!FenceIsLifted,
     ReleaseStays, ToInstall, InstallsAlone
<1>4. JobsSettle' /\ JobsAreKnown'
  BY <1>1 DEF UpdateInv, Update!DownloadEnds, Update!scheduler, JobsSettle, Update!Admitting,
     Update!Waiting, Update!Running, JobsAreKnown
<1> QED
  BY <1>1, <1>2, <1>3, <1>4 DEF UpdateInv

\* An installation begins, unless it has no file.
LEMMA AfterInstall ==
    ASSUME Update!UpdateAssumption, UpdateInv,
           NEW target \in Update!Releases, Update!Install(target)
    PROVE  UpdateInv'
<1>1. Update!TypeOK' /\ Update!FenceIsLifted' /\ ReleaseStays' /\ InstallsAlone'
  BY DEF UpdateInv, Update!Install, Update!MayBegin, Update!OpEnds, Update!NoOp, Update!server,
     Update!scheduler, Update!TypeOK, Update!FenceIsLifted, ReleaseStays, InstallsAlone
<1>2. OpShape'
  BY OpIsOver, Parts DEF UpdateInv, OpShape, OpSteps, Update!Install, Update!Releases,
     Update!MayBegin
<1>3. JobsSettle' /\ JobsAreKnown'
  BY DEF UpdateInv, Update!Install, Update!MayBegin, Update!OpEnds, Update!NoOp,
     Update!scheduler, JobsSettle, Update!Admitting, Update!Waiting, Update!Running,
     JobsAreKnown
<1> QED
  BY <1>1, <1>2, <1>3 DEF UpdateInv

\* The release may be installed: the user is shown the jobs.
LEMMA AfterAuthorized ==
    ASSUME Update!UpdateAssumption, UpdateInv, Update!Authorized
    PROVE  UpdateInv'
<1>1. \/ OpShape' /\ op'.at = "none" /\ progress' = "error" /\ approved' = approved
         /\ installing' = installing
      \/ OpShape' /\ op'.at = "confirming" /\ op'.target = op.target
         /\ approved' = Update!Snapshot
         /\ progress' = progress /\ installing' = installing
  BY OpGoesOn, OpIsOver DEF UpdateInv, OpSteps, Update!Authorized, Update!Fails
<1>2. Update!TypeOK' /\ OpShape'
  BY <1>1 DEF UpdateInv, Update!Authorized, Update!server, Update!scheduler, Update!TypeOK,
     OpShape, Update!Waiting, Update!Running, JobsAreKnown, Update!Snapshot
<1>3. Update!FenceIsLifted' /\ ReleaseStays' /\ InstallsAlone' /\ JobsSettle'
  BY <1>1 DEF UpdateInv, Update!Authorized, Update!At, Update!scheduler, Update!FenceIsLifted,
     ReleaseStays, ToInstall, InstallsAlone, JobsSettle, Update!Admitting, Update!Waiting,
     Update!Running
<1>4. JobsAreKnown'
  BY <1>1 DEF UpdateInv, Update!Authorized, Update!scheduler, JobsAreKnown, Update!Snapshot,
     Update!Waiting, Update!Running
<1> QED
  BY <1>1, <1>2, <1>3, <1>4 DEF UpdateInv

\* The user declines.
LEMMA AfterDeclined ==
    ASSUME Update!UpdateAssumption, UpdateInv, Update!Declined
    PROVE  UpdateInv'
<1>1. OpShape' /\ op'.at = "none" /\ progress' = "ready"
  BY OpIsOver DEF Update!Declined
<1>2. Update!TypeOK' /\ OpShape' /\ Update!FenceIsLifted' /\ ReleaseStays'
  BY <1>1 DEF UpdateInv, Update!Declined, Update!At, Update!server, Update!scheduler,
     Update!TypeOK, OpShape, Update!FenceIsLifted, ReleaseStays, ToInstall
<1>3. InstallsAlone' /\ JobsSettle' /\ JobsAreKnown'
  BY <1>1 DEF UpdateInv, Update!Declined, Update!scheduler, InstallsAlone, JobsSettle,
     Update!Admitting, Update!Waiting, Update!Running, JobsAreKnown
<1> QED
  BY <1>1, <1>2, <1>3 DEF UpdateInv

\* The user agrees: the fence goes up, or cannot.
LEMMA AfterConfirmed ==
    ASSUME Update!UpdateAssumption, UpdateInv, Update!Confirmed
    PROVE  UpdateInv'
<1>1. \/ OpShape' /\ op'.at = "none" /\ progress' = "error" /\ installing' = installing
         /\ approved' = approved /\ fenced' = fenced
      \/ OpShape' /\ op'.at = "settling" /\ op'.target = op.target /\ installing' = installing
         /\ approved' = approved
         /\ progress' = progress /\ fenced' = TRUE
  BY OpGoesOn, OpIsOver DEF UpdateInv, OpSteps, Update!Confirmed, Update!Fails
<1>2. Update!TypeOK'
  BY <1>1 DEF UpdateInv, Update!Confirmed, Update!At, Update!server, Update!scheduler,
     Update!TypeOK, Update!Releases, Update!Tasks
<1>3. OpShape'
  BY <1>1 DEF OpShape
<1>4. Update!FenceIsLifted'
  <2>1. fenced' \in BOOLEAN /\ installing' \in BOOLEAN
    BY <1>1, Parts DEF UpdateInv, Update!Confirmed, Update!At, Update!server, Update!scheduler
  <2>2. fenced' <=> installing' \/ op'.at \in BehindFence
    BY <1>1, Parts DEF UpdateInv, Update!Confirmed, Update!At, Update!server, Update!scheduler,
       InstallsAlone, BehindFence
  <2> QED BY <2>1, <2>2 DEF Update!FenceIsLifted, BehindFence
<1>5. ReleaseStays' /\ InstallsAlone' /\ JobsSettle' /\ JobsAreKnown'
  BY <1>1 DEF UpdateInv, Update!Confirmed, Update!At, Update!scheduler, ReleaseStays,
     ToInstall, InstallsAlone, JobsSettle, Update!Admitting, Update!Waiting, Update!Running,
     JobsAreKnown
<1> QED
  BY <1>1, <1>2, <1>3, <1>4, <1>5 DEF UpdateInv

\* Admissions have settled: what is new to the user is shown to him.
LEMMA AfterSettled ==
    ASSUME Update!UpdateAssumption, UpdateInv, Update!Settled
    PROVE  UpdateInv'
<1>1. \/ OpShape' /\ op'.at = "none" /\ progress' = "error" /\ installing' = installing
         /\ approved' = approved /\ fenced' = FALSE
      \/ OpShape' /\ op'.at = "confirming" /\ op'.target = op.target
         /\ approved' = Update!Snapshot
         /\ progress' = progress /\ installing' = installing /\ fenced' = FALSE
      \/ OpShape' /\ op'.at = "reauthorizing" /\ op'.target = op.target
         /\ installing' = installing /\ approved' = approved
         /\ progress' = progress /\ fenced' = fenced /\ Update!Admitting = {}
         /\ Update!Snapshot \subseteq approved
  BY OpGoesOn, OpIsOver DEF UpdateInv, OpSteps, Update!Settled, Update!Fails
<1>2. Update!TypeOK'
  BY <1>1, Parts DEF UpdateInv, Update!Settled, Update!server, Update!scheduler, Update!TypeOK,
     Update!Snapshot, Update!Waiting, Update!Running
<1>3. OpShape' /\ ReleaseStays' /\ InstallsAlone' /\ JobsSettle'
  BY <1>1 DEF UpdateInv, Update!Settled, Update!At, Update!scheduler, OpShape, ReleaseStays,
     ToInstall, InstallsAlone, JobsSettle, Update!Admitting, Update!Waiting, Update!Running
<1>4. Update!FenceIsLifted'
  <2>1. fenced' \in BOOLEAN /\ installing' \in BOOLEAN
    BY <1>1, Parts DEF UpdateInv, Update!Settled, Update!At, Update!server, Update!scheduler
  <2>2. fenced' <=> installing' \/ op'.at \in BehindFence
    BY <1>1, Parts DEF UpdateInv, Update!Settled, Update!At, Update!server, Update!scheduler,
       InstallsAlone, BehindFence
  <2> QED BY <2>1, <2>2 DEF Update!FenceIsLifted, BehindFence
<1>5. JobsAreKnown'
  BY <1>1 DEF UpdateInv, Update!Settled, Update!scheduler, JobsAreKnown, Update!Snapshot,
     Update!Waiting, Update!Running
<1> QED
  BY <1>1, <1>2, <1>3, <1>4, <1>5 DEF UpdateInv

\* The release may still be installed: the jobs are cancelled.
LEMMA AfterReauthorized ==
    ASSUME Update!UpdateAssumption, UpdateInv, Update!Reauthorized
    PROVE  UpdateInv'
<1>1. \/ OpShape' /\ op'.at = "none" /\ progress' = "error" /\ installing' = installing
         /\ approved' = approved /\ fenced' = FALSE /\ task' = task /\ discard' = discard
      \/ OpShape' /\ op'.at = "cancelling" /\ op'.target = op.target
         /\ installing' = installing /\ approved' = approved
         /\ progress' = progress /\ fenced' = fenced /\ discard' = discard \cup Update!Running
         /\ task' = [t \in Update!Tasks |->
                        IF t \in Update!Waiting THEN "cancelled"
                        ELSE IF t \in Update!Running THEN "stopping" ELSE task[t]]
  BY OpGoesOn, OpIsOver DEF UpdateInv, OpSteps, Update!Reauthorized, Update!Fails
<1>2. Update!TypeOK'
  <2>1. task' \in [Update!Tasks -> JobStates] /\ discard' \subseteq Update!Tasks
    BY <1>1 DEF UpdateInv, Update!TypeOK, Update!Running, JobStates
  <2> QED
    BY <1>1, <2>1, Parts DEF UpdateInv, Update!Reauthorized, Update!server, Update!TypeOK,
             JobStates
<1>3. OpShape' /\ ReleaseStays' /\ InstallsAlone' /\ JobsSettle'
  BY <1>1 DEF UpdateInv, Update!Reauthorized, Update!At, OpShape, ReleaseStays, ToInstall,
     InstallsAlone, JobsSettle, Update!Admitting, Update!Waiting, Update!Running
<1>4. Update!FenceIsLifted'
  <2>1. fenced' \in BOOLEAN /\ installing' \in BOOLEAN
    BY <1>1, Parts DEF UpdateInv, Update!Reauthorized, Update!At, Update!server
  <2>2. fenced' <=> installing' \/ op'.at \in BehindFence
    BY <1>1, Parts DEF UpdateInv, Update!Reauthorized, Update!At, Update!server, InstallsAlone,
       BehindFence
  <2> QED BY <2>1, <2>2 DEF Update!FenceIsLifted, BehindFence
<1>5. JobsAreKnown'
  BY <1>1 DEF UpdateInv, Update!TypeOK, OpShape, JobsAreKnown, Update!Snapshot, Update!Waiting,
     Update!Running
<1> QED
  BY <1>1, <1>2, <1>3, <1>4, <1>5 DEF UpdateInv

\* The jobs were asked to stop, or that failed.
LEMMA AfterCancelled ==
    ASSUME Update!UpdateAssumption, UpdateInv, Update!Cancelled
    PROVE  UpdateInv'
<1>1. \/ OpShape' /\ op'.at = "none" /\ progress' = "error" /\ installing' = FALSE
         /\ fenced' = FALSE /\ approved' = approved
         /\ process' \in {"up", "stopped", "stuck"} /\ (process = "up" => process' = "up")
         /\ (process = "stuck" => process' = "stuck")
         /\ \E refused \in SUBSET Update!Running :
              task' = [t \in Update!Tasks |-> IF t \in refused THEN "active" ELSE task[t]]
      \/ OpShape' /\ op'.at = "stopping" /\ op'.target = op.target /\ installing' = installing
         /\ approved' = approved
         /\ progress' = progress /\ fenced' = fenced /\ task' = task /\ process' = process
  BY OpGoesOn, OpIsOver DEF UpdateInv, OpSteps, Update!TypeOK, Update!Cancelled,
     Update!Recovers, Update!scheduler
<1>2. Update!TypeOK'
  <2>1. /\ progress' \in Phases /\ installing' \in BOOLEAN /\ fenced' \in BOOLEAN
        /\ process' \in {"up", "stopped", "stuck"}
    BY <1>1, Parts DEF UpdateInv, Update!TypeOK, Phases
  <2>2. task' \in [Update!Tasks -> JobStates]
    BY <1>1 DEF UpdateInv, Update!Cancelled, Update!At, Update!server, Update!scheduler,
       Update!TypeOK, JobStates
  <2> QED
    BY <1>1, <2>1, <2>2 DEF UpdateInv, Update!Cancelled, Update!At, Update!server,
       Update!scheduler, Update!TypeOK, Phases, JobStates
<1>3. OpShape' /\ ReleaseStays' /\ InstallsAlone'
  BY <1>1 DEF UpdateInv, Update!Cancelled, Update!At, OpShape, ReleaseStays, ToInstall,
     InstallsAlone
<1>4. Update!FenceIsLifted'
  <2>1. fenced' \in BOOLEAN /\ installing' \in BOOLEAN
    BY <1>1, Parts DEF UpdateInv, Update!Cancelled, Update!At, Update!server, Update!scheduler
  <2>2. fenced' <=> installing' \/ op'.at \in BehindFence
    BY <1>1, Parts DEF UpdateInv, Update!Cancelled, Update!At, Update!server, Update!scheduler,
       InstallsAlone, BehindFence
  <2> QED BY <2>1, <2>2 DEF Update!FenceIsLifted, BehindFence
<1>5. JobsSettle'
  <2>1. CASE op'.at = "stopping"
    BY <1>1, <2>1 DEF UpdateInv, Update!Cancelled, Update!At, Update!scheduler, JobsSettle,
       Update!Admitting, Update!Waiting, Update!Running
  <2>2. CASE op'.at = "none"
    BY <1>1, <2>2 DEF UpdateInv, Update!TypeOK, JobsSettle, Update!Admitting, Update!Waiting,
       Update!Running
  <2> QED BY <1>1, <2>1, <2>2
<1>6. JobsAreKnown'
  BY <1>1 DEF UpdateInv, Update!TypeOK, OpShape, JobsAreKnown, Update!Snapshot, Update!Waiting,
     Update!Running
<1> QED
  BY <1>1, <1>2, <1>3, <1>4, <1>5, <1>6 DEF UpdateInv

\* The gateway has stopped, or its process may still run.
LEMMA AfterGatewayStops ==
    ASSUME Update!UpdateAssumption, UpdateInv, Update!GatewayStops
    PROVE  UpdateInv'
<1>1. OpShape' /\ Update!FenceIsLifted' /\ ReleaseStays'
  BY DEF UpdateInv, Update!GatewayStops, Update!service, OpShape, Update!FenceIsLifted,
     ReleaseStays
<1>2. Update!TypeOK' /\ InstallsAlone' /\ JobsSettle' /\ JobsAreKnown'
  BY DEF UpdateInv, Update!GatewayStops, Update!At, Update!server, Update!service,
     Update!TypeOK, InstallsAlone, JobsSettle, Update!Admitting, Update!Waiting,
     Update!Running, JobsAreKnown
<1> QED
  BY <1>1, <1>2 DEF UpdateInv

\* The installer is launched, or the installation fails.
LEMMA AfterStopped ==
    ASSUME Update!UpdateAssumption, UpdateInv, Update!Stopped
    PROVE  UpdateInv'
<1>1. \/ OpShape' /\ op'.at = "none" /\ progress' = "error" /\ installing' = FALSE
         /\ fenced' = FALSE /\ approved' = approved
         /\ process' \in {"up", "stopped", "stuck"} /\ (process = "up" => process' = "up")
         /\ (process = "stuck" => process' = "stuck")
      \/ OpShape' /\ op'.at = "launching" /\ op'.target = op.target /\ process = "stopped"
         /\ process' = process
         /\ progress' = "installing" /\ installing' = TRUE /\ approved' = approved
         /\ fenced' = fenced
  BY OpGoesOn, OpIsOver DEF UpdateInv, OpSteps, Update!TypeOK, Update!Stopped, Update!Recovers,
     Update!scheduler
<1>2. Update!TypeOK'
  <2>1. /\ progress' \in Phases /\ installing' \in BOOLEAN /\ fenced' \in BOOLEAN
        /\ process' \in {"up", "stopped", "stuck"}
    BY <1>1, Parts DEF UpdateInv, Update!TypeOK, Phases
  <2>2. task' \in [Update!Tasks -> JobStates]
    BY <1>1 DEF UpdateInv, Update!Stopped, Update!At, Update!server, Update!scheduler,
       Update!TypeOK, JobStates
  <2> QED
    BY <1>1, <2>1, <2>2 DEF UpdateInv, Update!Stopped, Update!At, Update!server,
       Update!scheduler, Update!TypeOK, Phases, JobStates
<1>3. OpShape' /\ ReleaseStays' /\ InstallsAlone' /\ JobsSettle' /\ JobsAreKnown'
  BY <1>1 DEF UpdateInv, Update!Stopped, Update!At, Update!scheduler, OpShape, ReleaseStays,
     ToInstall, InstallsAlone, JobsSettle, Update!Admitting, Update!Waiting, Update!Running,
     JobsAreKnown
<1>4. Update!FenceIsLifted'
  <2>1. fenced' \in BOOLEAN /\ installing' \in BOOLEAN
    BY <1>1, Parts DEF UpdateInv, Update!Stopped, Update!At, Update!server, Update!scheduler
  <2>2. fenced' <=> installing' \/ op'.at \in BehindFence
    BY <1>1, Parts DEF UpdateInv, Update!Stopped, Update!At, Update!server, Update!scheduler,
       InstallsAlone, BehindFence
  <2> QED BY <2>1, <2>2 DEF Update!FenceIsLifted, BehindFence
<1> QED
  BY <1>1, <1>2, <1>3, <1>4 DEF UpdateInv

\* The installer was launched, or was not.
LEMMA AfterLaunched ==
    ASSUME Update!UpdateAssumption, UpdateInv, Update!Launched
    PROVE  UpdateInv'
<1>1. \/ OpShape' /\ op'.at = "none" /\ progress' = "error" /\ installing' = FALSE
         /\ fenced' = FALSE /\ approved' = approved
         /\ process' \in {"up", "stopped", "stuck"} /\ (process = "up" => process' = "up")
         /\ (process = "stuck" => process' = "stuck")
      \/ OpShape' /\ op'.at = "none" /\ process' = process
         /\ progress' = "installing" /\ installing' = installing /\ approved' = approved
         /\ fenced' = fenced
  BY OpGoesOn, OpIsOver DEF UpdateInv, OpSteps, Update!TypeOK, Update!Launched,
     Update!Recovers, Update!scheduler
<1>2. Update!TypeOK'
  <2>1. /\ progress' \in Phases /\ installing' \in BOOLEAN /\ fenced' \in BOOLEAN
        /\ process' \in {"up", "stopped", "stuck"}
    BY <1>1, Parts DEF UpdateInv, Update!TypeOK, Phases
  <2>2. task' \in [Update!Tasks -> JobStates]
    BY <1>1 DEF UpdateInv, Update!Launched, Update!At, Update!server, Update!scheduler,
       Update!TypeOK, JobStates
  <2> QED
    BY <1>1, <2>1, <2>2 DEF UpdateInv, Update!Launched, Update!At, Update!server,
       Update!scheduler, Update!TypeOK, Phases, JobStates
<1>3. OpShape' /\ ReleaseStays' /\ InstallsAlone' /\ JobsSettle' /\ JobsAreKnown'
  BY <1>1 DEF UpdateInv, Update!Launched, Update!server, Update!scheduler, OpShape,
     ReleaseStays, ToInstall, InstallsAlone, JobsSettle, Update!Admitting, Update!Waiting,
     Update!Running, JobsAreKnown
<1>4. Update!FenceIsLifted'
  <2>1. fenced' \in BOOLEAN /\ installing' \in BOOLEAN
    BY <1>1, Parts
  <2>2. installing /\ fenced
    BY Parts DEF UpdateInv, Update!Launched, Update!At, InstallsAlone
  <2>3. fenced' <=> installing' \/ op'.at \in BehindFence
    BY <1>1, <2>2 DEF BehindFence
  <2> QED BY <2>1, <2>3 DEF Update!FenceIsLifted, BehindFence
<1> QED
  BY <1>1, <1>2, <1>3, <1>4 DEF UpdateInv

-----------------------------------------------------------------------------
\* The invariant holds before the first check.
LEMMA UpdateBegins ==
    ASSUME Update!UpdateAssumption, Update!Init
    PROVE  UpdateInv
<1>1. Update!TypeOK
  <2>1. paused \in BOOLEAN /\ installing \in BOOLEAN /\ fenced \in BOOLEAN
    BY Zenon DEF Update!Init
  <2>2. published \in Update!Releases /\ release \in 0..MaxReleases /\ installer \in 0..MaxReleases
    BY DEF Update!Init, Update!UpdateAssumption, Update!Releases
  <2> QED
    BY <2>1, <2>2 DEF Update!Init, Update!TypeOK
<1>2. OpShape /\ ReleaseStays /\ InstallsAlone
  BY DEF Update!UpdateAssumption, Update!Init, Update!NoOp, OpShape, OpSteps, ReleaseStays,
     ToInstall, InstallsAlone
<1>3. Update!FenceIsLifted
  BY DEF Update!Init, Update!NoOp, Update!FenceIsLifted
<1>4. JobsSettle /\ JobsAreKnown
  BY DEF Update!Init, Update!NoOp, JobsSettle, JobsAreKnown, Update!Tasks
<1> QED
  BY <1>1, <1>2, <1>3, <1>4 DEF UpdateInv

\* A step that changes nothing keeps it.
LEMMA UpdateStays ==
    ASSUME UpdateInv, UNCHANGED Update!vars
    PROVE  UpdateInv'
<1>1. Update!TypeOK' /\ OpShape' /\ Update!FenceIsLifted' /\ ReleaseStays' /\ InstallsAlone'
  BY DEF UpdateInv, Update!vars, Update!server, Update!service, Update!scheduler, Update!TypeOK,
     OpShape, Update!FenceIsLifted, ReleaseStays, InstallsAlone
<1>2. JobsSettle' /\ JobsAreKnown'
  BY DEF UpdateInv, Update!vars, Update!service, Update!scheduler, JobsSettle, JobsAreKnown,
     Update!Admitting, Update!Waiting, Update!Running, Update!Snapshot
<1> QED
  BY <1>1, <1>2 DEF UpdateInv

\* Every step of an update, of the server and of the scheduler keeps it.
LEMMA UpdateKeeps ==
    ASSUME Update!UpdateAssumption, UpdateInv, [Update!Next]_(Update!vars)
    PROVE  UpdateInv'
<1>1. CASE Update!Publish \/ Update!Pause
  BY <1>1, AfterPublish, AfterPause
<1>2. ASSUME NEW t \in Update!Tasks,
             \/ Update!Admit(t) \/ Update!Admitted(t) \/ Update!Start(t)
             \/ Update!Steer(t) \/ Update!Consume(t) \/ Update!End(t)
      PROVE  UpdateInv'
  BY <1>2, AfterAdmit, AfterAdmitted, AfterStart, AfterSteer, AfterConsume, AfterEnd
<1>3. CASE Update!Check \/ Update!CheckAnswered
  BY <1>3, AfterCheck, AfterCheckAnswered
<1>4. ASSUME NEW target \in Update!Releases, Update!Download(target) \/ Update!Install(target)
      PROVE  UpdateInv'
  BY <1>4, AfterDownload, AfterInstall
<1>5. CASE Update!DownloadAnswered \/ Update!DownloadEnds
  BY <1>5, AfterDownloadAnswered, AfterDownloadEnds
<1>6. CASE \/ Update!Authorized \/ Update!Declined \/ Update!Confirmed
           \/ Update!Settled \/ Update!Reauthorized
  BY <1>6, AfterAuthorized, AfterDeclined, AfterConfirmed, AfterSettled, AfterReauthorized
<1>7. CASE Update!Cancelled \/ Update!GatewayStops \/ Update!Stopped \/ Update!Launched
  BY <1>7, AfterCancelled, AfterGatewayStops, AfterStopped, AfterLaunched
<1>8. CASE UNCHANGED Update!vars
  BY <1>8, UpdateStays
<1> QED
  BY <1>1, <1>2, <1>3, <1>4, <1>5, <1>6, <1>7, <1>8 DEF Update!Next

\* An installer that runs finds the gateway stopped, no job, and its file.
LEMMA InstallerAlone ==
    ASSUME UpdateInv
    PROVE  Update!InstallsAtRest
BY DEF UpdateInv, Update!InstallsAtRest, Update!At, ReleaseStays, ToInstall, InstallsAlone,
   JobsSettle

\* No other step than that after the second authorization begins to cancel.
LEMMA OnlyOneCancels ==
    ASSUME Update!UpdateAssumption, UpdateInv, [Update!Next]_(Update!vars),
           op'.at = "cancelling", op.at # "cancelling"
    PROVE  Update!Reauthorized
<1>1. /\ \A p : ~Update!OpEnds(p)
      /\ \A step \in OpSteps \ {"cancelling"} : ~Update!Step(step)
      /\ op' # op
  BY OpGoesOn, OpIsOver DEF UpdateInv
<1>2. ~Update!Publish /\ ~Update!Pause /\ ~Update!GatewayStops /\ ~UNCHANGED Update!vars
  BY <1>1 DEF Update!Publish, Update!Pause, Update!GatewayStops, Update!vars, Update!service
<1>3. ASSUME NEW t \in Update!Tasks
      PROVE  /\ ~Update!Admit(t) /\ ~Update!Admitted(t) /\ ~Update!Start(t)
             /\ ~Update!Steer(t) /\ ~Update!Consume(t) /\ ~Update!End(t)
  BY <1>1 DEF Update!Admit, Update!Admitted, Update!Start, Update!Steer, Update!Consume,
     Update!End, Update!service
<1>4. ~Update!Check /\ ~Update!CheckAnswered
  BY <1>1 DEF Update!Check, Update!CheckAnswered
<1>5. ASSUME NEW target \in Update!Releases
      PROVE  ~Update!Download(target) /\ ~Update!Install(target)
  BY <1>1 DEF Update!Download, Update!Install
<1>6. ~Update!DownloadAnswered /\ ~Update!DownloadEnds
  BY <1>1 DEF Update!DownloadAnswered, Update!DownloadEnds, OpSteps
<1>7. ~Update!Authorized /\ ~Update!Declined /\ ~Update!Confirmed /\ ~Update!Settled
  BY <1>1 DEF Update!Authorized, Update!Declined, Update!Confirmed, Update!Settled,
     Update!Fails, OpSteps
<1>8. ~Update!Cancelled /\ ~Update!Stopped /\ ~Update!Launched
  BY <1>1 DEF Update!Cancelled, Update!Stopped, Update!Launched, Update!Recovers, OpSteps
<1> QED
  BY <1>2, <1>3, <1>4, <1>5, <1>6, <1>7, <1>8 DEF Update!Next

\* And it stops jobs that carry on what the user confirmed.
LEMMA KnownWorkStops ==
    ASSUME Update!UpdateAssumption, UpdateInv, [Update!Next]_(Update!vars)
    PROVE  Update!OnlyKnownWorkIsStopped
<1>1. SUFFICES ASSUME op'.at = "cancelling", op.at # "cancelling",
                      NEW t \in Update!Tasks, task'[t] # task[t]
               PROVE  \E u \in approved : origin[t] = origin[u]
  BY DEF Update!OnlyKnownWorkIsStopped
<1>2. Update!Reauthorized
  BY <1>1, OnlyOneCancels
<1>3. op.at = "reauthorizing"
  BY <1>2 DEF Update!Reauthorized, Update!At
<1>4. t \in Update!Snapshot
  BY <1>1, <1>2 DEF Update!Reauthorized, Update!Snapshot
<1> QED
  BY <1>3, <1>4 DEF UpdateInv, JobsAreKnown

\* Wherever an installation of an update ends, by a failure of whatever step, a user who
\* declines or an installer that is launched: the fence around the scheduler is up exactly
\* while it is needed; the installer runs without a gateway and without jobs, on the file of
\* the release that was confirmed; no job goes with the scheduler; and the jobs that are
\* stopped are those the user was shown, or their steering that came back.
THEOREM UpdatesInstallAtRest ==
    ASSUME Update!UpdateAssumption
    PROVE  Update!Spec =>
               /\ [](Update!TypeOK /\ Update!FenceIsLifted /\ Update!InstallsAtRest)
               /\ [][Update!OnlyKnownWorkIsStopped]_(Update!vars)
<1>1. Update!Init => UpdateInv
  BY UpdateBegins
<1>2. UpdateInv /\ [Update!Next]_(Update!vars) => UpdateInv'
  BY UpdateKeeps
<1>3. UpdateInv => Update!TypeOK /\ Update!FenceIsLifted /\ Update!InstallsAtRest
  BY InstallerAlone DEF UpdateInv
<1>4. UpdateInv /\ [Update!Next]_(Update!vars) => [Update!OnlyKnownWorkIsStopped]_(Update!vars)
  BY KnownWorkStops
<1> QED
  BY <1>1, <1>2, <1>3, <1>4, PTL DEF Update!Spec

-----------------------------------------------------------------------------
\* Approvals, for any requests of any sessions and any number of writes that fail.
\* The argument: what is noted of a request, written or not, goes with where it stands, so
\* that the event whose write ends always settles it or opens it to an answer; and who
\* closes something waits for an event of each request that is not settled.
CONSTANTS Requests, Sessions, SessionOf, MaxFailures

VARIABLES approval, aborted, decision, audits, recorded, closed, forgetting, failures

\* The approvals of single operations.
Grants == INSTANCE Approvals WITH Calls <- Requests, call <- approval

\* A sequence in which nothing is twice.
Once(s) == \A i, j \in DOMAIN s : s[i] = s[j] => i = j

\* Appending to a sequence adds what is appended.
LEMMA AppendAdds ==
    ASSUME NEW E, NEW s \in Seq(E), Once(s), NEW e \in E, e \notin Grants!ToSet(s)
    PROVE  /\ Append(s, e) \in Seq(E) /\ Once(Append(s, e))
           /\ Grants!ToSet(Append(s, e)) = Grants!ToSet(s) \cup {e}
<1>1. Append(s, e) \in Seq(E) /\ Len(Append(s, e)) = Len(s) + 1
  OBVIOUS
<1>2. \A i \in 1..(Len(s) + 1) : Append(s, e)[i] = IF i = Len(s) + 1 THEN e ELSE s[i]
  OBVIOUS
<1>3. DOMAIN Append(s, e) = 1..(Len(s) + 1) /\ DOMAIN s = 1..Len(s) /\ Len(s) \in Nat
  BY <1>1
<1>4. Once(Append(s, e))
  BY <1>2, <1>3 DEF Once, Grants!ToSet
<1>5. Grants!ToSet(Append(s, e)) = Grants!ToSet(s) \cup {e}
  <2>1. \A i \in DOMAIN s : i \in DOMAIN Append(s, e) /\ Append(s, e)[i] = s[i]
    BY <1>2, <1>3
  <2>2. Len(s) + 1 \in DOMAIN Append(s, e) /\ Append(s, e)[Len(s) + 1] = e
    BY <1>2, <1>3
  <2>3. \A i \in DOMAIN Append(s, e) : i = Len(s) + 1 \/ i \in DOMAIN s
    BY <1>3
  <2> QED
    BY <2>1, <2>2, <2>3 DEF Grants!ToSet
<1> QED
  BY <1>1, <1>4, <1>5

\* What two sequences have is in both of them together.
LEMMA ConcatAdds ==
    ASSUME NEW E, NEW s \in Seq(E), Once(s), NEW t \in Seq(E), Once(t),
           Grants!ToSet(s) \cap Grants!ToSet(t) = {}
    PROVE  /\ s \o t \in Seq(E) /\ Once(s \o t)
           /\ Grants!ToSet(s \o t) = Grants!ToSet(s) \cup Grants!ToSet(t)
<1>1. s \o t \in Seq(E) /\ DOMAIN (s \o t) = 1..(Len(s) + Len(t))
  OBVIOUS
<1>2. \A i \in 1..(Len(s) + Len(t)) : (s \o t)[i] = IF i <= Len(s) THEN s[i] ELSE t[i - Len(s)]
  OBVIOUS
<1>3. /\ DOMAIN s = 1..Len(s) /\ DOMAIN t = 1..Len(t) /\ Len(s) \in Nat /\ Len(t) \in Nat
  OBVIOUS
<1>4. \A i \in DOMAIN s : i \in DOMAIN (s \o t) /\ (s \o t)[i] = s[i]
  BY <1>1, <1>2, <1>3
<1>5. \A i \in DOMAIN t : Len(s) + i \in DOMAIN (s \o t) /\ (s \o t)[Len(s) + i] = t[i]
  BY <1>1, <1>2, <1>3
<1>6. \A i \in DOMAIN (s \o t) : i \in DOMAIN s \/ \E k \in DOMAIN t : i = Len(s) + k
  <2>1. ASSUME NEW i \in DOMAIN (s \o t), i \notin DOMAIN s
        PROVE  i - Len(s) \in DOMAIN t /\ i = Len(s) + (i - Len(s))
    BY <1>1, <1>3, <2>1
  <2> QED BY <2>1
<1>7. Grants!ToSet(s \o t) = Grants!ToSet(s) \cup Grants!ToSet(t)
  <2>1. ASSUME NEW e \in Grants!ToSet(s \o t)
        PROVE  e \in Grants!ToSet(s) \cup Grants!ToSet(t)
    <3>1. PICK i \in DOMAIN (s \o t) : e = (s \o t)[i]
      BY <2>1 DEF Grants!ToSet
    <3>2. CASE i \in DOMAIN s
      BY <1>4, <3>1, <3>2 DEF Grants!ToSet
    <3>3. CASE i \notin DOMAIN s
      <4>1. PICK k \in DOMAIN t : i = Len(s) + k
        BY <1>6, <3>3
      <4> QED
        BY <1>5, <3>1, <4>1 DEF Grants!ToSet
    <3> QED
      BY <3>2, <3>3
  <2>2. Grants!ToSet(s) \subseteq Grants!ToSet(s \o t)
    BY <1>4 DEF Grants!ToSet
  <2>3. Grants!ToSet(t) \subseteq Grants!ToSet(s \o t)
    BY <1>5 DEF Grants!ToSet
  <2> QED
    BY <2>1, <2>2, <2>3
<1>8. Once(s \o t)
  <2>1. SUFFICES ASSUME NEW i \in DOMAIN (s \o t), NEW j \in DOMAIN (s \o t), (s \o t)[i] = (s \o t)[j]
                 PROVE  i = j
    BY DEF Once
  <2>2. CASE i \in DOMAIN s /\ j \in DOMAIN s
    BY <1>4, <2>1, <2>2 DEF Once
  <2>3. CASE i \notin DOMAIN s /\ j \notin DOMAIN s
    <3>1. PICK k \in DOMAIN t, l \in DOMAIN t : i = Len(s) + k /\ j = Len(s) + l
      BY <1>6, <2>3
    <3> QED BY <1>5, <2>1, <3>1 DEF Once
  <2>4. CASE i \in DOMAIN s /\ j \notin DOMAIN s
    <3>1. PICK l \in DOMAIN t : j = Len(s) + l
      BY <1>6, <2>4
    <3> QED BY <1>4, <1>5, <2>1, <2>4, <3>1 DEF Grants!ToSet
  <2>5. CASE i \notin DOMAIN s /\ j \in DOMAIN s
    <3>1. PICK k \in DOMAIN t : i = Len(s) + k
      BY <1>6, <2>5
    <3> QED BY <1>4, <1>5, <2>1, <2>5, <3>1 DEF Grants!ToSet
  <2> QED BY <2>2, <2>3, <2>4, <2>5
<1> QED
  BY <1>1, <1>7, <1>8

\* Taking one element out of a sequence leaves the others.
LEMMA RemoveAtRemoves ==
    ASSUME NEW E, NEW s \in Seq(E), Once(s), NEW n \in DOMAIN s
    PROVE  /\ Grants!RemoveAt(s, n) \in Seq(E) /\ Once(Grants!RemoveAt(s, n))
           /\ Grants!ToSet(Grants!RemoveAt(s, n)) = Grants!ToSet(s) \ {s[n]}
<1> DEFINE a == SubSeq(s, 1, n - 1)
           b == SubSeq(s, n + 1, Len(s))
<1>1. Len(s) \in Nat /\ n \in 1..Len(s) /\ DOMAIN s = 1..Len(s)
  OBVIOUS
<1>2. /\ a \in Seq(E) /\ DOMAIN a = 1..(n - 1)
      /\ \A i \in 1..(n - 1) : a[i] = s[i]
  BY <1>1
<1>3. /\ b \in Seq(E) /\ DOMAIN b = 1..(Len(s) - n)
      /\ \A i \in 1..(Len(s) - n) : b[i] = s[n + i]
  BY <1>1
<1> HIDE DEF a, b
<1>4. Once(a) /\ Once(b)
  <2>1. Once(a)
    <3>1. \A i \in 1..(n - 1) : i \in DOMAIN s
      BY <1>1
    <3> QED
      BY <1>2, <3>1 DEF Once
  <2>2. SUFFICES ASSUME NEW i \in DOMAIN b, NEW j \in DOMAIN b, b[i] = b[j]
                 PROVE  i = j
    BY <2>1 DEF Once
  <2>3. n + i \in DOMAIN s /\ n + j \in DOMAIN s /\ i \in Int /\ j \in Int /\ n \in Int
    BY <1>1, <1>3, <2>2
  <2>4. n + i = n + j
    BY <1>3, <2>2, <2>3 DEF Once
  <2> QED
    BY <2>3, <2>4
<1>5. Grants!ToSet(a) \cap Grants!ToSet(b) = {}
  <2>1. SUFFICES ASSUME NEW i \in DOMAIN a, NEW j \in DOMAIN b, a[i] = b[j]
                 PROVE  FALSE
    BY DEF Grants!ToSet
  <2>2. i \in DOMAIN s /\ n + j \in DOMAIN s /\ i # n + j
    BY <1>1, <1>2, <1>3, <2>1
  <2> QED
    BY <1>2, <1>3, <2>1, <2>2 DEF Once
<1>6. Grants!ToSet(a) \cup Grants!ToSet(b) = Grants!ToSet(s) \ {s[n]}
  <2>1. \A i \in DOMAIN s : i # n => i \in 1..(n - 1) \/ (i - n \in 1..(Len(s) - n) /\ i = n + (i - n))
    BY <1>1
  <2>2. \A i \in 1..(n - 1) : i \in DOMAIN s /\ i # n
    BY <1>1
  <2>3. \A i \in 1..(Len(s) - n) : n + i \in DOMAIN s /\ n + i # n
    BY <1>1
  <2>4. ASSUME NEW e \in Grants!ToSet(s), e # s[n]
        PROVE  e \in Grants!ToSet(a) \cup Grants!ToSet(b)
    <3>1. PICK i \in DOMAIN s : e = s[i]
      BY DEF Grants!ToSet
    <3>2. CASE i \in 1..(n - 1)
      BY <1>2, <3>1, <3>2 DEF Grants!ToSet
    <3>3. CASE i - n \in 1..(Len(s) - n) /\ i = n + (i - n)
      <4>1. b[i - n] = s[i] /\ i - n \in DOMAIN b
        BY <1>3, <3>3
      <4> QED
        BY <3>1, <4>1 DEF Grants!ToSet
    <3> QED
      BY <2>1, <2>4, <3>1, <3>2, <3>3
  <2>5. ASSUME NEW e \in Grants!ToSet(a) \cup Grants!ToSet(b)
        PROVE  e \in Grants!ToSet(s) \ {s[n]}
    BY <1>2, <1>3, <2>2, <2>3 DEF Grants!ToSet, Once
  <2> QED BY <2>4, <2>5
<1>7. Grants!RemoveAt(s, n) = a \o b
  BY DEF Grants!RemoveAt, a, b
<1> QED
  BY <1>2, <1>3, <1>4, <1>5, <1>6, <1>7, ConcatAdds

\* A finite set made a sequence.
LEMMA SetToSeqHas ==
    ASSUME NEW E, NEW S \in SUBSET E, IsFiniteSet(S)
    PROVE  /\ Grants!SetToSeq(S) \in Seq(E) /\ Once(Grants!SetToSeq(S))
           /\ Grants!ToSet(Grants!SetToSeq(S)) = S
<1> DEFINE n == Cardinality(S)
<1>1. n \in Nat /\ ExistsBijection(1..n, S)
  BY FS_CardinalityType
<1>2. PICK g \in Bijection(1..n, S) : TRUE
  BY <1>1 DEF ExistsBijection
<1>3. g \in [1..n -> S] /\ Once(g)
  BY <1>2 DEF Bijection, Injection, IsInjective, Once
<1>4. Grants!Cardinality(S) = n
  BY DEF Grants!Cardinality, Cardinality
<1>5. Grants!SetToSeq(S) = CHOOSE f \in [1..n -> S] : Once(f)
  BY <1>4 DEF Grants!SetToSeq, Grants!IsInjective, Once
<1>6. Grants!SetToSeq(S) \in [1..n -> S] /\ Once(Grants!SetToSeq(S))
  BY <1>3, <1>5
<1>7. Grants!SetToSeq(S) \in Injection(1..n, S)
  BY <1>6 DEF Injection, Once, IsInjective
<1>8. Cardinality(1..n) = n
  BY <1>1, FS_Interval
<1>9. Grants!SetToSeq(S) \in Surjection(1..n, S)
  BY <1>7, <1>8, FS_Injection
<1> HIDE DEF n
<1>10. Grants!SetToSeq(S) \in Seq(E)
  BY <1>1, <1>6
<1>11. \A e \in S : \E i \in 1..n : Grants!SetToSeq(S)[i] = e
  BY <1>9 DEF Surjection
<1> QED
  BY <1>6, <1>10, <1>11 DEF Grants!ToSet

-----------------------------------------------------------------------------
\* The audit events there are, and those that are still to be written.
AuditEvents == Requests \X {"requested", "allow", "deny", "cancelled"}
Unwritten == Grants!ToSet(audits)

\* The audit events of request c, written or to be written, are of these kinds.
NotedOf(c, kinds) == \A e \in Unwritten \cup recorded : e[1] = c => e[2] \in kinds

\* The values of the variables; no event is written twice.
GrantsType ==
    /\ Grants!TypeOK
    /\ audits \in Seq(AuditEvents) /\ Once(audits)
    /\ forgetting \in [Grants!Owners ->
          [waiting : BOOLEAN, writes : SUBSET AuditEvents, done : BOOLEAN]]

\* What was noted of a request goes with where it stands: its first event is to be written
\* as long as it asks, it is decided only after that, and while it is pending its turn goes
\* on, nothing that it belongs to is closed, and no answer but the one decided is noted; a
\* cancelled one still has an event to be written.
NotedAs(c) ==
    /\ Grants!Event(c, "requested") \in Unwritten <=> approval[c] = "asking"
    /\ approval[c] \in {"none", "asking"} => decision[c] = "none" /\ NotedOf(c, {"requested"})
    /\ approval[c] = "pending" =>
          /\ Grants!Open(c) /\ c \notin aborted
          /\ Grants!Event(c, "requested") \in recorded
          /\ NotedOf(c, {"requested", decision[c]})
    /\ approval[c] = "cancelled" => \E e \in Unwritten : e[1] = c

\* The requests that the closing of o is about.
OwnedBy(o) == {c \in Requests : o \in {SessionOf[c], Grants!Runtime}}

\* Who closes o waits for an event of each of its requests that is not settled, and when
\* it is done there is none.
ClosesAll(o) ==
    /\ forgetting[o].waiting \/ forgetting[o].done => o \in closed
    /\ forgetting[o].writes \subseteq Unwritten
    /\ ~forgetting[o].waiting => forgetting[o].writes = {}
    /\ forgetting[o].waiting =>
          \A c \in OwnedBy(o) : approval[c] \in Grants!Unsettled =>
             \E e \in forgetting[o].writes : e[1] = c
    /\ forgetting[o].done => \A c \in OwnedBy(o) : approval[c] \notin Grants!Unsettled

\* What approvals rest on.
GrantsInv ==
    /\ GrantsType
    /\ \A c \in Requests : NotedAs(c)
    /\ \A o \in Grants!Owners : ClosesAll(o)

\* The assumption on the requests, in the terms of the library.
LEMMA FiniteRequests ==
    ASSUME Grants!ApprovalsAssumption, NEW S \in SUBSET Requests
    PROVE  IsFiniteSet(S)
<1>1. IsFiniteSet(Requests)
  BY DEF Grants!ApprovalsAssumption, Grants!IsFiniteSet, IsFiniteSet
<1> QED
  BY <1>1, FS_Subset

\* The type invariant of the part says no more than the one it is proved from.
LEMMA AuditsTyped ==
    ASSUME NEW s \in Seq(AuditEvents)
    PROVE  \A n \in DOMAIN s : s[n] \in Requests \X {"requested", "allow", "deny", "cancelled"}
  BY DEF AuditEvents

\* What is noted are audit events.
LEMMA NotedAreEvents ==
    ASSUME GrantsType
    PROVE  \A e \in Unwritten \cup recorded : e[2] \in {"requested", "allow", "deny", "cancelled"}
  BY DEF GrantsType, Grants!TypeOK, Unwritten, Grants!ToSet

\* A request none of whose events is touched is noted as it was.
LEMMA NotedStays ==
    ASSUME NEW d \in Requests, NotedAs(d),
           approval'[d] = approval[d],
           decision'[d] = decision[d] \/ (decision'[d] = "none" /\ approval[d] # "pending"),
           approval[d] = "pending" => Grants!Open(d)' /\ d \notin aborted',
           \A a : a[1] = d => (a \in Unwritten' <=> a \in Unwritten)
                              /\ (a \in recorded' <=> a \in recorded)
    PROVE  NotedAs(d)'
<1>1. Grants!Event(d, "requested")[1] = d
  BY DEF Grants!Event
<1>2. Grants!Event(d, "requested") \in Unwritten' <=> approval'[d] = "asking"
  BY <1>1 DEF NotedAs
<1>3. Grants!Event(d, "requested") \in recorded' <=> Grants!Event(d, "requested") \in recorded
  BY <1>1
<1>4. ASSUME NEW kinds, NotedOf(d, kinds)
      PROVE  \A a \in Unwritten' \cup recorded' : a[1] = d => a[2] \in kinds
  BY <1>4 DEF NotedOf
<1>5. approval'[d] \in {"none", "asking"} =>
         decision'[d] = "none" /\ NotedOf(d, {"requested"})'
  BY <1>4 DEF NotedAs, NotedOf
<1>6. approval'[d] = "pending" => NotedOf(d, {"requested", decision[d]})'
  <2>1. SUFFICES ASSUME approval'[d] = "pending"
                 PROVE  \A a \in Unwritten' \cup recorded' : a[1] = d => a[2] \in {"requested", decision'[d]}
    BY DEF NotedOf
  <2> QED
    BY <1>4, <2>1 DEF NotedAs
<1>7. approval'[d] = "cancelled" => \E e \in Unwritten' : e[1] = d
  BY DEF NotedAs
<1>8. NotedAs(d)' <=>
         /\ Grants!Event(d, "requested") \in Unwritten' <=> approval'[d] = "asking"
         /\ approval'[d] \in {"none", "asking"} =>
               decision'[d] = "none" /\ NotedOf(d, {"requested"})'
         /\ approval'[d] = "pending" =>
               /\ Grants!Open(d)' /\ d \notin aborted'
               /\ Grants!Event(d, "requested") \in recorded'
               /\ NotedOf(d, {"requested", decision[d]})'
         /\ approval'[d] = "cancelled" => \E e \in Unwritten' : e[1] = d
  BY DEF NotedAs, Grants!Event
<1>9. approval'[d] = "pending" => Grants!Open(d)' /\ d \notin aborted'
  OBVIOUS
<1>10. approval'[d] = "pending" => Grants!Event(d, "requested") \in recorded'
  BY <1>3 DEF NotedAs
<1> HIDE DEF NotedAs
<1> QED
  BY <1>2, <1>5, <1>6, <1>7, <1>8, <1>9, <1>10

\* Cancelling pending requests adds an event of each to what is to be written.
LEMMA CancellationsAdd ==
    ASSUME Grants!ApprovalsAssumption, GrantsType,
           NEW cs \in SUBSET Requests, \A c \in cs : approval[c] = "pending" /\ NotedAs(c)
    PROVE  /\ audits \o Grants!Cancellations(cs) \in Seq(AuditEvents)
           /\ Once(audits \o Grants!Cancellations(cs))
           /\ Grants!ToSet(audits \o Grants!Cancellations(cs)) =
                 Unwritten \cup {Grants!Event(c, "cancelled") : c \in cs}
<1> DEFINE E == {Grants!Event(c, "cancelled") : c \in cs}
<1>1. E \in SUBSET AuditEvents
  BY DEF AuditEvents, Grants!Event
<1>2. IsFiniteSet(E)
  <2>1. IsFiniteSet(cs)
    BY FiniteRequests
  <2>2. [c \in cs |-> Grants!Event(c, "cancelled")] \in Surjection(cs, E)
    BY DEF Surjection
  <2> QED
    BY <2>1, <2>2, FS_Surjection
<1>3. Unwritten \cap E = {}
  <2>1. SUFFICES ASSUME NEW c \in cs, Grants!Event(c, "cancelled") \in Unwritten
                 PROVE  FALSE
    OBVIOUS
  <2>2. Grants!Event(c, "cancelled")[1] = c /\ Grants!Event(c, "cancelled")[2] = "cancelled"
    BY DEF Grants!Event
  <2>3. "cancelled" \in {"requested", decision[c]}
    BY <2>1, <2>2 DEF NotedAs, NotedOf
  <2> QED
    BY <2>3 DEF GrantsType, Grants!TypeOK
<1>4. /\ Grants!SetToSeq(E) \in Seq(AuditEvents) /\ Once(Grants!SetToSeq(E))
      /\ Grants!ToSet(Grants!SetToSeq(E)) = E
  BY <1>1, <1>2, SetToSeqHas
<1>5. audits \in Seq(AuditEvents) /\ Once(audits)
  BY DEF GrantsType
<1>6. Grants!Cancellations(cs) = Grants!SetToSeq(E)
  BY DEF Grants!Cancellations
<1> HIDE DEF E
<1>7. /\ audits \o Grants!SetToSeq(E) \in Seq(AuditEvents)
      /\ Once(audits \o Grants!SetToSeq(E))
      /\ Grants!ToSet(audits \o Grants!SetToSeq(E)) = Unwritten \cup E
  BY <1>3, <1>4, <1>5, ConcatAdds DEF Unwritten
<1> QED
  BY <1>6, <1>7 DEF E

\* At first nothing was asked for.
LEMMA InitGrants ==
    ASSUME Grants!ApprovalsAssumption, Grants!Init
    PROVE  GrantsInv
<1>1. audits = <<>> /\ Unwritten = {} /\ recorded = {}
  BY DEF Grants!Init, Unwritten, Grants!ToSet
<1>2. GrantsType
  BY <1>1 DEF GrantsType, Grants!TypeOK, Grants!Init, Grants!States, Once, AuditEvents,
     Grants!NotForgetting, Grants!ApprovalsAssumption
<1>3. \A c \in Requests : NotedAs(c)
  BY <1>1 DEF NotedAs, NotedOf, Grants!Init
<1>4. \A o \in Grants!Owners : ClosesAll(o)
  BY <1>1 DEF ClosesAll, Grants!Init, Grants!NotForgetting
<1> QED
  BY <1>2, <1>3, <1>4 DEF GrantsInv

\* request().
LEMMA AfterRequest ==
    ASSUME Grants!ApprovalsAssumption, GrantsInv, NEW c \in Requests, Grants!Request(c)
    PROVE  GrantsInv'
<1> USE DEF GrantsInv, GrantsType, Grants!TypeOK
<1>1. NotedAs(c) /\ approval[c] = "none"
  BY DEF Grants!Request
<1>2. CASE c \in aborted \/ ~Grants!Open(c)
  <2>1. /\ approval' = [approval EXCEPT ![c] = "refused"]
        /\ UNCHANGED <<aborted, decision, audits, recorded, closed, forgetting, failures>>
    BY <1>2 DEF Grants!Request
  <2>2. Unwritten' = Unwritten
    BY <2>1 DEF Unwritten
  <2>3. GrantsType'
    BY <2>1 DEF Grants!States
  <2>4. \A d \in Requests : NotedAs(d)'
    BY <1>1, <2>1, <2>2 DEF NotedAs, NotedOf, Grants!Open
  <2>5. \A o \in Grants!Owners : ClosesAll(o)'
    BY <1>1, <2>1, <2>2 DEF ClosesAll, OwnedBy, Grants!Unsettled
  <2> QED
    BY <2>3, <2>4, <2>5
<1>3. CASE ~(c \in aborted \/ ~Grants!Open(c))
  <2> DEFINE e == Grants!Event(c, "requested")
  <2>1. /\ approval' = [approval EXCEPT ![c] = "asking"]
        /\ audits' = Append(audits, e)
        /\ UNCHANGED <<aborted, decision, recorded, closed, forgetting, failures>>
    BY <1>3 DEF Grants!Request
  <2>2. e \in AuditEvents /\ e \notin Unwritten /\ e[1] = c /\ e[2] = "requested"
    BY <1>1 DEF AuditEvents, NotedAs, Grants!Event
  <2>3. audits' \in Seq(AuditEvents) /\ Once(audits') /\ Unwritten' = Unwritten \cup {e}
    BY <2>1, <2>2, AppendAdds DEF Unwritten
  <2>4. GrantsType'
    BY <2>1, <2>3, AuditsTyped DEF Grants!States
  <2>5. \A d \in Requests : Grants!Event(d, "requested") = e <=> d = c
    BY DEF Grants!Event
  <2> HIDE DEF e
  <2>6. \A d \in Requests : NotedAs(d)'
    BY <1>1, <2>1, <2>2, <2>3, <2>5 DEF NotedAs, NotedOf, Grants!Open, e
  <2>7. \A o \in Grants!Owners : ClosesAll(o)'
    BY <1>1, <1>3, <2>1, <2>3 DEF ClosesAll, OwnedBy, Grants!Unsettled, Grants!Open
  <2> QED
    BY <2>4, <2>6, <2>7
<1> QED
  BY <1>2, <1>3

\* decide().
LEMMA AfterDecide ==
    ASSUME Grants!ApprovalsAssumption, GrantsInv,
           NEW c \in Requests, NEW answer \in {"allow", "deny"}, Grants!Decide(c, answer)
    PROVE  GrantsInv'
<1> USE DEF GrantsInv, GrantsType, Grants!TypeOK
<1> DEFINE e == Grants!Event(c, answer)
<1>1. /\ approval[c] = "pending" /\ c \notin aborted /\ decision[c] = "none"
      /\ decision' = [decision EXCEPT ![c] = answer]
      /\ audits' = Append(audits, e)
      /\ UNCHANGED <<approval, aborted, recorded, closed, forgetting, failures>>
  BY DEF Grants!Decide
<1>2. e \in AuditEvents /\ e[1] = c /\ e[2] = answer
  BY DEF AuditEvents, Grants!Event
<1>3. e \notin Unwritten
  BY <1>1, <1>2 DEF NotedAs, NotedOf
<1>4. audits' \in Seq(AuditEvents) /\ Once(audits') /\ Unwritten' = Unwritten \cup {e}
  BY <1>1, <1>2, <1>3, AppendAdds DEF Unwritten
<1>5. GrantsType'
  BY <1>1, <1>4, AuditsTyped
<1>6. \A d \in Requests : Grants!Event(d, "requested") # e
  BY DEF Grants!Event
<1> HIDE DEF e
<1>7. NotedAs(c)'
  <2>1. NotedOf(c, {"requested", decision[c]}) /\ decision'[c] = answer
    BY <1>1 DEF NotedAs
  <2>2. NotedOf(c, {"requested", decision[c]})'
    BY <1>1, <1>2, <1>4, <2>1, NotedAreEvents DEF NotedOf
  <2> QED
    BY <1>1, <1>4, <1>6, <2>2 DEF NotedAs, Grants!Open
<1>8. ASSUME NEW d \in Requests, d # c
      PROVE  NotedAs(d)'
  <2>1. approval[d] = "pending" => Grants!Open(d)' /\ d \notin aborted'
    BY <1>1 DEF NotedAs, Grants!Open
  <2> QED
    BY <1>1, <1>2, <1>4, <1>8, <2>1, NotedStays
<1>9. \A o \in Grants!Owners : ClosesAll(o)'
  BY <1>1, <1>4 DEF ClosesAll, OwnedBy
<1> QED
  BY <1>5, <1>7, <1>8, <1>9

\* Where something is cancelled that was pending, everything goes on with what was noted.
LEMMA Cancelling ==
    ASSUME Grants!ApprovalsAssumption, GrantsInv,
           NEW cs \in SUBSET Requests, \A c \in cs : approval[c] = "pending",
           approval' = Grants!Cancelled(cs), audits' = audits \o Grants!Cancellations(cs),
           recorded' = recorded,
           \A d \in Requests :
             decision'[d] = decision[d] \/ (decision'[d] = "none" /\ approval'[d] # "pending"),
           \A d \in Requests : approval'[d] = "pending" => Grants!Open(d)' /\ d \notin aborted'
    PROVE  /\ approval' \in [Requests -> Grants!States]
           /\ audits' \in Seq(AuditEvents) /\ Once(audits')
           /\ Unwritten \subseteq Unwritten'
           /\ \A d \in Requests : NotedAs(d)'
<1> DEFINE E == {Grants!Event(c, "cancelled") : c \in cs}
<1>1. /\ audits' \in Seq(AuditEvents) /\ Once(audits')
      /\ Unwritten' = Unwritten \cup E
  BY CancellationsAdd DEF GrantsInv, Unwritten
<1>2. \A d \in Requests : approval'[d] = IF d \in cs THEN "cancelled" ELSE approval[d]
  BY DEF Grants!Cancelled
<1>3. approval' \in [Requests -> Grants!States]
  BY DEF Grants!Cancelled, Grants!States, GrantsInv, GrantsType, Grants!TypeOK
<1>4. ASSUME NEW d \in cs
      PROVE  NotedAs(d)'
  <2>1. approval'[d] = "cancelled" /\ approval[d] = "pending" /\ NotedAs(d)
    BY <1>2 DEF GrantsInv
  <2>2. Grants!Event(d, "requested") \notin Unwritten
    BY <2>1 DEF NotedAs
  <2>3. Grants!Event(d, "requested") \notin E
    BY DEF Grants!Event
  <2>4. Grants!Event(d, "cancelled") \in Unwritten' /\ Grants!Event(d, "cancelled")[1] = d
    BY <1>1 DEF Grants!Event
  <2> HIDE DEF E
  <2> QED
    BY <1>1, <2>1, <2>2, <2>3, <2>4 DEF NotedAs, Grants!Event
<1>5. ASSUME NEW d \in Requests, d \notin cs
      PROVE  NotedAs(d)'
  <2>1. approval'[d] = approval[d] /\ NotedAs(d)
    BY <1>2, <1>5 DEF GrantsInv
  <2>2. \A a \in E : a[1] # d
    BY <1>5 DEF Grants!Event
  <2> HIDE DEF E
  <2> QED
    BY <1>1, <2>1, <2>2, NotedStays
<1> QED
  BY <1>1, <1>3, <1>4, <1>5

\* The turn of a request is aborted.
LEMMA AfterAbort ==
    ASSUME Grants!ApprovalsAssumption, GrantsInv, NEW c \in Requests, Grants!AbortTurn(c)
    PROVE  GrantsInv'
<1> DEFINE cs == {c} \cap {d \in Requests : approval[d] = "pending"}
<1>1. /\ aborted' = aborted \cup {c}
      /\ approval' = Grants!Cancelled(cs) /\ audits' = audits \o Grants!Cancellations(cs)
      /\ UNCHANGED <<decision, recorded, closed, forgetting, failures>>
  BY DEF Grants!AbortTurn
<1>2. \A d \in Requests : approval'[d] = IF d \in cs THEN "cancelled" ELSE approval[d]
  BY <1>1 DEF Grants!Cancelled
<1>3. ASSUME NEW d \in Requests, approval'[d] = "pending"
      PROVE  Grants!Open(d)' /\ d \notin aborted'
  <2>1. approval[d] = "pending" /\ d # c
    BY <1>2, <1>3
  <2> QED
    BY <1>1, <2>1 DEF GrantsInv, NotedAs, Grants!Open
<1>4. /\ approval' \in [Requests -> Grants!States]
      /\ audits' \in Seq(AuditEvents) /\ Once(audits')
      /\ Unwritten \subseteq Unwritten'
      /\ \A d \in Requests : NotedAs(d)'
  <2>1. cs \in SUBSET Requests /\ \A d \in cs : approval[d] = "pending"
    OBVIOUS
  <2> HIDE DEF cs
  <2> QED
    BY <1>1, <1>3, <2>1, Cancelling
<1>5. GrantsType'
  BY <1>1, <1>4, AuditsTyped DEF GrantsInv, GrantsType, Grants!TypeOK
<1>6. \A d \in Requests : approval'[d] \in Grants!Unsettled => approval[d] \in Grants!Unsettled
  BY <1>2 DEF Grants!Unsettled
<1>7. \A o \in Grants!Owners : ClosesAll(o)'
  BY <1>1, <1>4, <1>6 DEF GrantsInv, ClosesAll, OwnedBy
<1> QED
  BY <1>4, <1>5, <1>7 DEF GrantsInv

\* forgetSession() and stop() begin.
LEMMA AfterClose ==
    ASSUME Grants!ApprovalsAssumption, GrantsInv, NEW o \in Grants!Owners, Grants!Close(o)
    PROVE  GrantsInv'
<1> DEFINE cs == {c \in Requests : approval[c] = "pending"
                                     /\ o \in {SessionOf[c], Grants!Runtime}}
<1>1. /\ closed' = closed \cup {o}
      /\ approval' = Grants!Cancelled(cs) /\ audits' = audits \o Grants!Cancellations(cs)
      /\ decision' = [c \in Requests |-> IF o = SessionOf[c] THEN "none" ELSE decision[c]]
      /\ forgetting' = [forgetting EXCEPT ![o] =
                          [waiting |-> TRUE, writes |-> Unwritten', done |-> FALSE]]
      /\ UNCHANGED <<aborted, recorded, failures>>
  BY DEF Grants!Close, Unwritten
<1>2. \A d \in Requests : approval'[d] = IF d \in cs THEN "cancelled" ELSE approval[d]
  BY <1>1 DEF Grants!Cancelled
<1>3. ASSUME NEW d \in Requests, approval'[d] = "pending"
      PROVE  /\ Grants!Open(d)' /\ d \notin aborted'
             /\ o \notin {SessionOf[d], Grants!Runtime}
  <2>1. approval[d] = "pending" /\ o \notin {SessionOf[d], Grants!Runtime}
    BY <1>2, <1>3
  <2>2. closed \cap {SessionOf[d], Grants!Runtime} = {} /\ d \notin aborted
    BY <2>1 DEF GrantsInv, NotedAs, Grants!Open
  <2>3. closed' = closed \cup {o} /\ aborted' = aborted
    BY <1>1
  <2>4. Grants!Open(d)'
    BY <2>1, <2>2, <2>3 DEF Grants!Open
  <2> QED
    BY <2>1, <2>2, <2>3, <2>4
<1>4. /\ approval' \in [Requests -> Grants!States]
      /\ audits' \in Seq(AuditEvents) /\ Once(audits')
      /\ Unwritten \subseteq Unwritten'
      /\ \A d \in Requests : NotedAs(d)'
  <2>1. cs \in SUBSET Requests /\ \A d \in cs : approval[d] = "pending"
    OBVIOUS
  <2> HIDE DEF cs
  <2>2. \A d \in Requests :
           decision'[d] = decision[d] \/ (decision'[d] = "none" /\ approval'[d] # "pending")
    BY <1>1, <1>3
  <2> QED
    BY <1>1, <1>3, <2>1, <2>2, Cancelling
<1>5. Unwritten' \in SUBSET AuditEvents
  BY <1>4 DEF Unwritten, Grants!ToSet
<1>6. GrantsType'
  BY <1>1, <1>4, <1>5, AuditsTyped DEF GrantsInv, GrantsType, Grants!TypeOK
<1>7. \A d \in Requests : approval'[d] \in Grants!Unsettled => approval[d] \in Grants!Unsettled
  BY <1>2 DEF Grants!Unsettled
<1>8. ASSUME NEW p \in Grants!Owners, p # o
      PROVE  ClosesAll(p)'
  BY <1>1, <1>4, <1>7, <1>8 DEF GrantsInv, GrantsType, ClosesAll, OwnedBy
<1>9. ClosesAll(o)'
  <2>1. /\ forgetting'[o].waiting /\ ~forgetting'[o].done
        /\ forgetting'[o].writes = Unwritten' /\ o \in closed'
    BY <1>1 DEF GrantsInv, GrantsType
  <2>2. ASSUME NEW c \in OwnedBy(o), approval'[c] \in Grants!Unsettled
        PROVE  \E e \in Unwritten' : e[1] = c
    <3>1. c \in Requests /\ approval'[c] # "pending" /\ NotedAs(c)'
      BY <1>3, <1>4 DEF OwnedBy
    <3>2. approval'[c] = "asking" => Grants!Event(c, "requested") \in Unwritten'
      BY <3>1 DEF NotedAs, Grants!Event
    <3>3. Grants!Event(c, "requested")[1] = c
      BY DEF Grants!Event
    <3>4. approval'[c] = "cancelled" => \E e \in Unwritten' : e[1] = c
      BY <3>1 DEF NotedAs
    <3> QED
      BY <2>2, <3>1, <3>2, <3>3, <3>4 DEF Grants!Unsettled
  <2> QED
    BY <2>1, <2>2 DEF ClosesAll, OwnedBy
<1> QED
  BY <1>4, <1>6, <1>8, <1>9 DEF GrantsInv

\* And end, with everything written.
LEMMA AfterCloseEnds ==
    ASSUME Grants!ApprovalsAssumption, GrantsInv, NEW o \in Grants!Owners, Grants!CloseEnds(o)
    PROVE  GrantsInv'
<1>1. /\ forgetting[o].waiting /\ forgetting[o].writes = {}
      /\ forgetting' = [forgetting EXCEPT ![o] =
                          [waiting |-> FALSE, writes |-> {}, done |-> TRUE]]
      /\ decision' = IF o = Grants!Runtime THEN [c \in Requests |-> "none"] ELSE decision
      /\ UNCHANGED <<approval, aborted, audits, recorded, closed, failures>>
  BY DEF Grants!CloseEnds
<1>2. Unwritten' = Unwritten
  BY <1>1 DEF Unwritten
<1>3. GrantsType'
  BY <1>1 DEF GrantsInv, GrantsType, Grants!TypeOK
<1>4. ASSUME NEW d \in Requests
      PROVE  NotedAs(d)'
  <2>1. NotedAs(d) /\ ClosesAll(o)
    BY DEF GrantsInv
  <2>2. approval[d] = "pending" => o # Grants!Runtime
    BY <1>1, <2>1 DEF NotedAs, ClosesAll, Grants!Open
  <2>3. decision'[d] = decision[d] \/ (decision'[d] = "none" /\ approval[d] # "pending")
    BY <1>1, <2>2
  <2>4. approval[d] = "pending" => Grants!Open(d)' /\ d \notin aborted'
    BY <1>1, <2>1 DEF NotedAs, Grants!Open
  <2> QED
    BY <1>1, <1>2, <2>1, <2>3, <2>4, NotedStays
<1>5. \A p \in Grants!Owners : ClosesAll(p)'
  BY <1>1, <1>2 DEF GrantsInv, GrantsType, ClosesAll, OwnedBy
<1> QED
  BY <1>3, <1>4, <1>5 DEF GrantsInv

\* What a write of an audit event of a session changes.
Writes(e, ok) ==
    /\ e \in Unwritten /\ ok \in BOOLEAN
    /\ audits' \in Seq(AuditEvents) /\ Once(audits')
    /\ Unwritten' = Unwritten \ {e}
    /\ recorded' = IF ok THEN recorded \cup {e} ELSE recorded
    /\ failures' \in 0..MaxFailures
    /\ approval' = [approval EXCEPT ![e[1]] = Grants!After(e, ok)]
    /\ forgetting' = [o \in Grants!Owners |->
          IF ~(forgetting[o].waiting /\ e \in forgetting[o].writes) THEN forgetting[o]
          ELSE IF ok THEN [forgetting[o] EXCEPT !.writes = @ \ {e}]
          ELSE Grants!NotForgetting]
    /\ UNCHANGED <<aborted, decision, closed>>

\* The step is such a write of one event.
LEMMA AuditIsWritten ==
    ASSUME Grants!ApprovalsAssumption, GrantsInv, NEW s \in Sessions, Grants!WriteAudit(s)
    PROVE  \E e \in AuditEvents, ok \in BOOLEAN : Writes(e, ok)
<1>1. PICK n \in DOMAIN audits : \E ok \in BOOLEAN :
        /\ audits' = Grants!RemoveAt(audits, n)
        /\ ok \/ failures < MaxFailures
        /\ failures' = IF ok THEN failures ELSE failures + 1
        /\ approval' = [approval EXCEPT ![audits[n][1]] = Grants!After(audits[n], ok)]
        /\ recorded' = IF ok THEN recorded \cup {audits[n]} ELSE recorded
        /\ forgetting' = [o \in Grants!Owners |->
              IF ~(forgetting[o].waiting /\ audits[n] \in forgetting[o].writes)
              THEN forgetting[o]
              ELSE IF ok THEN [forgetting[o] EXCEPT !.writes = @ \ {audits[n]}]
              ELSE Grants!NotForgetting]
        /\ UNCHANGED <<aborted, decision, closed>>
  BY DEF Grants!WriteAudit
<1>2. audits \in Seq(AuditEvents) /\ Once(audits) /\ audits[n] \in AuditEvents
  BY DEF GrantsInv, GrantsType
<1>3. audits[n] \in Unwritten
  BY DEF Unwritten, Grants!ToSet
<1>4. /\ audits' \in Seq(AuditEvents) /\ Once(audits')
      /\ Unwritten' = Unwritten \ {audits[n]}
  BY <1>1, <1>2, RemoveAtRemoves DEF Unwritten
<1>5. failures \in 0..MaxFailures /\ MaxFailures \in Nat
  BY DEF GrantsInv, GrantsType, Grants!TypeOK, Grants!ApprovalsAssumption
<1>6. failures' \in 0..MaxFailures
  BY <1>1, <1>5
<1>7. \E ok \in BOOLEAN : Writes(audits[n], ok)
  BY <1>1, <1>3, <1>4, <1>6, Zenon DEF Writes
<1> QED
  BY <1>2, <1>7

\* What becomes of a request by it: it is settled, or it becomes pending.
LEMMA WritesSettle ==
    ASSUME GrantsInv, NEW e \in AuditEvents, NEW ok \in BOOLEAN, Writes(e, ok)
    PROVE  /\ e[1] \in Requests /\ e = Grants!Event(e[1], e[2])
           /\ approval[e[1]] # "none" /\ approval'[e[1]] \in {"pending", "granted", "refused"}
           /\ approval'[e[1]] = "pending" =>
                /\ approval[e[1]] = "asking" /\ e[2] = "requested" /\ ok
                /\ e[1] \notin aborted /\ Grants!Open(e[1])
           /\ approval'[e[1]] = "granted" /\ approval[e[1]] # "granted" =>
                /\ approval[e[1]] = "pending" /\ e[2] = "allow" /\ ok
<1>1. /\ e[1] \in Requests /\ e = Grants!Event(e[1], e[2])
      /\ e[2] \in {"requested", "allow", "deny", "cancelled"} /\ NotedAs(e[1])
      /\ approval[e[1]] \in Grants!States /\ e \in Unwritten
      /\ approval'[e[1]] = Grants!After(e, ok)
      /\ decision[e[1]] \in {"none", "allow", "deny"}
  BY DEF AuditEvents, Grants!Event, GrantsInv, GrantsType, Grants!TypeOK, Writes
<1>2. e[2] = "requested" <=> approval[e[1]] = "asking"
  <2>1. e[2] = "requested" => approval[e[1]] = "asking"
    BY <1>1 DEF NotedAs
  <2>2. approval[e[1]] = "asking" => e[2] = "requested"
    BY <1>1 DEF NotedAs, NotedOf
  <2> QED
    BY <2>1, <2>2
<1>3. approval[e[1]] # "none"
  <2>1. approval[e[1]] = "none" => e[2] = "requested"
    BY <1>1 DEF NotedAs, NotedOf
  <2> QED
    BY <1>2, <2>1
<1>4. approval[e[1]] = "pending" => e[2] # "cancelled"
  <2>1. approval[e[1]] = "pending" => e[2] \in {"requested", decision[e[1]]}
    BY <1>1 DEF NotedAs, NotedOf
  <2> QED
    BY <1>1, <2>1
<1>5. CASE e[2] = "requested"
  <2>1. Grants!After(e, ok) = Grants!AfterRequested(e[1], ok)
    BY <1>5 DEF Grants!After
  <2> QED
    BY <1>1, <1>2, <1>5, <2>1 DEF Grants!AfterRequested
<1>6. CASE e[2] = "cancelled"
  <2>1. Grants!After(e, ok) = Grants!AfterCancelled(e[1])
    BY <1>6 DEF Grants!After
  <2> QED
    BY <1>1, <1>2, <1>3, <1>4, <1>6, <2>1 DEF Grants!AfterCancelled, Grants!States
<1>7. CASE e[2] \in {"allow", "deny"}
  <2>1. Grants!After(e, ok) = Grants!AfterDecision(e[1], e[2], ok)
    BY <1>7 DEF Grants!After
  <2> QED
    BY <1>1, <1>2, <1>3, <1>7, <2>1 DEF Grants!AfterDecision, Grants!Unsettled, Grants!States
<1> QED
  BY <1>1, <1>5, <1>6, <1>7

\* A write goes on with what was noted.
LEMMA AfterWrites ==
    ASSUME Grants!ApprovalsAssumption, GrantsInv,
           NEW e \in AuditEvents, NEW ok \in BOOLEAN, Writes(e, ok)
    PROVE  GrantsInv'
<1> DEFINE c == e[1]
<1>1. /\ c \in Requests /\ e = Grants!Event(c, e[2])
      /\ approval[c] # "none" /\ approval'[c] \in {"pending", "granted", "refused"}
      /\ approval'[c] = "pending" =>
           /\ approval[c] = "asking" /\ e[2] = "requested" /\ ok
           /\ c \notin aborted /\ Grants!Open(c)
  BY WritesSettle
<1>2. \A d \in Requests : d # c => approval'[d] = approval[d]
  BY DEF Writes, GrantsInv, GrantsType, Grants!TypeOK
<1>3. approval' \in [Requests -> Grants!States]
  <2>1. approval' = [approval EXCEPT ![c] = approval'[c]]
    BY <1>1 DEF Writes, GrantsInv, GrantsType, Grants!TypeOK
  <2> QED
    BY <1>1, <2>1 DEF Grants!States, GrantsInv, GrantsType, Grants!TypeOK
<1>4. recorded' \in SUBSET AuditEvents
  BY DEF Writes, GrantsInv, GrantsType, Grants!TypeOK, AuditEvents
<1>5. forgetting' \in [Grants!Owners ->
          [waiting : BOOLEAN, writes : SUBSET AuditEvents, done : BOOLEAN]]
  BY DEF Writes, GrantsInv, GrantsType, Grants!NotForgetting
<1>6. GrantsType'
  BY <1>3, <1>4, <1>5, AuditsTyped
     DEF Writes, GrantsInv, GrantsType, Grants!TypeOK, AuditEvents
<1>7. NotedAs(c)'
  <2>1. Grants!Event(c, "requested") \notin Unwritten'
    <3>1. CASE e[2] = "requested"
      BY <1>1, <3>1 DEF Writes
    <3>2. CASE e[2] # "requested"
      <4>1. approval[c] # "asking"
        BY <1>1, <3>2 DEF GrantsInv, NotedAs, NotedOf, Writes
      <4> QED
        BY <1>1, <4>1 DEF GrantsInv, NotedAs, Writes
    <3> QED
      BY <3>1, <3>2
  <2>2. ASSUME approval'[c] = "pending"
        PROVE  /\ Grants!Open(c)' /\ c \notin aborted'
               /\ Grants!Event(c, "requested") \in recorded'
               /\ NotedOf(c, {"requested", decision[c]})'
    <3>1. Grants!Open(c)' /\ c \notin aborted' /\ Grants!Event(c, "requested") \in recorded'
      BY <1>1, <2>2 DEF Writes, Grants!Open
    <3>2. NotedOf(c, {"requested"})
      BY <1>1, <2>2 DEF GrantsInv, NotedAs
    <3>3. Unwritten' \cup recorded' \subseteq Unwritten \cup recorded
      BY DEF Writes
    <3>4. NotedOf(c, {"requested", decision[c]})'
      BY <3>2, <3>3 DEF NotedOf
    <3> QED
      BY <3>1, <3>4
  <2> HIDE DEF c
  <2> QED
    BY <1>1, <2>1, <2>2 DEF NotedAs, Grants!Event
<1>8. ASSUME NEW d \in Requests, d # c
      PROVE  NotedAs(d)'
  <2>1. approval'[d] = approval[d] /\ decision'[d] = decision[d] /\ NotedAs(d)
    BY <1>2, <1>8 DEF Writes, GrantsInv
  <2>2. approval[d] = "pending" => Grants!Open(d)' /\ d \notin aborted'
    BY <2>1 DEF Writes, NotedAs, Grants!Open
  <2>3. \A a : a[1] = d => (a \in Unwritten' <=> a \in Unwritten)
                           /\ (a \in recorded' <=> a \in recorded)
    BY <1>8 DEF Writes
  <2> QED
    BY <2>1, <2>2, <2>3, NotedStays
<1>9. ASSUME NEW o \in Grants!Owners
      PROVE  ClosesAll(o)'
  <2>1. ClosesAll(o)
    BY DEF GrantsInv
  <2>2. \A d \in OwnedBy(o) : o \in closed /\ approval'[d] = "pending" => d # c
    BY <1>1 DEF OwnedBy, Grants!Open
  <2>3. \A d \in OwnedBy(o) : o \in closed /\ approval'[d] \in Grants!Unsettled =>
           d # c /\ approval[d] \in Grants!Unsettled
    BY <1>1, <1>2, <2>2 DEF OwnedBy, Grants!Unsettled
  <2>4. CASE ~(forgetting[o].waiting /\ e \in forgetting[o].writes)
    <3>1. forgetting'[o] = forgetting[o] /\ e \notin forgetting[o].writes /\ closed' = closed
      BY <2>1, <2>4 DEF Writes, ClosesAll
    <3>2. Unwritten' = Unwritten \ {e}
      BY DEF Writes
    <3> QED
      BY <2>1, <2>3, <3>1, <3>2 DEF ClosesAll, OwnedBy
  <2>5. CASE forgetting[o].waiting /\ e \in forgetting[o].writes /\ ok
    <3>1. /\ forgetting'[o] = [forgetting[o] EXCEPT !.writes = @ \ {e}] /\ closed' = closed
          /\ Unwritten' = Unwritten \ {e}
      BY <2>5 DEF Writes
    <3>2. /\ forgetting'[o].waiting = forgetting[o].waiting
          /\ forgetting'[o].done = forgetting[o].done
          /\ forgetting'[o].writes = forgetting[o].writes \ {e}
      BY <3>1 DEF GrantsInv, GrantsType
    <3> QED
      BY <2>1, <2>3, <2>5, <3>1, <3>2 DEF ClosesAll, OwnedBy
  <2>6. CASE forgetting[o].waiting /\ e \in forgetting[o].writes /\ ~ok
    <3>1. forgetting'[o] = Grants!NotForgetting
      BY <2>6 DEF Writes
    <3> QED
      BY <3>1 DEF ClosesAll, Grants!NotForgetting
  <2> QED
    BY <2>4, <2>5, <2>6
<1> QED
  BY <1>6, <1>7, <1>8, <1>9 DEF GrantsInv

\* A grant is live when it is given: only a write grants, and what it grants was pending.
LEMMA GrantsByWrites ==
    ASSUME GrantsInv, NEW e \in AuditEvents, NEW ok \in BOOLEAN, Writes(e, ok)
    PROVE  Grants!GrantsAreLive
<1>1. SUFFICES ASSUME NEW c \in Requests, approval'[c] = "granted", approval[c] # "granted"
               PROVE  /\ Grants!Event(c, "requested") \in recorded
                      /\ Grants!Event(c, "allow") \in recorded'
                      /\ Grants!Event(c, "deny") \notin recorded'
                      /\ Grants!Event(c, "cancelled") \notin recorded'
                      /\ c \notin aborted /\ Grants!Open(c)
  BY DEF Grants!GrantsAreLive
<1>2. c = e[1]
  BY <1>1 DEF Writes, GrantsInv, GrantsType, Grants!TypeOK
<1>3. approval[c] = "pending" /\ e = Grants!Event(c, "allow") /\ ok /\ e \in Unwritten
  BY <1>1, <1>2, WritesSettle DEF Writes
<1>4. /\ Grants!Open(c) /\ c \notin aborted /\ Grants!Event(c, "requested") \in recorded
      /\ NotedOf(c, {"requested", decision[c]})
  BY <1>3 DEF GrantsInv, NotedAs
<1>5. \A kind : Grants!Event(c, kind)[1] = c /\ Grants!Event(c, kind)[2] = kind
  BY DEF Grants!Event
<1>6. decision[c] = "allow"
  BY <1>3, <1>4, <1>5 DEF NotedOf
<1>7. recorded' = recorded \cup {e}
  BY <1>3 DEF Writes
<1>8. Grants!Event(c, "deny") \notin recorded' /\ Grants!Event(c, "cancelled") \notin recorded'
  <2>1. \A a \in recorded' : a[1] = c => a[2] \in {"requested", "allow"}
    BY <1>3, <1>4, <1>5, <1>6, <1>7 DEF NotedOf
  <2> QED
    BY <1>5, <2>1
<1> QED
  BY <1>3, <1>4, <1>7, <1>8

\* Every step of the service.
LEMMA ApprovalsGoOn ==
    ASSUME Grants!ApprovalsAssumption, GrantsInv, [Grants!Next]_(Grants!vars)
    PROVE  GrantsInv' /\ Grants!GrantsAreLive
<1>1. ASSUME approval' = approval \/ (\A c \in Requests : approval'[c] = "granted" => approval[c] = "granted")
      PROVE  Grants!GrantsAreLive
  BY <1>1 DEF Grants!GrantsAreLive
<1>2. ASSUME NEW c \in Requests, Grants!Request(c)
      PROVE  GrantsInv' /\ Grants!GrantsAreLive
  <2>1. \A d \in Requests : approval'[d] = "granted" => approval[d] = "granted"
    BY <1>2 DEF Grants!Request, GrantsInv, GrantsType, Grants!TypeOK
  <2> QED
    BY <1>1, <1>2, <2>1, AfterRequest
<1>3. ASSUME NEW c \in Requests, Grants!AbortTurn(c)
      PROVE  GrantsInv' /\ Grants!GrantsAreLive
  <2>1. \A d \in Requests : approval'[d] = "granted" => approval[d] = "granted"
    BY <1>3 DEF Grants!AbortTurn, Grants!Cancelled
  <2> QED
    BY <1>1, <1>3, <2>1, AfterAbort
<1>4. ASSUME NEW c \in Requests, NEW answer \in {"allow", "deny"}, Grants!Decide(c, answer)
      PROVE  GrantsInv' /\ Grants!GrantsAreLive
  <2>1. approval' = approval
    BY <1>4 DEF Grants!Decide
  <2> QED
    BY <1>1, <1>4, <2>1, AfterDecide
<1>5. ASSUME NEW s \in Sessions, Grants!WriteAudit(s)
      PROVE  GrantsInv' /\ Grants!GrantsAreLive
  BY <1>5, AuditIsWritten, AfterWrites, GrantsByWrites
<1>6. ASSUME NEW o \in Grants!Owners, Grants!Close(o)
      PROVE  GrantsInv' /\ Grants!GrantsAreLive
  <2>1. \A d \in Requests : approval'[d] = "granted" => approval[d] = "granted"
    BY <1>6 DEF Grants!Close, Grants!Cancelled
  <2> QED
    BY <1>1, <1>6, <2>1, AfterClose
<1>7. ASSUME NEW o \in Grants!Owners, Grants!CloseEnds(o)
      PROVE  GrantsInv' /\ Grants!GrantsAreLive
  <2>1. approval' = approval
    BY <1>7 DEF Grants!CloseEnds
  <2> QED
    BY <1>1, <1>7, <2>1, AfterCloseEnds
<1>8. CASE UNCHANGED Grants!vars
  <2>1. /\ UNCHANGED <<approval, aborted, decision, audits, recorded, closed, forgetting,
                       failures>>
        /\ Unwritten' = Unwritten
    BY <1>8 DEF Grants!vars, Unwritten
  <2>2. GrantsType'
    BY <2>1 DEF GrantsInv, GrantsType, Grants!TypeOK
  <2>3. \A c \in Requests : NotedAs(c)'
    BY <2>1 DEF GrantsInv, NotedAs, NotedOf, Grants!Open
  <2>4. \A o \in Grants!Owners : ClosesAll(o)'
    BY <2>1 DEF GrantsInv, ClosesAll, OwnedBy
  <2> QED
    BY <1>1, <2>1, <2>2, <2>3, <2>4 DEF GrantsInv
<1> QED
  BY <1>2, <1>3, <1>4, <1>5, <1>6, <1>7, <1>8 DEF Grants!Next

\* What they rest on gives what they promise at rest.
LEMMA GrantsSettle ==
    ASSUME Grants!ApprovalsAssumption, GrantsInv
    PROVE  Grants!TypeOK /\ Grants!RequestsSettle
<1>1. \A e \in Unwritten : Grants!Contains(audits, e) /\ \E n \in DOMAIN audits : audits[n] = e
  BY DEF Unwritten, Grants!ToSet, Grants!Contains, GrantsInv, GrantsType
<1>2. \A c \in Requests : approval[c] = "asking" =>
         Grants!Contains(audits, Grants!Event(c, "requested"))
  BY <1>1 DEF GrantsInv, NotedAs
<1>3. ASSUME NEW c \in Requests, approval[c] = "cancelled"
      PROVE  \E n \in DOMAIN audits : audits[n][1] = c
  <2>1. PICK e \in Unwritten : e[1] = c
    BY <1>3 DEF GrantsInv, NotedAs
  <2> QED
    BY <1>1, <2>1
<1>4. ASSUME NEW c \in Requests,
             forgetting[SessionOf[c]].done \/ forgetting[Grants!Runtime].done
      PROVE  approval[c] \notin Grants!Unsettled
  <2>1. SessionOf[c] \in Grants!Owners /\ Grants!Runtime \in Grants!Owners
    BY DEF Grants!ApprovalsAssumption, Grants!Owners
  <2> QED
    BY <1>4, <2>1 DEF GrantsInv, ClosesAll, OwnedBy
<1> QED
  BY <1>2, <1>3, <1>4 DEF Grants!RequestsSettle, GrantsInv, GrantsType

\* Approvals: every request is settled by what is still to be written or by somebody who may
\* decide or cancel it, none is left when its session was forgotten or the service stopped,
\* and what is granted was asked for and allowed on the record, by the only decision on it,
\* in a turn that goes on (permissions/approvals.ts).
THEOREM ApprovalsSettle ==
    ASSUME Grants!ApprovalsAssumption
    PROVE  Grants!Spec => /\ [](Grants!TypeOK /\ Grants!RequestsSettle)
                          /\ [][Grants!GrantsAreLive]_(Grants!vars)
<1>1. Grants!Init => GrantsInv
  BY InitGrants
<1>2. GrantsInv /\ [Grants!Next]_(Grants!vars) => GrantsInv'
  BY ApprovalsGoOn
<1>3. GrantsInv /\ [Grants!Next]_(Grants!vars) => [Grants!GrantsAreLive]_(Grants!vars)
  BY ApprovalsGoOn
<1>4. GrantsInv => Grants!TypeOK /\ Grants!RequestsSettle
  BY GrantsSettle
<1> QED
  BY <1>1, <1>2, <1>3, <1>4, PTL DEF Grants!Spec
-----------------------------------------------------------------------------
\* SessionRouting, for any messages of any chats, any deletions, and any number of failures.
\* The argument: a message works on the session its key was bound to when it came, and while
\* a deletion is under way its fences let no text be queued there.  A key that is bound again
\* meanwhile was bound by a /clear, to a session no text was led to, so that a deletion that
\* fails may take it back.  What is there of a deleted session was brought by a text.
CONSTANTS Messages, KeyOf, KindsOf, Deletions, MaxSessions, MaxRefusals

VARIABLES bindings, tables, numbered, switches, jobs, msg, del, refusals

\* The chats and the sessions their messages lead to.
Routing == INSTANCE SessionRouting WITH
    MaxFailures <- MaxRefusals, rows <- tables, made <- numbered, work <- jobs,
    failures <- refusals

\* The values of the variables; every session that is named anywhere has been made.
MessageKinds == {"text", "stop", "steer", "clear"}
MessagePlaces == {"sent", "load", "ensure", "check", "lookup", "ensureNext", "steer", "stop",
                  "refused", "routed"}
DeletionPlaces == {"new", "before", "agent", "answered", "lost", "failed", "deleted"}
JobPlaces == {"none", "queued", "running", "steered", "cleared", "done"}
Handlers == [kind : MessageKinds, at : MessagePlaces, session : 0..numbered,
             row : BOOLEAN, late : SUBSET (1..numbered)]
DeletionRecords == [at : DeletionPlaces, session : 0..numbered, keys : SUBSET Routing!Keys,
                    row : BOOLEAN, removed : SUBSET Routing!Keys]

RoutesShape ==
    /\ numbered \in 1..MaxSessions /\ refusals \in 0..MaxRefusals
    /\ bindings \in [Routing!Keys -> 0..numbered]
    /\ tables \in [gateway : SUBSET (1..numbered), agent : SUBSET (1..numbered)]
    /\ switches \in [steering : SUBSET (1..MaxSessions), suspended : SUBSET (1..MaxSessions)]
    /\ jobs \in [Messages -> JobPlaces]
    /\ msg \in [Messages -> Handlers]
    /\ del \in [Deletions -> DeletionRecords]

\* A text was led to session s; a /clear is making it.
HasText(s) == \E m \in Messages : msg[m].kind = "text" /\ msg[m].session = s
Makes(m, s) == msg[m].at = "ensureNext" /\ msg[m].session = s
IsMade(s) == \E m \in Messages : Makes(m, s)

\* Where a handler stands says what it is about; only texts that were routed are work.
HandlerIs(m) ==
    /\ msg[m].at \in {"load", "ensure", "check", "steer"} => msg[m].kind = "text"
    /\ msg[m].at \in {"lookup", "ensureNext", "stop"} => msg[m].kind # "text"
    /\ msg[m].at = "lookup" => msg[m].row
    /\ jobs[m] # "none" => msg[m].kind = "text" /\ msg[m].at = "routed"
    /\ msg[m].session \notin msg[m].late
    /\ msg[m].at = "sent" => msg[m].session = 0 /\ msg[m].late = {}
    /\ msg[m].at \notin {"sent", "refused", "routed"} => msg[m].session # 0

\* A session that is being made is made by one /clear, and if the agent has it already, by
\* a text that was led there.
MakesAlone(m) ==
    msg[m].at = "ensureNext" =>
       /\ msg[m].session \in tables.agent => HasText(msg[m].session)
       /\ \A n \in Messages \ {m} : ~Makes(n, msg[m].session)

\* The deletions that took the bindings of their session away and still may put them back.
Detached == {d \in Deletions : del[d].at \in {"agent", "answered", "lost"}}

\* A key that is bound again meanwhile leads to a session that no text can have reached, no
\* other key leads to, and no deletion is about.
ReboundAfresh(d) ==
    \A k \in del[d].removed : bindings[k] # 0 =>
       /\ ~HasText(bindings[k])
       /\ \A j \in Routing!Keys \ {k} : bindings[j] # bindings[k]
       /\ \A o \in Routing!Deleting : del[o].session # bindings[k]

\* Deletions under way are of different sessions and keys.
OnItsOwn(d) ==
    \A o \in Routing!Deleting \ {d} :
       del[o].session # del[d].session /\ del[o].keys \cap del[d].keys = {}

\* While a deletion is under way its session has no work, and from the moment on that its
\* bindings are taken away none leads there.
DeletionIs(d) ==
    /\ del[d].at = "new" => del[d] = Routing!NoDeletion
    /\ del[d].at # "new" => del[d].session # 0
    /\ del[d].at \in {"new", "before"} => del[d].removed = {}
    /\ del[d].removed \subseteq del[d].keys
    /\ d \in Routing!Deleting =>
          /\ ~Routing!Busy(del[d].session) /\ OnItsOwn(d)
          /\ del[d].session \in Routing!Deleted => HasText(del[d].session)
    /\ IsMade(del[d].session) => HasText(del[d].session)
    /\ del[d].at = "before" =>
          \A k \in Routing!Keys : bindings[k] = del[d].session => k \in del[d].keys
    /\ d \in Detached =>
          /\ \A k \in Routing!Keys : bindings[k] # del[d].session
          /\ del[d].session \in tables.gateway => HasText(del[d].session)
          /\ del[d].removed # {} => del[d].row /\ del[d].session \notin Routing!Deleted
          /\ ReboundAfresh(d)
    /\ del[d].at = "answered" =>
          (del[d].session \in tables.agent => HasText(del[d].session))

\* A deleted session is back only where a text was led to it.
BackByText ==
    \A s \in Routing!Deleted : s \in tables.gateway \cup tables.agent => HasText(s)

\* What routing rests on.
RoutesInv ==
    /\ RoutesShape
    /\ \A m \in Messages : HandlerIs(m) /\ MakesAlone(m)
    /\ \A d \in Deletions : DeletionIs(d)
    /\ Routing!BindingsLead /\ BackByText /\ Routing!FailuresPutBack

\* What it rests on gives what it promises.
LEMMA RoutesLead ==
    ASSUME Routing!RoutingAssumption, RoutesInv
    PROVE  Routing!RoutingInv
<1>1. Routing!TypeOK
  <2>1. numbered \in 1..MaxSessions /\ MaxSessions \in Nat
    BY DEF RoutesInv, RoutesShape, Routing!RoutingAssumption
  <2>2. 1..numbered \subseteq 1..MaxSessions /\ 0..numbered \subseteq (1..MaxSessions) \cup {0}
    BY <2>1
  <2>3. bindings \in [Routing!Keys -> (1..MaxSessions) \cup {0}]
    BY <2>2 DEF RoutesInv, RoutesShape
  <2> QED
    BY <2>1, <2>2, <2>3
       DEF RoutesInv, RoutesShape, Routing!TypeOK, Routing!Sessions, Routing!None
<1>2. Routing!DeletedStaysAway
  <2>1. ASSUME NEW s \in Routing!Deleted, NEW m \in Messages, msg[m].session = s
        PROVE  s \notin msg[m].late
    BY <2>1 DEF RoutesInv, HandlerIs
  <2> QED
    BY <2>1 DEF Routing!DeletedStaysAway, RoutesInv, BackByText, HasText
<1> QED
  BY <1>1, <1>2 DEF Routing!RoutingInv, RoutesInv

\* At first every chat has the first session.
LEMMA InitRoutes ==
    ASSUME Routing!RoutingAssumption, Routing!Init
    PROVE  RoutesInv
<1>1. PICK kinds \in [Messages -> UNION {KindsOf[m] : m \in Messages}] :
         /\ \A m \in Messages : kinds[m] \in KindsOf[m]
         /\ msg = [m \in Messages |-> Routing!Sent(kinds[m])]
  BY DEF Routing!Init
<1>2. /\ bindings = [k \in Routing!Keys |-> 1]
      /\ tables = [gateway |-> {1}, agent |-> {1}] /\ numbered = 1
      /\ switches \in [steering : {{}, {1}}, suspended : {{}}]
      /\ jobs = [m \in Messages |-> "none"]
      /\ del = [d \in Deletions |-> Routing!NoDeletion] /\ refusals = 0
  BY DEF Routing!Init
<1>3. \A m \in Messages : kinds[m] \in MessageKinds
  BY <1>1 DEF Routing!RoutingAssumption, MessageKinds
<1>4. \A m \in Messages :
         msg[m] = [kind |-> kinds[m], at |-> "sent", session |-> 0, row |-> FALSE, late |-> {}]
  BY <1>1 DEF Routing!Sent, Routing!None
<1>5. Routing!NoDeletion =
         [at |-> "new", session |-> 0, keys |-> {}, row |-> FALSE, removed |-> {}]
  BY DEF Routing!NoDeletion, Routing!None
<1>6. \A m \in Messages :
         msg[m].at = "sent" /\ msg[m].session = 0 /\ msg[m].late = {} /\ jobs[m] = "none"
  BY <1>1, <1>2 DEF Routing!Sent, Routing!None
<1>7. RoutesShape
  <2>1. msg \in [Messages -> Handlers]
    <3>1. \A m \in Messages : Routing!Sent(kinds[m]) \in Handlers
      BY <1>2, <1>3 DEF Routing!Sent, Routing!None, Handlers, MessagePlaces
    <3> QED
      BY <1>1, <3>1
  <2>2. del \in [Deletions -> DeletionRecords]
    BY <1>2, <1>5 DEF DeletionRecords, DeletionPlaces
  <2>3. switches \in [steering : SUBSET (1..MaxSessions), suspended : SUBSET (1..MaxSessions)]
    BY <1>2 DEF Routing!RoutingAssumption
  <2> QED
    BY <1>2, <2>1, <2>2, <2>3 DEF RoutesShape, JobPlaces, Routing!RoutingAssumption
<1>8. \A m \in Messages : HandlerIs(m) /\ MakesAlone(m)
  BY <1>6 DEF HandlerIs, MakesAlone
<1>9. Routing!Deleting = {} /\ Detached = {} /\ Routing!Deleted = {}
  BY <1>2, <1>5 DEF Routing!Deleting, Detached, Routing!Deleted
<1>10. \A s : ~IsMade(s)
  BY <1>6 DEF IsMade, Makes
<1>11. \A d \in Deletions : DeletionIs(d)
  BY <1>2, <1>5, <1>9, <1>10 DEF DeletionIs
<1>12. Routing!BindingsLead /\ BackByText /\ Routing!FailuresPutBack
  BY <1>2, <1>5, <1>9 DEF Routing!BindingsLead, BackByText, Routing!FailuresPutBack
<1> QED
  BY <1>7, <1>8, <1>11, <1>12 DEF RoutesInv

\* A step of a message that makes no session.
LEMMA MessageSteps ==
    ASSUME Routing!RoutingAssumption, RoutesInv, NEW m \in Messages,
           UNCHANGED <<bindings, numbered, del>>, RoutesShape', HandlerIs(m)',
           \A n \in Messages \ {m} :
              /\ msg'[n] = msg[n]
              /\ jobs'[n] = jobs[n] \/ (jobs[n] = "queued" /\ jobs'[n] = "cleared"),
           msg'[m].kind = msg[m].kind, msg'[m].at # "ensureNext",
           msg[m].at # "sent" => msg'[m].session = msg[m].session,
           msg[m].at = "sent" /\ msg[m].kind = "text" /\ msg'[m].session # 0 =>
              msg'[m].session = bindings[KeyOf[m]] /\ KeyOf[m] \notin Routing!FencedKeys,
           jobs'[m] \in {"queued", "running"} =>
              /\ msg[m].at # "sent"
              /\ jobs[m] \in {"queued", "running"} \/ msg[m].session \notin Routing!FencedSessions,
           tables.gateway \subseteq tables'.gateway,
           \A s \in tables'.gateway \ tables.gateway :
              s = msg'[m].session /\ msg[m].kind = "text",
           \A s \in tables'.agent \ tables.agent :
              s = msg'[m].session /\ (msg[m].kind = "text" \/ msg[m].at = "ensureNext")
    PROVE  RoutesInv'
<1>1. \A n \in Messages : HandlerIs(n)'
  BY DEF RoutesInv, HandlerIs
<1>2. ASSUME NEW s, s # 0, HasText(s)
      PROVE  HasText(s)'
  <2>1. PICK n \in Messages : msg[n].kind = "text" /\ msg[n].session = s
    BY <1>2 DEF HasText
  <2>2. msg[n].at # "sent"
    BY <1>2, <2>1 DEF RoutesInv, HandlerIs
  <2>3. msg'[n].kind = "text" /\ msg'[n].session = s
    BY <2>1, <2>2
  <2> QED
    BY <2>3 DEF HasText
<1>3. ASSUME NEW s, s # 0, HasText(s)', ~HasText(s)
      PROVE  s = bindings[KeyOf[m]] /\ KeyOf[m] \notin Routing!FencedKeys
  <2>1. PICK n \in Messages : msg'[n].kind = "text" /\ msg'[n].session = s
    BY <1>3 DEF HasText
  <2>2. n = m
    BY <1>3, <2>1 DEF HasText
  <2>3. msg[m].at = "sent"
    BY <1>3, <2>1, <2>2 DEF HasText
  <2> QED
    BY <1>3, <2>1, <2>2, <2>3
<1>4. \A s : s = msg'[m].session /\ msg[m].kind = "text" => HasText(s)'
  BY DEF HasText
<1>5. \A s : \A n \in Messages : Makes(n, s)' => Makes(n, s) /\ n # m
  BY DEF Makes
<1>6. \A s : IsMade(s)' => IsMade(s)
  BY <1>5 DEF IsMade
<1>7. ASSUME NEW s, Routing!Busy(s)', ~Routing!Busy(s)
      PROVE  s \notin Routing!FencedSessions
  <2>1. PICK n \in Messages : msg'[n].session = s /\ jobs'[n] \in {"queued", "running"}
    BY <1>7 DEF Routing!Busy, Routing!InSession
  <2>2. n = m
    BY <1>7, <2>1 DEF Routing!Busy, Routing!InSession
  <2>3. msg[m].session = s /\ jobs[m] \notin {"queued", "running"}
    BY <1>7, <2>1, <2>2 DEF Routing!Busy, Routing!InSession
  <2> QED
    BY <2>1, <2>2, <2>3
<1>8. /\ Routing!Deleting' = Routing!Deleting /\ Routing!Deleted' = Routing!Deleted
      /\ Detached' = Detached
  BY DEF Routing!Deleting, Routing!Deleted, Detached
<1>9. \A s \in tables'.gateway : s \in tables.gateway \/ HasText(s)'
  BY <1>4
<1>10. \A s \in tables'.agent : s \in tables.agent \/ HasText(s)' \/ Makes(m, s)
  <2>1. SUFFICES ASSUME NEW s \in tables'.agent \ tables.agent
                 PROVE  HasText(s)' \/ Makes(m, s)
    OBVIOUS
  <2> QED
    BY <1>4, <2>1 DEF Makes
<1>11. \A s \in tables'.gateway \cup tables'.agent : s # 0
  BY DEF RoutesShape
<1>12. ASSUME NEW n \in Messages
       PROVE  MakesAlone(n)'
  <2>1. CASE msg'[n].at # "ensureNext"
    BY <2>1 DEF MakesAlone
  <2>2. CASE msg'[n].at = "ensureNext"
    <3>1. n # m /\ msg'[n] = msg[n] /\ MakesAlone(n) /\ msg[n].at = "ensureNext"
      BY <2>2 DEF RoutesInv
    <3>2. PICK s : s = msg[n].session
      OBVIOUS
    <3>3. \A o \in Messages \ {n} : ~Makes(o, s)'
      BY <1>5, <3>1, <3>2 DEF MakesAlone
    <3>4. \A o \in Messages \ {n} : ~Makes(o, s)
      BY <3>1, <3>2 DEF MakesAlone
    <3>5. s \in tables'.agent => HasText(s)'
      BY <1>2, <1>10, <1>11, <3>1, <3>2, <3>4 DEF MakesAlone
    <3> QED
      BY <3>1, <3>2, <3>3, <3>5 DEF MakesAlone, HasText, Makes
  <2> QED
    BY <2>1, <2>2
<1>13. ASSUME NEW d \in Deletions
       PROVE  DeletionIs(d)'
  <2>1. DeletionIs(d) /\ del'[d] = del[d]
    BY DEF RoutesInv
  <2>2. d \in Routing!Deleting => ~Routing!Busy(del[d].session)'
    BY <1>7, <2>1 DEF DeletionIs, Routing!FencedSessions
  <2>3. OnItsOwn(d) => OnItsOwn(d)'
    BY <1>8 DEF OnItsOwn
  <2>4. del[d].session # 0 => (HasText(del[d].session) => HasText(del[d].session)')
    BY <1>2
  <2>5. IsMade(del[d].session)' => HasText(del[d].session)'
    <3>1. IsMade(del[d].session)' => del[d].session # 0
      BY <1>1 DEF IsMade, Makes, HandlerIs
    <3> QED
      BY <1>6, <2>1, <2>4, <3>1 DEF DeletionIs
  <2>6. ASSUME d \in Detached
        PROVE  /\ del[d].session \in tables'.gateway => HasText(del[d].session)'
               /\ ReboundAfresh(d)'
    <3>1. del[d].session \in tables'.gateway => HasText(del[d].session)'
      BY <1>9, <1>11, <2>1, <2>4, <2>6 DEF DeletionIs
    <3>2. ASSUME NEW k \in del[d].removed, bindings[k] # 0
          PROVE  ~HasText(bindings[k])'
      <4>1. /\ ~HasText(bindings[k])
            /\ \A j \in Routing!Keys \ {k} : bindings[j] # bindings[k]
        BY <2>1, <2>6, <3>2 DEF DeletionIs, ReboundAfresh
      <4>2. KeyOf[m] \in Routing!Keys
        BY DEF Routing!Keys
      <4>3. k \in Routing!FencedKeys
        BY <2>1, <2>6, <3>2 DEF DeletionIs, Routing!FencedKeys, Routing!Deleting, Detached
      <4> QED
        BY <1>3, <3>2, <4>1, <4>2, <4>3
    <3>3. ReboundAfresh(d)'
      BY <1>8, <2>1, <2>6, <3>2 DEF DeletionIs, ReboundAfresh, HasText
    <3> QED
      BY <3>1, <3>3
  <2>7. del[d].at = "answered" =>
           (del[d].session \in tables'.agent => HasText(del[d].session)')
    <3>1. Makes(m, del[d].session) => HasText(del[d].session)
      BY <2>1 DEF DeletionIs, IsMade
    <3> QED
      BY <1>10, <1>11, <2>1, <2>4, <3>1 DEF DeletionIs
  <2>8. d \in Routing!Deleting => del[d].session # 0
    BY <2>1 DEF DeletionIs, Routing!Deleting
  <2> QED
    BY <1>8, <2>1, <2>2, <2>3, <2>4, <2>5, <2>6, <2>7, <2>8
       DEF DeletionIs, HasText, Routing!Busy, Routing!InSession, IsMade, Makes, Routing!NoDeletion
<1>14. Routing!BindingsLead'
  BY <1>8 DEF RoutesInv, Routing!BindingsLead
<1>15. BackByText'
  <2>1. SUFFICES ASSUME NEW s \in Routing!Deleted, s \in tables'.gateway \cup tables'.agent
                 PROVE  HasText(s)'
    BY <1>8 DEF BackByText, HasText
  <2>2. IsMade(s) => HasText(s)
    BY <2>1 DEF RoutesInv, DeletionIs, Routing!Deleted
  <2> QED
    BY <1>2, <1>9, <1>10, <1>11, <2>1, <2>2 DEF RoutesInv, BackByText, IsMade
<1>16. Routing!FailuresPutBack'
  BY DEF RoutesInv, Routing!FailuresPutBack
<1> QED
  BY <1>1, <1>12, <1>13, <1>14, <1>15, <1>16 DEF RoutesInv

\* A step of a message that binds its key to a session it makes.
LEMMA FreshSteps ==
    ASSUME Routing!RoutingAssumption, RoutesInv, NEW m \in Messages,
           UNCHANGED <<del, jobs, refusals>>, RoutesShape', HandlerIs(m)',
           numbered' = numbered + 1,
           bindings' = [bindings EXCEPT ![KeyOf[m]] = numbered + 1],
           tables' = [tables EXCEPT !.gateway = @ \cup {numbered + 1}],
           \A n \in Messages \ {m} : msg'[n] = msg[n],
           msg'[m].kind = msg[m].kind, msg'[m].session = numbered + 1,
           jobs[m] = "none",
           msg[m].kind = "text" =>
              /\ msg[m].at = "sent" /\ msg'[m].at # "ensureNext"
              /\ KeyOf[m] \notin Routing!FencedKeys
    PROVE  RoutesInv'
<1>1. /\ numbered \in Nat /\ \A s \in 0..numbered : s # numbered + 1
      /\ KeyOf[m] \in Routing!Keys
      /\ \A k \in Routing!Keys : bindings[k] \in 0..numbered
      /\ \A n \in Messages : msg[n].session \in 0..numbered
      /\ \A d \in Deletions : del[d].session \in 0..numbered
      /\ tables.gateway \subseteq 0..numbered /\ tables.agent \subseteq 0..numbered
  BY DEF RoutesInv, RoutesShape, Handlers, DeletionRecords, Routing!Keys
<1>2. \A k \in Routing!Keys :
         bindings'[k] = IF k = KeyOf[m] THEN numbered + 1 ELSE bindings[k]
  BY DEF RoutesInv, RoutesShape
<1>3. tables'.gateway = tables.gateway \cup {numbered + 1} /\ tables'.agent = tables.agent
  BY DEF RoutesInv, RoutesShape
<1>4. ASSUME NEW s, s # numbered + 1, HasText(s)'
      PROVE  HasText(s)
  BY <1>4 DEF HasText
<1>5. ASSUME NEW s, s # 0, HasText(s)
      PROVE  HasText(s)'
  <2>1. PICK n \in Messages : msg[n].kind = "text" /\ msg[n].session = s
    BY <1>5 DEF HasText
  <2>2. n # m
    BY <1>5, <2>1 DEF RoutesInv, HandlerIs
  <2> QED
    BY <2>1, <2>2 DEF HasText
<1>6. msg[m].kind # "text" => \A s : HasText(s)' <=> HasText(s)
  BY DEF HasText
<1>7. \A s : s # numbered + 1 => \A n \in Messages : Makes(n, s)' => Makes(n, s) /\ n # m
  BY DEF Makes
<1>8. \A s : s # numbered + 1 /\ IsMade(s)' => IsMade(s)
  BY <1>7 DEF IsMade
<1>9. \A s : Routing!Busy(s)' => Routing!Busy(s)
  BY DEF Routing!Busy, Routing!InSession
<1>10. /\ Routing!Deleting' = Routing!Deleting /\ Routing!Deleted' = Routing!Deleted
       /\ Detached' = Detached
  BY DEF Routing!Deleting, Routing!Deleted, Detached
<1>11. \A n \in Messages : HandlerIs(n)'
  BY DEF RoutesInv, HandlerIs
<1>12. ASSUME NEW n \in Messages
       PROVE  MakesAlone(n)'
  <2>1. CASE msg'[n].at # "ensureNext"
    BY <2>1 DEF MakesAlone
  <2>2. CASE msg'[n].at = "ensureNext" /\ n = m
    <3>1. PICK s : s = numbered + 1
      OBVIOUS
    <3>2. s \notin tables'.agent
      BY <1>1, <1>3, <3>1
    <3>3. \A o \in Messages \ {m} : ~Makes(o, s)'
      BY <1>1, <3>1 DEF Makes
    <3> QED
      BY <2>2, <3>1, <3>2, <3>3 DEF MakesAlone, Makes
  <2>3. CASE msg'[n].at = "ensureNext" /\ n # m
    <3>1. msg'[n] = msg[n] /\ MakesAlone(n) /\ msg[n].at = "ensureNext"
      BY <2>3 DEF RoutesInv
    <3>2. PICK s : s = msg[n].session
      OBVIOUS
    <3>3. s # 0 /\ s # numbered + 1
      BY <1>1, <3>1, <3>2 DEF RoutesInv, HandlerIs
    <3>4. \A o \in Messages \ {n} : ~Makes(o, s)'
      BY <1>7, <3>1, <3>2, <3>3 DEF MakesAlone
    <3>5. s \in tables'.agent => HasText(s)'
      BY <1>3, <1>5, <3>1, <3>2, <3>3 DEF MakesAlone
    <3> QED
      BY <3>1, <3>2, <3>4, <3>5 DEF MakesAlone, HasText, Makes
  <2> QED
    BY <2>1, <2>2, <2>3
<1>13. ASSUME NEW d \in Deletions
       PROVE  DeletionIs(d)'
  <2> DEFINE s == del[d].session
  <2>1. DeletionIs(d) /\ del'[d] = del[d] /\ s # numbered + 1
    BY <1>1 DEF RoutesInv
  <2>2. d \in Routing!Deleting => ~Routing!Busy(s)'
    BY <1>9, <2>1 DEF DeletionIs
  <2>3. OnItsOwn(d) => OnItsOwn(d)'
    BY <1>10 DEF OnItsOwn
  <2>4. s # 0 => (HasText(s) => HasText(s)')
    BY <1>5
  <2>5. IsMade(s)' => HasText(s)'
    <3>1. IsMade(s)' => s # 0
      BY <1>11 DEF IsMade, Makes, HandlerIs
    <3> QED
      BY <1>8, <2>1, <2>4, <3>1 DEF DeletionIs
  <2>6. d \in Routing!Deleting => s # 0
    BY <2>1 DEF DeletionIs, Routing!Deleting
  <2>7. \A k \in Routing!Keys : bindings'[k] = s => bindings[k] = s
    BY <1>2, <2>1
  <2>8. ASSUME d \in Detached
        PROVE  ReboundAfresh(d)'
    <3>1. ASSUME NEW k \in del[d].removed, bindings'[k] # 0
          PROVE  /\ \A x : x = bindings'[k] => ~HasText(x)'
                 /\ \A j \in Routing!Keys \ {k} : bindings'[j] # bindings'[k]
                 /\ \A o \in Routing!Deleting : del[o].session # bindings'[k]
      <4>1. k \in Routing!FencedKeys /\ k \in Routing!Keys
        BY <2>1, <2>8 DEF DeletionIs, Routing!FencedKeys, Routing!Deleting, Detached,
           RoutesInv, RoutesShape, DeletionRecords
      <4>2. CASE k = KeyOf[m]
        <5>1. msg[m].kind # "text" /\ bindings'[k] = numbered + 1
          BY <1>2, <4>1, <4>2
        <5>2. ~HasText(numbered + 1)
          BY <1>1 DEF HasText
        <5> QED
          BY <1>1, <1>2, <1>6, <4>2, <5>1, <5>2 DEF Routing!Deleting
      <4>3. CASE k # KeyOf[m]
        <5>1. bindings'[k] = bindings[k] /\ bindings[k] # 0 /\ bindings[k] # numbered + 1
          BY <1>1, <1>2, <3>1, <4>1, <4>3
        <5>2. /\ ~HasText(bindings[k])
              /\ \A j \in Routing!Keys \ {k} : bindings[j] # bindings[k]
              /\ \A o \in Routing!Deleting : del[o].session # bindings[k]
          BY <2>1, <2>8, <5>1 DEF DeletionIs, ReboundAfresh
        <5> QED
          BY <1>2, <1>4, <5>1, <5>2
      <4> QED
        BY <4>2, <4>3
    <3> QED
      BY <1>10, <3>1 DEF ReboundAfresh, HasText
  <2>9. s \in tables'.gateway => s \in tables.gateway
    BY <1>3, <2>1
  <2> QED
    BY <1>3, <1>10, <2>1, <2>2, <2>3, <2>4, <2>5, <2>6, <2>7, <2>8, <2>9
       DEF DeletionIs, HasText, Routing!Busy, Routing!InSession, IsMade, Makes,
           Routing!NoDeletion, Detached, Routing!Deleting
<1>14. Routing!BindingsLead'
  <2>1. numbered + 1 \notin Routing!Deleted
    BY <1>1 DEF Routing!Deleted
  <2> QED
    BY <1>2, <1>3, <1>10, <2>1 DEF RoutesInv, Routing!BindingsLead
<1>15. BackByText'
  <2>1. SUFFICES ASSUME NEW s \in Routing!Deleted, s \in tables'.gateway \cup tables'.agent
                 PROVE  HasText(s)'
    BY <1>10 DEF BackByText, HasText
  <2>2. s # 0 /\ s # numbered + 1
    BY <1>1 DEF Routing!Deleted, RoutesInv, DeletionIs
  <2> QED
    BY <1>3, <1>5, <2>1, <2>2 DEF RoutesInv, BackByText
<1>16. Routing!FailuresPutBack'
  <2>1. \A k \in Routing!Keys : bindings[k] # 0 => bindings'[k] # 0
    BY <1>1, <1>2
  <2>2. \A d \in Deletions : del[d].removed \subseteq Routing!Keys
    BY DEF RoutesInv, RoutesShape, DeletionRecords
  <2> QED
    BY <2>1, <2>2 DEF RoutesInv, Routing!FailuresPutBack, Routing!None
<1> QED
  BY <1>11, <1>12, <1>13, <1>14, <1>15, <1>16 DEF RoutesInv

\* A step of a deletion, as all the others see it.
LEMMA DeletionSteps ==
    ASSUME Routing!RoutingAssumption, RoutesInv, NEW d \in Deletions,
           UNCHANGED <<numbered, jobs, msg>>, RoutesShape', DeletionIs(d)',
           \A o \in Deletions \ {d} : del'[o] = del[o],
           d \in Routing!Deleting => del'[d].session = del[d].session
                                     /\ del'[d].keys = del[d].keys,
           d \in Routing!Deleting' /\ d \notin Routing!Deleting =>
              \A o \in Detached, k \in Routing!Keys :
                 k \in del[o].removed => bindings[k] # del'[d].session,
           del'[d].at = "deleted" => d \in Routing!Deleting \/ del[d].at = "deleted",
           del[d].at = "deleted" => del'[d] = del[d],
           tables'.agent \subseteq tables.agent,
           \A s \in tables'.gateway \ tables.gateway :
              s = del[d].session /\ d \in Routing!Deleting,
           \A k \in Routing!Keys :
              \/ bindings'[k] = bindings[k] \/ bindings'[k] = 0
              \/ bindings'[k] = del[d].session /\ d \in Detached /\ k \in del[d].removed
    PROVE  /\ \A m \in Messages : HandlerIs(m)' /\ MakesAlone(m)'
           /\ \A o \in Deletions : DeletionIs(o)'
<1>1. \A m \in Messages : HandlerIs(m)' /\ MakesAlone(m)'
  BY DEF RoutesInv, HandlerIs, MakesAlone, HasText, Makes
<1>2. /\ \A s : HasText(s)' <=> HasText(s)
      /\ \A s : IsMade(s)' <=> IsMade(s)
      /\ \A s : Routing!Busy(s)' <=> Routing!Busy(s)
  BY DEF HasText, IsMade, Makes, Routing!Busy, Routing!InSession
<1>3. \A o \in Deletions \ {d} :
         /\ o \in Routing!Deleting' <=> o \in Routing!Deleting
         /\ o \in Detached' <=> o \in Detached
  BY DEF Routing!Deleting, Detached
<1>4. \A s \in Routing!Deleted' :
         s \in Routing!Deleted \/ (d \in Routing!Deleting /\ s = del[d].session)
  BY DEF Routing!Deleted
<1>5. \A s \in Routing!Deleted : s \in Routing!Deleted'
  BY DEF Routing!Deleted
<1>6. ASSUME NEW o \in Deletions \ {d}
      PROVE  DeletionIs(o)'
  <2> DEFINE s == del[o].session
  <2>1. DeletionIs(o) /\ del'[o] = del[o]
    BY DEF RoutesInv
  <2>2. ASSUME o \in Routing!Deleting
        PROVE  /\ OnItsOwn(o)' /\ (s \in Routing!Deleted' => s \in Routing!Deleted)
               /\ s \in tables'.gateway => s \in tables.gateway
               /\ d \in Routing!Deleting => del[d].session # s /\ del[d].keys \cap del[o].keys = {}
    <3>1. OnItsOwn(o)
      BY <2>1, <2>2 DEF DeletionIs
    <3>2. d \in Routing!Deleting => del[d].session # s /\ del[d].keys \cap del[o].keys = {}
      BY <3>1 DEF OnItsOwn
    <3>3. d \in Routing!Deleting' => del'[d].session # s /\ del'[d].keys \cap del[o].keys = {}
      <4>1. d \in Routing!Deleting' => OnItsOwn(d)'
        BY DEF DeletionIs
      <4> QED
        BY <1>3, <2>1, <2>2, <4>1 DEF OnItsOwn
    <3>4. OnItsOwn(o)'
      BY <1>3, <2>1, <3>1, <3>3 DEF OnItsOwn, Routing!Deleting
    <3> QED
      BY <1>4, <3>2, <3>4
  <2>3. o \in Detached => o \in Routing!Deleting
    BY DEF Detached, Routing!Deleting
  <2>4. del[o].at = "before" => o \in Routing!Deleting
    BY DEF Routing!Deleting
  <2>5. o \in Routing!Deleting => s # 0
    BY <2>1 DEF DeletionIs, Routing!Deleting
  <2>6. o \in Routing!Deleting => \A k \in Routing!Keys : bindings'[k] = s => bindings[k] = s
    BY <2>2, <2>5 DEF Detached, Routing!Deleting
  <2>7. ASSUME o \in Detached
        PROVE  ReboundAfresh(o)'
    <3>1. ASSUME NEW k \in del[o].removed, bindings'[k] # 0
          PROVE  /\ bindings'[k] = bindings[k] /\ ~HasText(bindings[k])
                 /\ \A j \in Routing!Keys \ {k} : bindings'[j] # bindings[k]
                 /\ \A p \in Routing!Deleting' : del'[p].session # bindings[k]
      <4>1. k \in del[o].keys /\ k \in Routing!Keys
        BY <2>1 DEF DeletionIs, RoutesInv, RoutesShape, DeletionRecords
      <4>2. k \notin del[d].removed \/ d \notin Detached
        <5>1. d \in Detached => d \in Routing!Deleting /\ del[d].removed \subseteq del[d].keys
          BY DEF Detached, Routing!Deleting, RoutesInv, DeletionIs
        <5> QED
          BY <2>2, <2>3, <2>7, <4>1, <5>1
      <4>3. bindings'[k] = bindings[k]
        BY <3>1, <4>1, <4>2
      <4>4. /\ ~HasText(bindings[k])
            /\ \A j \in Routing!Keys \ {k} : bindings[j] # bindings[k]
            /\ \A p \in Routing!Deleting : del[p].session # bindings[k]
        BY <2>1, <2>7, <3>1, <4>3 DEF DeletionIs, ReboundAfresh
      <4>5. \A j \in Routing!Keys \ {k} : bindings'[j] # bindings[k]
        BY <3>1, <4>3, <4>4 DEF Detached, Routing!Deleting
      <4>6. \A p \in Routing!Deleting' : del'[p].session # bindings[k]
        <5>1. d \in Routing!Deleting' => del'[d].session # bindings[k]
          BY <2>7, <4>1, <4>4
        <5> QED
          BY <1>3, <4>4, <5>1 DEF Routing!Deleting
      <4> QED
        BY <4>3, <4>4, <4>5, <4>6
    <3> QED
      BY <2>1, <3>1 DEF ReboundAfresh, HasText
  <2> QED
    BY <1>2, <1>3, <2>1, <2>2, <2>3, <2>4, <2>5, <2>6, <2>7
       DEF DeletionIs, HasText, Routing!Busy, Routing!InSession, IsMade, Makes, Routing!NoDeletion
<1> QED
  BY <1>1, <1>6

\* beginSessionDeletion().
LEMMA AfterBegin ==
    ASSUME Routing!RoutingAssumption, RoutesInv, NEW d \in Deletions, Routing!BeginDeletion(d)
    PROVE  RoutesInv'
<1>1. PICK s \in tables.agent, keys \in SUBSET Routing!Keys :
         /\ del[d].at = "new"
         /\ s \notin Routing!FencedSessions /\ ~Routing!Busy(s)
         /\ \A k \in Routing!Keys : k \in keys <=> bindings[k] = s
         /\ keys \cap Routing!FencedKeys = {}
         /\ del' = [del EXCEPT ![d] = [@ EXCEPT !.at = "before", !.session = s, !.keys = keys]]
         /\ UNCHANGED <<bindings, tables, numbered, switches, jobs, msg, refusals>>
  <2>1. PICK s \in tables.agent :
           /\ del[d].at = "new"
           /\ s \notin Routing!FencedSessions /\ ~Routing!Busy(s)
           /\ {k \in Routing!Keys : bindings[k] = s} \cap Routing!FencedKeys = {}
           /\ del' = [del EXCEPT ![d] = [@ EXCEPT !.at = "before", !.session = s,
                                           !.keys = {k \in Routing!Keys : bindings[k] = s}]]
           /\ UNCHANGED <<bindings, tables, numbered, switches, jobs, msg, refusals>>
    BY DEF Routing!BeginDeletion
  <2>2. PICK keys : keys = {k \in Routing!Keys : bindings[k] = s}
    OBVIOUS
  <2> QED
    BY <2>1, <2>2
<1>2. /\ del[d] = Routing!NoDeletion /\ s # 0 /\ s \in 1..numbered
  BY <1>1 DEF RoutesInv, DeletionIs, RoutesShape
<1>3. /\ del'[d].at = "before" /\ del'[d].session = s /\ del'[d].keys = keys
      /\ del'[d].removed = {} /\ del[d].removed = {}
      /\ del'[d] = [del[d] EXCEPT !.at = "before", !.session = s, !.keys = keys]
      /\ \A o \in Deletions \ {d} : del'[o] = del[o]
  <2>1. del \in [Deletions -> DeletionRecords] /\ del[d].removed = {}
    BY <1>2 DEF RoutesInv, RoutesShape, Routing!NoDeletion
  <2>2. /\ del'[d] = [del[d] EXCEPT !.at = "before", !.session = s, !.keys = keys]
        /\ \A o \in Deletions \ {d} : del'[o] = del[o]
    BY <1>1, <2>1
  <2>3. /\ del'[d].at = "before" /\ del'[d].session = s /\ del'[d].keys = keys
        /\ del'[d].removed = del[d].removed
    BY <2>1, <2>2 DEF DeletionRecords
  <2> QED
    BY <2>1, <2>2, <2>3
<1>4. /\ Routing!Deleting' = Routing!Deleting \cup {d} /\ d \notin Routing!Deleting
      /\ Routing!Deleted' = Routing!Deleted /\ Detached' = Detached
  BY <1>1, <1>3 DEF Routing!Deleting, Routing!Deleted, Detached
<1>5. RoutesShape'
  <2>1. del'[d] \in DeletionRecords
    <3>1. del[d] \in DeletionRecords /\ s \in 0..numbered
      BY <1>2 DEF RoutesInv, RoutesShape
    <3> QED
      BY <1>3, <3>1 DEF DeletionRecords, DeletionPlaces
  <2>2. del' = [del EXCEPT ![d] = del'[d]]
    BY <1>1, <1>3 DEF RoutesInv, RoutesShape
  <2>3. del' \in [Deletions -> DeletionRecords]
    BY <2>1, <2>2 DEF RoutesInv, RoutesShape
  <2> QED
    BY <1>1, <2>3 DEF RoutesInv, RoutesShape, DeletionRecords, Handlers
<1>6. DeletionIs(d)'
  <2>1. \A o \in Routing!Deleting : del[o].session # s
                                     /\ del[o].keys \cap keys = {}
    BY <1>1 DEF Routing!FencedSessions, Routing!FencedKeys
  <2>2. OnItsOwn(d)'
    BY <1>3, <1>4, <2>1 DEF OnItsOwn, Routing!Deleting
  <2>3. IsMade(s) => HasText(s)
    BY <1>1 DEF RoutesInv, MakesAlone, IsMade, Makes
  <2>4. s \in Routing!Deleted => HasText(s)
    BY <1>1 DEF RoutesInv, BackByText
  <2>5. d \notin Detached' /\ d \in Routing!Deleting'
    BY <1>3 DEF Detached, Routing!Deleting
  <2>6. /\ ~Routing!Busy(s)' /\ (s \in Routing!Deleted' => HasText(s)')
        /\ IsMade(s)' => HasText(s)'
    BY <1>1, <1>4, <2>3, <2>4 DEF HasText, Routing!Busy, Routing!InSession, IsMade, Makes
  <2>7. \A k \in Routing!Keys : bindings'[k] = s => k \in keys
    BY <1>1
  <2> QED
    BY <1>2, <1>3, <2>2, <2>5, <2>6, <2>7
       DEF DeletionIs, HasText, Routing!Busy, Routing!InSession, IsMade, Makes
<1>7. \A o \in Detached, k \in Routing!Keys : k \in del[o].removed => bindings[k] # s
  <2>1. \A o \in Detached : o \in Routing!Deleting /\ del[o].removed \subseteq del[o].keys
    BY DEF Detached, Routing!Deleting, RoutesInv, DeletionIs
  <2> QED
    BY <1>1, <2>1 DEF Routing!FencedKeys
<1>8. /\ \A m \in Messages : HandlerIs(m)' /\ MakesAlone(m)'
      /\ \A o \in Deletions : DeletionIs(o)'
  BY <1>1, <1>3, <1>4, <1>5, <1>6, <1>7, DeletionSteps
<1>9. Routing!BindingsLead' /\ BackByText'
  BY <1>1, <1>4 DEF RoutesInv, Routing!BindingsLead, BackByText, HasText
<1>10. Routing!FailuresPutBack'
  <2>1. \A o \in Deletions : del'[o].removed = del[o].removed
                             /\ (del'[o].at = "failed" => del[o].at = "failed")
    BY <1>2, <1>3 DEF Routing!NoDeletion
  <2> QED
    BY <1>1, <2>1 DEF RoutesInv, Routing!FailuresPutBack
<1> QED
  BY <1>5, <1>8, <1>9, <1>10 DEF RoutesInv

\* A deletion goes on to another place.
LEMMA DeletionGoesTo ==
    ASSUME RoutesInv, NEW d \in Deletions, NEW a \in DeletionPlaces,
           del' = [del EXCEPT ![d].at = a]
    PROVE  /\ del' \in [Deletions -> DeletionRecords]
           /\ \A o \in Deletions \ {d} : del'[o] = del[o]
           /\ del'[d].at = a /\ del'[d].session = del[d].session
           /\ del'[d].keys = del[d].keys /\ del'[d].row = del[d].row
           /\ del'[d].removed = del[d].removed
<1>1. del \in [Deletions -> DeletionRecords] /\ del[d] \in DeletionRecords
  BY DEF RoutesInv, RoutesShape
<1>2. /\ del'[d] = [del[d] EXCEPT !.at = a]
      /\ \A o \in Deletions \ {d} : del'[o] = del[o]
  BY <1>1
<1>3. /\ del'[d] \in DeletionRecords
      /\ del'[d].at = a /\ del'[d].session = del[d].session
      /\ del'[d].keys = del[d].keys /\ del'[d].row = del[d].row
      /\ del'[d].removed = del[d].removed
  BY <1>1, <1>2 DEF DeletionRecords
<1>4. del' = [del EXCEPT ![d] = del'[d]]
  BY <1>1
<1> QED
  BY <1>1, <1>2, <1>3, <1>4

\* The session is taken from the gateway's store, and its bindings with it.
LEMMA AfterDetach ==
    ASSUME Routing!RoutingAssumption, RoutesInv, NEW d \in Deletions, Routing!Detach(d)
    PROVE  RoutesInv'
<1> DEFINE s == del[d].session
<1>1. PICK bound \in SUBSET Routing!Keys, inStore \in BOOLEAN :
         /\ inStore <=> s \in tables.gateway
         /\ \A k \in Routing!Keys : k \in bound <=> bindings[k] = s
         /\ del[d].at = "before"
         /\ del' = [del EXCEPT ![d] = [@ EXCEPT !.at = "agent", !.removed = bound,
                                                !.row = inStore]]
         /\ tables' = [tables EXCEPT !.gateway = @ \ {s}]
         /\ bindings' = [k \in Routing!Keys |-> IF k \in bound THEN 0 ELSE bindings[k]]
         /\ UNCHANGED <<numbered, switches, jobs, msg, refusals>>
  <2>1. PICK bound : bound = {k \in Routing!Keys : bindings[k] = s}
    OBVIOUS
  <2>6. (s \in tables.gateway) \in BOOLEAN
    OBVIOUS
  <2>2. PICK inStore \in BOOLEAN : inStore = (s \in tables.gateway)
    BY <2>6, Zenon
  <2>3. inStore <=> s \in tables.gateway
    BY <2>2, Zenon
  <2>4. \A k \in Routing!Keys : k \in bound <=> bindings[k] = s
    BY <2>1
  <2>5. /\ del[d].at = "before"
        /\ del' = [del EXCEPT ![d] = [@ EXCEPT !.at = "agent", !.removed = bound,
                                               !.row = inStore]]
        /\ tables' = [tables EXCEPT !.gateway = @ \ {s}]
        /\ bindings' = [k \in Routing!Keys |-> IF k \in bound THEN 0 ELSE bindings[k]]
        /\ UNCHANGED <<numbered, switches, jobs, msg, refusals>>
    BY <2>1, <2>2, Zenon DEF Routing!Detach, Routing!None
  <2> QED
    BY <2>1, <2>3, <2>4, <2>5, Zenon
<1>2. DeletionIs(d) /\ del[d] \in DeletionRecords /\ d \in Routing!Deleting /\ s # 0
  BY <1>1 DEF RoutesInv, RoutesShape, Routing!Deleting, DeletionIs
<1>3. /\ del'[d] = [del[d] EXCEPT !.at = "agent", !.removed = bound,
                                  !.row = inStore]
      /\ \A o \in Deletions \ {d} : del'[o] = del[o]
  BY <1>1 DEF RoutesInv, RoutesShape
<1>4. /\ del'[d].at = "agent" /\ del'[d].session = s /\ del'[d].keys = del[d].keys
      /\ del'[d].removed = bound /\ del'[d].row = inStore
      /\ del[d].removed = {} /\ del'[d] \in DeletionRecords
  <2>1. /\ del'[d].at = "agent" /\ del'[d].session = s /\ del'[d].keys = del[d].keys
        /\ del'[d].removed = bound /\ del'[d].row = inStore
    BY <1>2, <1>3 DEF DeletionRecords
  <2>2. del'[d] \in DeletionRecords
    BY <1>2, <1>3 DEF DeletionRecords, DeletionPlaces
  <2> QED
    BY <1>1, <1>2, <2>1, <2>2 DEF DeletionIs
<1>5. /\ Routing!Deleting' = Routing!Deleting /\ Routing!Deleted' = Routing!Deleted
      /\ d \in Detached' /\ d \notin Detached
  BY <1>1, <1>3, <1>4 DEF Routing!Deleting, Routing!Deleted, Detached
<1>6. tables'.gateway = tables.gateway \ {s} /\ tables'.agent = tables.agent
  BY <1>1 DEF RoutesInv, RoutesShape
<1>7. \A k \in Routing!Keys : bindings'[k] = IF k \in bound THEN 0 ELSE bindings[k]
  BY <1>1
<1>8. RoutesShape'
  <2>1. del' \in [Deletions -> DeletionRecords]
    <3>1. del' = [del EXCEPT ![d] = del'[d]]
      BY <1>1, <1>3 DEF RoutesInv, RoutesShape
    <3> QED
      BY <1>4, <3>1 DEF RoutesInv, RoutesShape
  <2>2. bindings' \in [Routing!Keys -> 0..numbered]
    BY <1>1 DEF RoutesInv, RoutesShape
  <2>3. tables' \in [gateway : SUBSET (1..numbered), agent : SUBSET (1..numbered)]
    BY <1>1 DEF RoutesInv, RoutesShape
  <2> QED
    BY <1>1, <2>1, <2>2, <2>3 DEF RoutesInv, RoutesShape, DeletionRecords, Handlers
<1>9. DeletionIs(d)'
  <2>1. OnItsOwn(d)'
    BY <1>2, <1>3, <1>4, <1>5 DEF DeletionIs, OnItsOwn, Routing!Deleting
  <2>2. bound \subseteq del[d].keys
    BY <1>1, <1>2 DEF DeletionIs
  <2>3. /\ ~Routing!Busy(s)' /\ (s \in Routing!Deleted' => HasText(s)')
        /\ IsMade(s)' => HasText(s)'
    BY <1>1, <1>2, <1>5
       DEF DeletionIs, HasText, Routing!Busy, Routing!InSession, IsMade, Makes
  <2>4. \A k \in Routing!Keys : bindings'[k] # s
    BY <1>1, <1>2, <1>7
  <2>5. bound # {} => s \in tables.gateway /\ s \notin Routing!Deleted
    BY <1>1, <1>2 DEF RoutesInv, Routing!BindingsLead, Routing!None
  <2>6. ReboundAfresh(d)'
    BY <1>4, <1>7 DEF ReboundAfresh
  <2>7. s \notin tables'.gateway
    BY <1>6
  <2>8. bound # {} => del'[d].row
    BY <1>1, <1>4, <2>5
  <2>9. DeletionIs(d)' <=>
           /\ del'[d].removed \subseteq del'[d].keys
           /\ ~Routing!Busy(s)' /\ OnItsOwn(d)'
           /\ s \in Routing!Deleted' => HasText(s)'
           /\ IsMade(s)' => HasText(s)'
           /\ \A k \in Routing!Keys : bindings'[k] # s
           /\ s \in tables'.gateway => HasText(s)'
           /\ del'[d].removed # {} => del'[d].row /\ s \notin Routing!Deleted'
           /\ ReboundAfresh(d)'
    BY <1>2, <1>4, <1>5
       DEF DeletionIs, HasText, Routing!Busy, Routing!InSession, IsMade, Makes
  <2> HIDE DEF s
  <2> QED
    BY <1>4, <1>5, <2>8, <2>9, <2>1, <2>2, <2>3, <2>4, <2>5, <2>6, <2>7
<1>10. \A k \in Routing!Keys : bindings'[k] = bindings[k] \/ bindings'[k] = 0
  BY <1>7
<1>11. /\ \A m \in Messages : HandlerIs(m)' /\ MakesAlone(m)'
       /\ \A o \in Deletions : DeletionIs(o)'
  BY <1>1, <1>2, <1>3, <1>4, <1>5, <1>6, <1>8, <1>9, <1>10, DeletionSteps
<1>12. Routing!BindingsLead'
  BY <1>1, <1>5, <1>6, <1>7 DEF RoutesInv, Routing!BindingsLead, Routing!None
<1>13. BackByText'
  BY <1>1, <1>5, <1>6 DEF RoutesInv, BackByText, HasText
<1>14. Routing!FailuresPutBack'
  <2>1. SUFFICES ASSUME NEW o \in Deletions, del'[o].at = "failed", NEW k \in del'[o].removed,
                        bindings'[k] = 0
                 PROVE  \E p \in Deletions \ {o} : k \in del'[p].removed
    BY DEF Routing!FailuresPutBack, Routing!None
  <2>2. o # d /\ del'[o] = del[o] /\ k \in Routing!Keys
    BY <1>3, <1>4, <2>1 DEF RoutesInv, RoutesShape, DeletionRecords
  <2>3. CASE k \in bound
    BY <1>4, <2>2, <2>3
  <2>4. CASE k \notin bound
    <3>1. PICK p \in Deletions \ {o} : k \in del[p].removed
      BY <1>7, <2>1, <2>2, <2>4 DEF RoutesInv, Routing!FailuresPutBack, Routing!None
    <3>2. p # d
      BY <1>4, <3>1
    <3> QED
      BY <1>3, <3>1, <3>2
  <2> QED
    BY <2>3, <2>4
<1> QED
  BY <1>8, <1>11, <1>12, <1>13, <1>14 DEF RoutesInv

\* It could not be.
LEMMA AfterDetachFails ==
    ASSUME Routing!RoutingAssumption, RoutesInv, NEW d \in Deletions, Routing!DetachFails(d)
    PROVE  RoutesInv'
<1>1. /\ del[d].at = "before" /\ del' = [del EXCEPT ![d].at = "failed"]
      /\ refusals < MaxRefusals /\ refusals' = refusals + 1
      /\ UNCHANGED <<bindings, tables, numbered, switches, jobs, msg>>
  BY DEF Routing!DetachFails, Routing!Fail
<1>2. /\ del' \in [Deletions -> DeletionRecords]
      /\ \A o \in Deletions \ {d} : del'[o] = del[o]
      /\ del'[d].at = "failed" /\ del'[d].session = del[d].session
      /\ del'[d].keys = del[d].keys /\ del'[d].row = del[d].row
      /\ del'[d].removed = del[d].removed
  BY <1>1, DeletionGoesTo DEF DeletionPlaces
<1>3. /\ Routing!Deleting' = Routing!Deleting \ {d} /\ Routing!Deleted' = Routing!Deleted
      /\ Detached' = Detached /\ d \in Routing!Deleting /\ d \notin Detached
  BY <1>1, <1>2 DEF Routing!Deleting, Routing!Deleted, Detached
<1>4. RoutesShape'
  <2>1. refusals' \in 0..MaxRefusals
    BY <1>1 DEF RoutesInv, RoutesShape, Routing!RoutingAssumption
  <2> QED
    BY <1>1, <1>2, <2>1 DEF RoutesInv, RoutesShape, DeletionRecords, Handlers
<1>5. DeletionIs(d)'
  <2>1. DeletionIs(d) /\ d \notin Routing!Deleting' /\ d \notin Detached'
    BY <1>3 DEF RoutesInv
  <2>2. IsMade(del[d].session)' => HasText(del[d].session)'
    BY <1>1, <2>1 DEF DeletionIs, HasText, IsMade, Makes
  <2> QED
    BY <1>1, <1>2, <2>1, <2>2 DEF DeletionIs, HasText, IsMade, Makes
<1>6. /\ \A m \in Messages : HandlerIs(m)' /\ MakesAlone(m)'
      /\ \A o \in Deletions : DeletionIs(o)'
  BY <1>1, <1>2, <1>3, <1>4, <1>5, DeletionSteps
<1>7. Routing!BindingsLead' /\ BackByText'
  BY <1>1, <1>3 DEF RoutesInv, Routing!BindingsLead, BackByText, HasText
<1>8. Routing!FailuresPutBack'
  <2>1. del[d].removed = {}
    BY <1>1 DEF RoutesInv, DeletionIs
  <2>2. \A o \in Deletions : del'[o].removed = del[o].removed
                             /\ (del'[o].at = "failed" => o = d \/ del[o].at = "failed")
    BY <1>2
  <2> QED
    BY <1>1, <2>1, <2>2 DEF RoutesInv, Routing!FailuresPutBack
<1> QED
  BY <1>4, <1>6, <1>7, <1>8 DEF RoutesInv

\* The agent deletes the session, or does not.
LEMMA AfterAgentDeletes ==
    ASSUME Routing!RoutingAssumption, RoutesInv, NEW d \in Deletions, Routing!AgentDeletes(d)
    PROVE  RoutesInv'
<1> DEFINE s == del[d].session
<1>1. PICK a \in {"answered", "lost"} :
         /\ del[d].at = "agent" /\ del' = [del EXCEPT ![d].at = a]
         /\ \/ tables' = [tables EXCEPT !.agent = @ \ {s}]
            \/ tables' = tables /\ a = "lost"
         /\ \/ UNCHANGED refusals
            \/ refusals < MaxRefusals /\ refusals' = refusals + 1
         /\ UNCHANGED <<bindings, numbered, switches, jobs, msg>>
  <2>1. /\ del[d].at = "agent" /\ UNCHANGED <<bindings, numbered, switches, jobs, msg>>
        /\ \/ /\ tables' = [tables EXCEPT !.agent = @ \ {s}]
              /\ \/ /\ del' = [del EXCEPT ![d].at = IF s \in tables.agent THEN "answered" ELSE "lost"]
                    /\ UNCHANGED refusals
                 \/ Routing!Fail /\ del' = [del EXCEPT ![d].at = "lost"]
           \/ Routing!Fail /\ del' = [del EXCEPT ![d].at = "lost"] /\ tables' = tables
    BY DEF Routing!AgentDeletes
  <2> QED
    BY <2>1 DEF Routing!Fail
<1>2. /\ del' \in [Deletions -> DeletionRecords]
      /\ \A o \in Deletions \ {d} : del'[o] = del[o]
      /\ del'[d].at = a /\ del'[d].session = del[d].session
      /\ del'[d].keys = del[d].keys /\ del'[d].row = del[d].row
      /\ del'[d].removed = del[d].removed
  BY <1>1, DeletionGoesTo DEF DeletionPlaces
<1>3. /\ Routing!Deleting' = Routing!Deleting /\ Routing!Deleted' = Routing!Deleted
      /\ Detached' = Detached /\ d \in Routing!Deleting /\ d \in Detached
  BY <1>1, <1>2 DEF Routing!Deleting, Routing!Deleted, Detached
<1>4. /\ tables'.gateway = tables.gateway /\ tables'.agent \subseteq tables.agent
      /\ a = "answered" => s \notin tables'.agent
  BY <1>1 DEF RoutesInv, RoutesShape
<1>5. RoutesShape'
  <2>1. refusals' \in 0..MaxRefusals
    BY <1>1 DEF RoutesInv, RoutesShape, Routing!RoutingAssumption
  <2>2. tables' \in [gateway : SUBSET (1..numbered), agent : SUBSET (1..numbered)]
    BY <1>1 DEF RoutesInv, RoutesShape
  <2> QED
    BY <1>1, <1>2, <2>1, <2>2 DEF RoutesInv, RoutesShape, DeletionRecords, Handlers
<1>6. DeletionIs(d)'
  <2>1. DeletionIs(d)
    BY DEF RoutesInv
  <2>2. OnItsOwn(d) => OnItsOwn(d)'
    BY <1>2, <1>3 DEF OnItsOwn, Routing!Deleting
  <2>3. ReboundAfresh(d) => ReboundAfresh(d)'
    <3>1. \A o \in Routing!Deleting : del'[o].session = del[o].session
      BY <1>2 DEF Routing!Deleting
    <3> QED
      BY <1>1, <1>2, <1>3, <3>1 DEF ReboundAfresh, HasText
  <2> QED
    BY <1>1, <1>2, <1>3, <1>4, <2>1, <2>2, <2>3
       DEF DeletionIs, HasText, Routing!Busy, Routing!InSession, IsMade, Makes
<1>7. /\ \A m \in Messages : HandlerIs(m)' /\ MakesAlone(m)'
      /\ \A o \in Deletions : DeletionIs(o)'
  BY <1>1, <1>2, <1>3, <1>4, <1>5, <1>6, DeletionSteps
<1>8. Routing!BindingsLead' /\ BackByText'
  BY <1>1, <1>3, <1>4 DEF RoutesInv, Routing!BindingsLead, BackByText, HasText
<1>9. Routing!FailuresPutBack'
  <2>1. \A o \in Deletions : del'[o].removed = del[o].removed
                             /\ (del'[o].at = "failed" => del[o].at = "failed")
    BY <1>1, <1>2
  <2> QED
    BY <1>1, <2>1 DEF RoutesInv, Routing!FailuresPutBack
<1> QED
  BY <1>5, <1>7, <1>8, <1>9 DEF RoutesInv

\* A deletion has succeeded.
LEMMA AfterDeletionEnds ==
    ASSUME Routing!RoutingAssumption, RoutesInv, NEW d \in Deletions, Routing!DeletionEnds(d)
    PROVE  RoutesInv'
<1> DEFINE s == del[d].session
<1>1. /\ del[d].at = "answered" /\ del' = [del EXCEPT ![d].at = "deleted"]
      /\ switches' = [steering |-> switches.steering \ {s},
                      suspended |-> switches.suspended \ {s}]
      /\ UNCHANGED <<bindings, tables, numbered, jobs, msg, refusals>>
  BY DEF Routing!DeletionEnds
<1>2. /\ del' \in [Deletions -> DeletionRecords]
      /\ \A o \in Deletions \ {d} : del'[o] = del[o]
      /\ del'[d].at = "deleted" /\ del'[d].session = del[d].session
      /\ del'[d].keys = del[d].keys /\ del'[d].row = del[d].row
      /\ del'[d].removed = del[d].removed
  BY <1>1, DeletionGoesTo DEF DeletionPlaces
<1>3. /\ Routing!Deleting' = Routing!Deleting \ {d}
      /\ Routing!Deleted' = Routing!Deleted \cup {s}
      /\ Detached' = Detached \ {d} /\ d \in Routing!Deleting /\ d \in Detached
  BY <1>1, <1>2 DEF Routing!Deleting, Routing!Deleted, Detached
<1>4. RoutesShape'
  <2>1. switches' \in [steering : SUBSET (1..MaxSessions), suspended : SUBSET (1..MaxSessions)]
    BY <1>1 DEF RoutesInv, RoutesShape
  <2> QED
    BY <1>1, <1>2, <2>1 DEF RoutesInv, RoutesShape, DeletionRecords, Handlers
<1>5. DeletionIs(d)
  BY DEF RoutesInv
<1>6. DeletionIs(d)'
  <2>1. d \notin Routing!Deleting' /\ d \notin Detached'
    BY <1>3
  <2>2. IsMade(s)' => HasText(s)'
    BY <1>1, <1>5 DEF DeletionIs, HasText, IsMade, Makes
  <2> QED
    BY <1>1, <1>2, <1>5, <2>1, <2>2 DEF DeletionIs, HasText, IsMade, Makes
<1>7. /\ \A m \in Messages : HandlerIs(m)' /\ MakesAlone(m)'
      /\ \A o \in Deletions : DeletionIs(o)'
  BY <1>1, <1>2, <1>3, <1>4, <1>6, DeletionSteps
<1>8. Routing!BindingsLead'
  BY <1>1, <1>3, <1>5 DEF RoutesInv, Routing!BindingsLead, DeletionIs
<1>9. BackByText'
  BY <1>1, <1>3, <1>5 DEF RoutesInv, BackByText, HasText, DeletionIs
<1>10. Routing!FailuresPutBack'
  <2>1. \A o \in Deletions : del'[o].removed = del[o].removed
                             /\ (del'[o].at = "failed" => del[o].at = "failed")
    BY <1>2
  <2> QED
    BY <1>1, <2>1 DEF RoutesInv, Routing!FailuresPutBack
<1> QED
  BY <1>4, <1>7, <1>8, <1>9, <1>10 DEF RoutesInv

\* restore(): a deletion that failed puts back what it took away.
LEMMA AfterPutBack ==
    ASSUME Routing!RoutingAssumption, RoutesInv, NEW d \in Deletions, Routing!PutBack(d)
    PROVE  RoutesInv'
<1> DEFINE s == del[d].session
<1>1. /\ del[d].at = "lost" /\ del' = [del EXCEPT ![d].at = "failed"]
      /\ tables' = IF del[d].row THEN [tables EXCEPT !.gateway = @ \cup {s}] ELSE tables
      /\ bindings' = [k \in Routing!Keys |-> IF k \in del[d].removed THEN s ELSE bindings[k]]
      /\ UNCHANGED <<numbered, switches, jobs, msg, refusals>>
  BY DEF Routing!PutBack
<1>2. /\ del' \in [Deletions -> DeletionRecords]
      /\ \A o \in Deletions \ {d} : del'[o] = del[o]
      /\ del'[d].at = "failed" /\ del'[d].session = del[d].session
      /\ del'[d].keys = del[d].keys /\ del'[d].row = del[d].row
      /\ del'[d].removed = del[d].removed
  BY <1>1, DeletionGoesTo DEF DeletionPlaces
<1>3. /\ Routing!Deleting' = Routing!Deleting \ {d} /\ Routing!Deleted' = Routing!Deleted
      /\ Detached' = Detached \ {d} /\ d \in Routing!Deleting /\ d \in Detached
  BY <1>1, <1>2 DEF Routing!Deleting, Routing!Deleted, Detached
<1>4. /\ tables'.agent = tables.agent /\ tables.gateway \subseteq tables'.gateway
      /\ tables'.gateway \subseteq tables.gateway \cup {s}
      /\ del[d].row => s \in tables'.gateway
  BY <1>1 DEF RoutesInv, RoutesShape
<1>5. \A k \in Routing!Keys : bindings'[k] = IF k \in del[d].removed THEN s ELSE bindings[k]
  BY <1>1
<1>6. DeletionIs(d) /\ s # 0 /\ s \in 1..numbered /\ s \in 0..numbered
  <2>1. DeletionIs(d) /\ s # 0 /\ s \in 0..numbered /\ numbered \in Nat
    BY <1>1 DEF RoutesInv, RoutesShape, DeletionRecords, DeletionIs
  <2> QED
    BY <2>1
<1>7. RoutesShape'
  <2>1. bindings' \in [Routing!Keys -> 0..numbered]
    BY <1>1, <1>6 DEF RoutesInv, RoutesShape
  <2>2. tables' \in [gateway : SUBSET (1..numbered), agent : SUBSET (1..numbered)]
    BY <1>1, <1>6 DEF RoutesInv, RoutesShape
  <2> QED
    BY <1>1, <1>2, <2>1, <2>2 DEF RoutesInv, RoutesShape, DeletionRecords, Handlers
<1>8. DeletionIs(d)'
  <2>1. d \notin Routing!Deleting' /\ d \notin Detached'
    BY <1>3
  <2>2. IsMade(s)' => HasText(s)'
    BY <1>1, <1>6 DEF DeletionIs, HasText, IsMade, Makes
  <2> QED
    BY <1>1, <1>2, <1>6, <2>1, <2>2 DEF DeletionIs, HasText, IsMade, Makes
<1>9. /\ \A m \in Messages : HandlerIs(m)' /\ MakesAlone(m)'
      /\ \A o \in Deletions : DeletionIs(o)'
  BY <1>1, <1>2, <1>3, <1>4, <1>5, <1>7, <1>8, DeletionSteps
<1>10. Routing!BindingsLead'
  BY <1>3, <1>4, <1>5, <1>6 DEF RoutesInv, Routing!BindingsLead, DeletionIs
<1>11. BackByText'
  BY <1>1, <1>3, <1>4, <1>6 DEF RoutesInv, BackByText, HasText, DeletionIs
<1>12. Routing!FailuresPutBack'
  <2>1. SUFFICES ASSUME NEW o \in Deletions, del'[o].at = "failed", NEW k \in del'[o].removed,
                        bindings'[k] = 0
                 PROVE  \E p \in Deletions \ {o} : k \in del'[p].removed
    BY DEF Routing!FailuresPutBack, Routing!None
  <2>2. k \in Routing!Keys /\ k \in del[o].removed
    BY <1>2, <2>1 DEF RoutesInv, RoutesShape, DeletionRecords
  <2>3. k \notin del[d].removed /\ bindings[k] = 0 /\ o # d
    BY <1>5, <1>6, <2>1, <2>2
  <2>4. PICK p \in Deletions \ {o} : k \in del[p].removed
    BY <1>2, <2>1, <2>2, <2>3 DEF RoutesInv, Routing!FailuresPutBack, Routing!None
  <2> QED
    BY <1>2, <2>3, <2>4
<1> QED
  BY <1>7, <1>9, <1>10, <1>11, <1>12 DEF RoutesInv

\* A message goes to a place and keeps the rest.
LEMMA MessageGoesTo ==
    ASSUME RoutesInv, NEW m \in Messages, NEW at \in MessagePlaces, UNCHANGED numbered,
           msg' = [msg EXCEPT ![m].at = at]
    PROVE  /\ msg' \in [Messages -> Handlers']
           /\ \A n \in Messages \ {m} : msg'[n] = msg[n]
           /\ msg'[m].at = at /\ msg'[m].kind = msg[m].kind
           /\ msg'[m].session = msg[m].session
           /\ msg'[m].row = msg[m].row /\ msg'[m].late = msg[m].late
<1>1. msg \in [Messages -> Handlers] /\ Handlers' = Handlers
  BY DEF RoutesInv, RoutesShape, Handlers
<1>2. msg'[m] = [msg[m] EXCEPT !.at = at]
  BY <1>1
<1>3. msg'[m] \in Handlers
  BY <1>1, <1>2 DEF Handlers
<1>4. /\ msg'[m].at = at /\ msg'[m].kind = msg[m].kind
      /\ msg'[m].session = msg[m].session
      /\ msg'[m].row = msg[m].row /\ msg'[m].late = msg[m].late
  BY <1>1, <1>2 DEF Handlers
<1>5. \A n \in Messages \ {m} : msg'[n] = msg[n]
  BY <1>1
<1> QED
  BY <1>1, <1>3, <1>4, <1>5

\* A message goes to a place, and nothing else changes but who steers or is suspended, and
\* how often the agent failed.
LEMMA GoingSteps ==
    ASSUME Routing!RoutingAssumption, RoutesInv, NEW m \in Messages,
           NEW at \in MessagePlaces \ {"ensureNext", "sent"},
           msg' = [msg EXCEPT ![m].at = at],
           UNCHANGED <<bindings, tables, numbered, jobs, del>>,
           switches' \in [steering : SUBSET (1..MaxSessions), suspended : SUBSET (1..MaxSessions)],
           refusals' \in 0..MaxRefusals, jobs[m] = "none", HandlerIs(m)'
    PROVE  RoutesInv'
<1>1. /\ msg' \in [Messages -> Handlers']
      /\ \A n \in Messages \ {m} : msg'[n] = msg[n]
      /\ msg'[m].at = at /\ msg'[m].kind = msg[m].kind
      /\ msg'[m].session = msg[m].session
  BY MessageGoesTo
<1>2. RoutesShape'
  BY <1>1 DEF RoutesInv, RoutesShape, DeletionRecords
<1>3. msg[m].at = "sent" => msg'[m].session = 0
  BY <1>1 DEF RoutesInv, HandlerIs
<1> QED
  BY <1>1, <1>2, <1>3, MessageSteps

\* The sessions that were deleted have been made, and a new one is not among them.
LEMMA DeletedAreMade ==
    ASSUME RoutesInv
    PROVE  /\ Routing!Deleted \subseteq 1..numbered
           /\ numbered \in Nat /\ numbered + 1 \notin 1..numbered /\ numbered + 1 # 0
<1>1. \A d \in Deletions : del[d].session \in 0..numbered /\ DeletionIs(d)
  BY DEF RoutesInv, RoutesShape, DeletionRecords
<1>2. numbered \in Nat
  BY DEF RoutesInv, RoutesShape
<1>3. \A s \in Routing!Deleted : s \in 0..numbered /\ s # 0
  BY <1>1 DEF Routing!Deleted, DeletionIs
<1>4. \A s \in 0..numbered : s # 0 => s \in 1..numbered
  BY <1>2
<1> QED
  BY <1>2, <1>3, <1>4

\* Where one more session is made and the key of a message is bound to it, the values of the
\* variables stay what they were.
LEMMA FreshShape ==
    ASSUME Routing!RoutingAssumption, RoutesInv, NEW m \in Messages,
           UNCHANGED <<del, jobs, refusals>>,
           numbered < MaxSessions, numbered' = numbered + 1,
           bindings' = [bindings EXCEPT ![KeyOf[m]] = numbered + 1],
           tables' = [tables EXCEPT !.gateway = @ \cup {numbered + 1}],
           switches' \in [steering : SUBSET (1..MaxSessions), suspended : SUBSET (1..MaxSessions)],
           msg' \in [Messages -> Handlers']
    PROVE  RoutesShape'
<1>1. /\ numbered \in 1..MaxSessions /\ MaxSessions \in Nat
      /\ bindings \in [Routing!Keys -> 0..numbered]
      /\ tables \in [gateway : SUBSET (1..numbered), agent : SUBSET (1..numbered)]
      /\ del \in [Deletions -> DeletionRecords]
      /\ refusals \in 0..MaxRefusals /\ jobs \in [Messages -> JobPlaces]
  BY DEF RoutesInv, RoutesShape, Routing!RoutingAssumption
<1>2. /\ numbered + 1 \in 1..MaxSessions /\ numbered + 1 \in 1..(numbered + 1)
      /\ 0..numbered \subseteq 0..(numbered + 1) /\ 1..numbered \subseteq 1..(numbered + 1)
      /\ numbered + 1 \in 0..(numbered + 1)
  BY <1>1
<1>3. bindings' \in [Routing!Keys -> 0..(numbered + 1)]
  BY <1>1, <1>2
<1>4. tables' \in [gateway : SUBSET (1..(numbered + 1)), agent : SUBSET (1..(numbered + 1))]
  BY <1>1, <1>2
<1>5. DeletionRecords \subseteq DeletionRecords'
  BY <1>2 DEF DeletionRecords
<1>6. del' \in [Deletions -> DeletionRecords']
  BY <1>1, <1>5
<1> QED
  BY <1>1, <1>2, <1>3, <1>4, <1>6 DEF RoutesShape

\* A text arrives.
LEMMA AfterReceiveText ==
    ASSUME Routing!RoutingAssumption, RoutesInv, NEW m \in Messages, Routing!ReceiveText(m)
    PROVE  RoutesInv'
<1> DEFINE k == KeyOf[m]
           s == bindings[k]
<1>1. /\ msg[m].at = "sent" /\ msg[m].kind = "text"
      /\ \/ Routing!Goes(m, "refused") /\ UNCHANGED <<bindings, tables, numbered>>
         \/ /\ k \notin Routing!FencedKeys /\ s # 0
            /\ msg' = [msg EXCEPT ![m] = [@ EXCEPT !.at = "load", !.session = s,
                                                   !.late = Routing!Deleted]]
            /\ UNCHANGED <<bindings, tables, numbered>>
         \/ /\ k \notin Routing!FencedKeys /\ numbered < MaxSessions
            /\ numbered' = numbered + 1 /\ bindings' = [bindings EXCEPT ![k] = numbered + 1]
            /\ tables' = [tables EXCEPT !.gateway = @ \cup {numbered + 1}]
            /\ msg' = [msg EXCEPT ![m] = [@ EXCEPT !.at = "ensure", !.session = numbered + 1,
                                                   !.late = Routing!Deleted]]
      /\ UNCHANGED <<switches, jobs, del, refusals>>
  BY DEF Routing!ReceiveText, Routing!None
<1>2. /\ msg \in [Messages -> Handlers] /\ msg[m] \in Handlers /\ k \in Routing!Keys
      /\ HandlerIs(m) /\ jobs[m] = "none"
  BY <1>1 DEF RoutesInv, RoutesShape, HandlerIs, Routing!Keys
<1>3. s \in 0..numbered /\ (s # 0 => s \notin Routing!Deleted)
  BY <1>2 DEF RoutesInv, RoutesShape, Routing!BindingsLead, Routing!None
<1>4. /\ Routing!Deleted \subseteq 1..numbered /\ numbered \in Nat
      /\ numbered + 1 \notin 1..numbered /\ numbered + 1 # 0
  BY DeletedAreMade
<1>5. CASE Routing!Goes(m, "refused") /\ UNCHANGED <<bindings, tables, numbered>>
  <2>1. msg' = [msg EXCEPT ![m].at = "refused"]
    BY <1>5 DEF Routing!Goes
  <2>2. /\ msg'[m].at = "refused" /\ msg'[m].session = msg[m].session
        /\ msg'[m].late = msg[m].late
    BY <1>5, <2>1, MessageGoesTo DEF MessagePlaces
  <2>3. HandlerIs(m)'
    BY <1>1, <1>2, <2>2 DEF HandlerIs
  <2> QED
    BY <1>1, <1>2, <1>5, <2>1, <2>3, GoingSteps DEF RoutesInv, RoutesShape, MessagePlaces
<1>6. ASSUME NEW a \in {"load", "ensure"}, NEW t \in 1..(numbered + 1),
             t \notin Routing!Deleted, numbered' \in {numbered, numbered + 1},
             t \in 1..numbered',
             msg' = [msg EXCEPT ![m] = [@ EXCEPT !.at = a, !.session = t,
                                                 !.late = Routing!Deleted]]
      PROVE  /\ msg' \in [Messages -> Handlers'] /\ HandlerIs(m)'
             /\ \A n \in Messages \ {m} : msg'[n] = msg[n]
             /\ msg'[m].at = a /\ msg'[m].kind = "text" /\ msg'[m].session = t
  <2>1. msg'[m] = [msg[m] EXCEPT !.at = a, !.session = t, !.late = Routing!Deleted]
    BY <1>2, <1>6
  <2>2. /\ msg'[m].at = a /\ msg'[m].kind = "text" /\ msg'[m].session = t
        /\ msg'[m].late = Routing!Deleted
    BY <1>1, <1>2, <2>1 DEF Handlers
  <2>3. /\ 1..numbered \subseteq 1..numbered' /\ 0..numbered \subseteq 0..numbered'
        /\ t \in 0..numbered'
    BY <1>4, <1>6
  <2>4. msg'[m] \in Handlers'
    <3>1. Routing!Deleted \subseteq 1..numbered'
      BY <1>4, <2>3
    <3> QED
      BY <1>2, <2>1, <2>3, <3>1 DEF Handlers, MessagePlaces
  <2>5. Handlers \subseteq Handlers'
    BY <2>3 DEF Handlers
  <2>6. \A n \in Messages \ {m} : msg'[n] = msg[n]
    BY <1>2, <1>6
  <2>7. msg' \in [Messages -> Handlers']
    BY <1>2, <1>6, <2>4, <2>5, <2>6
  <2>8. t # 0
    BY <1>4, <1>6
  <2> QED
    BY <1>1, <1>2, <1>6, <2>2, <2>6, <2>7, <2>8 DEF HandlerIs
<1>7. CASE /\ k \notin Routing!FencedKeys /\ s # 0
           /\ msg' = [msg EXCEPT ![m] = [@ EXCEPT !.at = "load", !.session = s,
                                                  !.late = Routing!Deleted]]
           /\ UNCHANGED <<bindings, tables, numbered>>
  <2>1. s \in 1..numbered' /\ s \in 1..(numbered + 1)
    BY <1>3, <1>4, <1>7
  <2>2. /\ msg' \in [Messages -> Handlers'] /\ HandlerIs(m)'
        /\ \A n \in Messages \ {m} : msg'[n] = msg[n]
        /\ msg'[m].at = "load" /\ msg'[m].kind = "text" /\ msg'[m].session = s
    <3> HIDE DEF s
    <3> QED
      BY <1>3, <1>6, <1>7, <2>1
  <2>3. RoutesShape'
    BY <1>1, <1>7, <2>2 DEF RoutesInv, RoutesShape, DeletionRecords
  <2> QED
    BY <1>1, <1>2, <1>7, <2>2, <2>3, MessageSteps
<1>8. CASE /\ k \notin Routing!FencedKeys /\ numbered < MaxSessions
           /\ numbered' = numbered + 1 /\ bindings' = [bindings EXCEPT ![k] = numbered + 1]
           /\ tables' = [tables EXCEPT !.gateway = @ \cup {numbered + 1}]
           /\ msg' = [msg EXCEPT ![m] = [@ EXCEPT !.at = "ensure", !.session = numbered + 1,
                                                  !.late = Routing!Deleted]]
  <2>1. numbered + 1 \in 1..numbered' /\ numbered + 1 \notin Routing!Deleted
    BY <1>4, <1>8
  <2>2. /\ msg' \in [Messages -> Handlers'] /\ HandlerIs(m)'
        /\ \A n \in Messages \ {m} : msg'[n] = msg[n]
        /\ msg'[m].at = "ensure" /\ msg'[m].kind = "text" /\ msg'[m].session = numbered + 1
    BY <1>6, <1>8, <2>1
  <2>3. switches' \in [steering : SUBSET (1..MaxSessions), suspended : SUBSET (1..MaxSessions)]
    BY <1>1 DEF RoutesInv, RoutesShape
  <2>4. RoutesShape'
    BY <1>1, <1>8, <2>2, <2>3, FreshShape
  <2> QED
    BY <1>1, <1>2, <1>8, <2>2, <2>4, FreshSteps
<1> QED
  BY <1>1, <1>5, <1>7, <1>8

\* Its row in the gateway is written.
LEMMA AfterLoaded ==
    ASSUME Routing!RoutingAssumption, RoutesInv, NEW m \in Messages, Routing!Loaded(m)
    PROVE  RoutesInv'
<1>1. /\ msg[m].at = "load" /\ tables' = [tables EXCEPT !.gateway = @ \cup {msg[m].session}]
      /\ msg' = [msg EXCEPT ![m].at = "ensure"]
      /\ UNCHANGED <<bindings, numbered, switches, jobs, del, refusals>>
  BY DEF Routing!Loaded, Routing!Goes
<1>2. /\ msg' \in [Messages -> Handlers']
      /\ \A n \in Messages \ {m} : msg'[n] = msg[n]
      /\ msg'[m].at = "ensure" /\ msg'[m].kind = msg[m].kind
      /\ msg'[m].session = msg[m].session
      /\ msg'[m].row = msg[m].row /\ msg'[m].late = msg[m].late
  BY <1>1, MessageGoesTo DEF MessagePlaces
<1>3. HandlerIs(m) /\ msg[m].session \in 0..numbered /\ numbered \in Nat
  BY DEF RoutesInv, RoutesShape, Handlers
<1>4. msg[m].kind = "text" /\ msg[m].session \in 1..numbered /\ jobs[m] = "none"
  BY <1>1, <1>3 DEF HandlerIs
<1>5. HandlerIs(m)'
  BY <1>1, <1>2, <1>3, <1>4 DEF HandlerIs
<1>6. /\ tables' \in [gateway : SUBSET (1..numbered), agent : SUBSET (1..numbered)]
      /\ tables'.gateway = tables.gateway \cup {msg[m].session}
      /\ tables'.agent = tables.agent
  BY <1>1, <1>4 DEF RoutesInv, RoutesShape
<1>7. RoutesShape'
  BY <1>1, <1>2, <1>6 DEF RoutesInv, RoutesShape, DeletionRecords
<1> QED
  BY <1>1, <1>2, <1>4, <1>5, <1>6, <1>7, MessageSteps

\* Its row in the agent is written.
LEMMA AfterEnsured ==
    ASSUME Routing!RoutingAssumption, RoutesInv, NEW m \in Messages, Routing!Ensured(m)
    PROVE  RoutesInv'
<1> DEFINE s == msg[m].session
<1>1. /\ msg[m].at = "ensure" /\ tables' = [tables EXCEPT !.agent = @ \cup {s}]
      /\ msg' = [msg EXCEPT ![m].at = "check", ![m].row = s \in tables.gateway]
      /\ UNCHANGED <<bindings, numbered, switches, jobs, del, refusals>>
  BY DEF Routing!Ensured
<1>2. (s \in tables.gateway) \in BOOLEAN
  OBVIOUS
<1>3. PICK b \in BOOLEAN : b = (s \in tables.gateway)
  BY <1>2, Zenon
<1>4. /\ msg \in [Messages -> Handlers] /\ msg[m] \in Handlers /\ Handlers' = Handlers
      /\ HandlerIs(m) /\ s \in 0..numbered /\ numbered \in Nat
  BY <1>1 DEF RoutesInv, RoutesShape, Handlers
<1>5. msg[m].kind = "text" /\ s \in 1..numbered /\ jobs[m] = "none"
  BY <1>1, <1>4 DEF HandlerIs
<1>6. msg' = [msg EXCEPT ![m].at = "check", ![m].row = b]
  BY <1>1, <1>3
<1>7. msg'[m] = [msg[m] EXCEPT !.at = "check", !.row = b]
  BY <1>4, <1>6
<1>8. /\ msg'[m].at = "check" /\ msg'[m].kind = "text" /\ msg'[m].session = s
      /\ msg'[m].late = msg[m].late
  BY <1>4, <1>5, <1>7 DEF Handlers
<1>9. msg'[m] \in Handlers
  BY <1>4, <1>7 DEF Handlers, MessagePlaces
<1>10. /\ msg' \in [Messages -> Handlers']
       /\ \A n \in Messages \ {m} : msg'[n] = msg[n]
  BY <1>4, <1>6, <1>9
<1>11. HandlerIs(m)'
  BY <1>1, <1>4, <1>5, <1>8 DEF HandlerIs
<1>12. /\ tables' \in [gateway : SUBSET (1..numbered), agent : SUBSET (1..numbered)]
       /\ tables'.agent = tables.agent \cup {s} /\ tables'.gateway = tables.gateway
  BY <1>1, <1>5 DEF RoutesInv, RoutesShape
<1>13. RoutesShape'
  BY <1>1, <1>10, <1>12 DEF RoutesInv, RoutesShape, DeletionRecords
<1> QED
  BY <1>1, <1>5, <1>8, <1>10, <1>11, <1>12, <1>13, MessageSteps

\* A call of the agent fails.
LEMMA AfterAgentFails ==
    ASSUME Routing!RoutingAssumption, RoutesInv, NEW m \in Messages, Routing!AgentFails(m)
    PROVE  RoutesInv'
<1>1. /\ msg[m].at \in {"load", "ensure", "check", "lookup", "ensureNext", "steer", "stop"}
      /\ refusals < MaxRefusals /\ refusals' = refusals + 1
      /\ msg' = [msg EXCEPT ![m].at = "refused"]
      /\ UNCHANGED <<bindings, tables, numbered, switches, jobs, del>>
  BY DEF Routing!AgentFails, Routing!Goes, Routing!Fail
<1>2. /\ msg'[m].at = "refused" /\ msg'[m].session = msg[m].session
      /\ msg'[m].late = msg[m].late
  BY <1>1, MessageGoesTo DEF MessagePlaces
<1>3. HandlerIs(m) /\ jobs[m] = "none"
  BY <1>1 DEF RoutesInv, RoutesShape, JobPlaces, HandlerIs
<1>4. HandlerIs(m)'
  BY <1>1, <1>2, <1>3 DEF HandlerIs
<1>5. refusals' \in 0..MaxRefusals
  BY <1>1 DEF RoutesInv, RoutesShape, Routing!RoutingAssumption
<1> QED
  BY <1>1, <1>3, <1>4, <1>5, GoingSteps DEF RoutesInv, RoutesShape, MessagePlaces

\* A text is queued, steers, or is refused by the fence of its session.
LEMMA QueuingSteps ==
    ASSUME Routing!RoutingAssumption, RoutesInv, NEW m \in Messages,
           msg[m].at \in {"check", "steer"},
           \/ Routing!Enqueue(m)
           \/ Routing!Goes(m, "routed") /\ jobs' = [jobs EXCEPT ![m] = "steered"],
           UNCHANGED <<bindings, tables, numbered, del, refusals>>,
           switches' \in [steering : SUBSET (1..MaxSessions), suspended : SUBSET (1..MaxSessions)]
    PROVE  RoutesInv'
<1>1. HandlerIs(m) /\ msg[m].kind = "text" /\ msg[m].session # 0 /\ jobs[m] = "none"
  BY DEF RoutesInv, HandlerIs
<1>2. CASE Routing!Goes(m, "refused") /\ UNCHANGED jobs
  <2>1. msg' = [msg EXCEPT ![m].at = "refused"]
    BY <1>2 DEF Routing!Goes
  <2>2. /\ msg'[m].at = "refused" /\ msg'[m].session = msg[m].session
        /\ msg'[m].late = msg[m].late
    BY <2>1, MessageGoesTo DEF MessagePlaces
  <2>3. HandlerIs(m)'
    BY <1>1, <1>2, <2>2 DEF HandlerIs
  <2> QED
    BY <1>1, <1>2, <2>1, <2>3, GoingSteps DEF RoutesInv, RoutesShape, MessagePlaces
<1>3. ASSUME NEW j \in {"queued", "steered"}, Routing!Goes(m, "routed"),
             jobs' = [jobs EXCEPT ![m] = j],
             j = "queued" => msg[m].session \notin Routing!FencedSessions
      PROVE  RoutesInv'
  <2>1. msg' = [msg EXCEPT ![m].at = "routed"]
    BY <1>3 DEF Routing!Goes
  <2>2. /\ msg' \in [Messages -> Handlers']
        /\ \A n \in Messages \ {m} : msg'[n] = msg[n]
        /\ msg'[m].at = "routed" /\ msg'[m].kind = msg[m].kind
        /\ msg'[m].session = msg[m].session /\ msg'[m].late = msg[m].late
    BY <2>1, MessageGoesTo DEF MessagePlaces
  <2>3. HandlerIs(m)'
    BY <1>1, <2>2 DEF HandlerIs
  <2>4. /\ jobs' \in [Messages -> JobPlaces] /\ jobs'[m] = j
        /\ \A n \in Messages \ {m} : jobs'[n] = jobs[n]
    BY <1>3 DEF RoutesInv, RoutesShape, JobPlaces
  <2>5. RoutesShape'
    BY <2>2, <2>4 DEF RoutesInv, RoutesShape, DeletionRecords
  <2> QED
    BY <1>1, <1>3, <2>2, <2>3, <2>4, <2>5, MessageSteps
<1> QED
  BY <1>2, <1>3 DEF Routing!Enqueue

\* A text is admitted.
LEMMA AfterAdmission ==
    ASSUME Routing!RoutingAssumption, RoutesInv, NEW m \in Messages, Routing!Admit(m)
    PROVE  RoutesInv'
<1> DEFINE s == msg[m].session
<1>1. /\ msg[m].at = "check"
      /\ IF ~Routing!Found(m) THEN Routing!Goes(m, "refused") /\ UNCHANGED <<switches, jobs>>
         ELSE /\ switches' = [switches EXCEPT !.suspended = @ \ {s}]
              /\ IF s \in switches.steering /\ Routing!Active(s)
                 THEN Routing!Goes(m, "steer") /\ UNCHANGED jobs
                 ELSE Routing!Enqueue(m)
      /\ UNCHANGED <<bindings, tables, numbered, del, refusals>>
  BY DEF Routing!Admit
<1>2. switches' \in [steering : SUBSET (1..MaxSessions), suspended : SUBSET (1..MaxSessions)]
  <2> HIDE DEF s
  <2>1. switches' = switches \/ switches' = [switches EXCEPT !.suspended = @ \ {s}]
    BY <1>1
  <2> QED
    BY <2>1 DEF RoutesInv, RoutesShape
<1>3. HandlerIs(m) /\ msg[m].kind = "text" /\ msg[m].session # 0 /\ jobs[m] = "none"
  BY <1>1 DEF RoutesInv, HandlerIs
<1>4. ASSUME NEW a \in {"refused", "steer"}, Routing!Goes(m, a), UNCHANGED jobs
      PROVE  RoutesInv'
  <2>1. msg' = [msg EXCEPT ![m].at = a]
    BY <1>4 DEF Routing!Goes
  <2>2. /\ msg'[m].at = a /\ msg'[m].session = msg[m].session
        /\ msg'[m].kind = msg[m].kind /\ msg'[m].late = msg[m].late
    BY <1>1, <2>1, MessageGoesTo DEF MessagePlaces
  <2>3. HandlerIs(m)'
    BY <1>3, <1>4, <2>2 DEF HandlerIs
  <2> QED
    BY <1>1, <1>2, <1>3, <1>4, <2>1, <2>3, GoingSteps DEF RoutesInv, RoutesShape, MessagePlaces
<1> QED
  BY <1>1, <1>2, <1>4, QueuingSteps

\* A text has steered, or is queued.
LEMMA AfterSteered ==
    ASSUME Routing!RoutingAssumption, RoutesInv, NEW m \in Messages, Routing!Steered(m)
    PROVE  RoutesInv'
<1>1. /\ msg[m].at = "steer"
      /\ \/ Routing!Goes(m, "routed") /\ jobs' = [jobs EXCEPT ![m] = "steered"]
         \/ Routing!Enqueue(m)
      /\ UNCHANGED <<bindings, tables, numbered, switches, del, refusals>>
  BY DEF Routing!Steered
<1> QED
  BY <1>1, QueuingSteps DEF RoutesInv, RoutesShape

\* A command arrives.
LEMMA AfterReceiveCommand ==
    ASSUME Routing!RoutingAssumption, RoutesInv, NEW m \in Messages, Routing!ReceiveCommand(m)
    PROVE  RoutesInv'
<1> DEFINE s == bindings[KeyOf[m]]
<1>1. /\ msg[m].at = "sent" /\ msg[m].kind # "text" /\ s # 0
      /\ msg' = [msg EXCEPT ![m] = [@ EXCEPT !.at = "lookup", !.session = s,
                                             !.late = Routing!Deleted,
                                             !.row = s \in tables.gateway]]
      /\ UNCHANGED <<bindings, tables, numbered, switches, jobs, del, refusals>>
  BY DEF Routing!ReceiveCommand, Routing!None
<1>2. /\ msg \in [Messages -> Handlers] /\ msg[m] \in Handlers /\ Handlers' = Handlers
      /\ KeyOf[m] \in Routing!Keys /\ HandlerIs(m) /\ jobs[m] = "none"
  BY <1>1 DEF RoutesInv, RoutesShape, HandlerIs, Routing!Keys, Handlers
<1>3. /\ s \in 0..numbered /\ s \notin Routing!Deleted /\ s \in tables.gateway
      /\ Routing!Deleted \subseteq 1..numbered
  BY <1>1, <1>2, DeletedAreMade DEF RoutesInv, RoutesShape, Routing!BindingsLead, Routing!None
<1>4. (s \in tables.gateway) = TRUE
  BY <1>3
<1>5. msg' = [msg EXCEPT ![m] = [@ EXCEPT !.at = "lookup", !.session = s,
                                          !.late = Routing!Deleted, !.row = TRUE]]
  BY <1>1, <1>4
<1>6. msg'[m] = [msg[m] EXCEPT !.at = "lookup", !.session = s, !.late = Routing!Deleted,
                               !.row = TRUE]
  BY <1>2, <1>5
<1>7. /\ msg'[m].at = "lookup" /\ msg'[m].kind = msg[m].kind /\ msg'[m].session = s
      /\ msg'[m].late = Routing!Deleted /\ msg'[m].row
  BY <1>2, <1>6 DEF Handlers
<1>8. msg'[m] \in Handlers
  BY <1>2, <1>3, <1>6 DEF Handlers, MessagePlaces
<1>9. /\ msg' \in [Messages -> Handlers']
      /\ \A n \in Messages \ {m} : msg'[n] = msg[n]
  BY <1>2, <1>5, <1>8
<1>10. HandlerIs(m)'
  BY <1>1, <1>2, <1>3, <1>7 DEF HandlerIs
<1>11. RoutesShape'
  BY <1>1, <1>9 DEF RoutesInv, RoutesShape, DeletionRecords
<1> QED
  BY <1>1, <1>2, <1>7, <1>9, <1>10, <1>11, MessageSteps

\* The session a command is about is the one that was looked up.
LEMMA LookedUpIs ==
    ASSUME Routing!RoutingAssumption, RoutesInv, NEW m \in Messages, Routing!LookedUp(m) # 0
    PROVE  /\ msg[m].at = "lookup" /\ Routing!LookedUp(m) = msg[m].session
           /\ msg[m].session \in 1..MaxSessions
<1>1. msg[m].at = "lookup" /\ Routing!LookedUp(m) = msg[m].session
  BY DEF Routing!LookedUp, Routing!None
<1>2. /\ msg[m].session \in 0..numbered /\ numbered \in 1..MaxSessions
      /\ MaxSessions \in Nat
  BY DEF RoutesInv, RoutesShape, Handlers, Routing!RoutingAssumption
<1> QED
  BY <1>1, <1>2

\* A /stop clears what is queued and goes to the agent.
LEMMA AfterStop ==
    ASSUME Routing!RoutingAssumption, RoutesInv, NEW m \in Messages, Routing!Stop(m)
    PROVE  RoutesInv'
<1> DEFINE s == Routing!LookedUp(m)
           mine == {o \in Messages : msg[o].session = s /\ jobs[o] \in {"queued"}}
<1>1. /\ msg[m].kind = "stop" /\ msg[m].at \in {"sent", "lookup"}
      /\ IF s = 0 THEN Routing!Goes(m, "routed") /\ UNCHANGED jobs
         ELSE /\ jobs' = [o \in Messages |-> IF o \in mine THEN "cleared" ELSE jobs[o]]
              /\ Routing!Goes(m, "stop")
      /\ UNCHANGED <<bindings, tables, numbered, switches, del, refusals>>
  BY DEF Routing!Stop, Routing!Commands, Routing!None
<1>2. HandlerIs(m) /\ jobs[m] = "none"
  BY <1>1 DEF RoutesInv, RoutesShape, JobPlaces, HandlerIs
<1>3. CASE s = 0
  <2>1. msg' = [msg EXCEPT ![m].at = "routed"]
    BY <1>1, <1>3 DEF Routing!Goes
  <2>2. /\ msg'[m].at = "routed" /\ msg'[m].session = msg[m].session
        /\ msg'[m].late = msg[m].late
    BY <1>1, <2>1, MessageGoesTo DEF MessagePlaces
  <2>3. HandlerIs(m)'
    BY <1>1, <1>2, <1>3, <2>2 DEF HandlerIs
  <2> QED
    BY <1>1, <1>2, <1>3, <2>1, <2>3, GoingSteps DEF RoutesInv, RoutesShape, MessagePlaces
<1>4. CASE s # 0
  <2>1. msg' = [msg EXCEPT ![m].at = "stop"]
    BY <1>1, <1>4 DEF Routing!Goes
  <2>2. /\ msg' \in [Messages -> Handlers']
        /\ \A n \in Messages \ {m} : msg'[n] = msg[n]
        /\ msg'[m].at = "stop" /\ msg'[m].kind = msg[m].kind
        /\ msg'[m].session = msg[m].session /\ msg'[m].late = msg[m].late
    BY <1>1, <2>1, MessageGoesTo DEF MessagePlaces
  <2>3. msg[m].at = "lookup"
    BY <1>4, LookedUpIs
  <2>4. /\ jobs' \in [Messages -> JobPlaces]
        /\ \A n \in Messages :
              jobs'[n] = jobs[n] \/ (jobs[n] = "queued" /\ jobs'[n] = "cleared")
        /\ jobs'[m] = "none"
    <3>1. jobs' = [o \in Messages |-> IF o \in mine THEN "cleared" ELSE jobs[o]]
      BY <1>1, <1>4
    <3>2. jobs \in [Messages -> JobPlaces]
      BY DEF RoutesInv, RoutesShape
    <3> QED
      BY <1>2, <3>1, <3>2 DEF JobPlaces
  <2>5. HandlerIs(m)'
    BY <1>1, <1>2, <2>2, <2>3, <2>4 DEF HandlerIs
  <2>6. RoutesShape'
    BY <1>1, <2>2, <2>4 DEF RoutesInv, RoutesShape, DeletionRecords
  <2> QED
    BY <1>1, <1>2, <2>2, <2>3, <2>4, <2>5, <2>6, MessageSteps
<1> QED
  BY <1>3, <1>4

\* The agent has acknowledged the stop.
LEMMA AfterStopIsAnswered ==
    ASSUME Routing!RoutingAssumption, RoutesInv, NEW m \in Messages, Routing!Stopped(m)
    PROVE  RoutesInv'
<1>1. /\ msg[m].at = "stop" /\ msg' = [msg EXCEPT ![m].at = "routed"]
      /\ switches' = [switches EXCEPT !.suspended = @ \cup {msg[m].session}]
      /\ UNCHANGED <<bindings, tables, numbered, jobs, del, refusals>>
  BY DEF Routing!Stopped, Routing!Goes
<1>2. /\ msg'[m].at = "routed" /\ msg'[m].session = msg[m].session
      /\ msg'[m].late = msg[m].late
  BY <1>1, MessageGoesTo DEF MessagePlaces
<1>3. HandlerIs(m) /\ jobs[m] = "none"
  BY <1>1 DEF RoutesInv, RoutesShape, JobPlaces, HandlerIs
<1>4. HandlerIs(m)'
  BY <1>1, <1>2, <1>3 DEF HandlerIs
<1>5. switches' \in [steering : SUBSET (1..MaxSessions), suspended : SUBSET (1..MaxSessions)]
  <2>1. /\ msg[m].session \in 0..numbered /\ numbered \in 1..MaxSessions
        /\ msg[m].session # 0 /\ MaxSessions \in Nat
    BY <1>1, <1>3 DEF RoutesInv, RoutesShape, Handlers, HandlerIs, Routing!RoutingAssumption
  <2>2. msg[m].session \in 1..MaxSessions
    BY <2>1
  <2> QED
    BY <1>1, <2>2 DEF RoutesInv, RoutesShape
<1> QED
  BY <1>1, <1>3, <1>4, <1>5, GoingSteps DEF RoutesInv, RoutesShape, MessagePlaces

\* Steering is switched.
LEMMA AfterToggleSteering ==
    ASSUME Routing!RoutingAssumption, RoutesInv, NEW m \in Messages, Routing!ToggleSteering(m)
    PROVE  RoutesInv'
<1> DEFINE s == Routing!LookedUp(m)
<1>1. /\ msg[m].kind = "steer" /\ msg[m].at \in {"sent", "lookup"}
      /\ msg' = [msg EXCEPT ![m].at = "routed"]
      /\ \/ switches' = switches
         \/ s # 0 /\ switches' = [switches EXCEPT !.steering = @ \ {s}]
         \/ s # 0 /\ switches' = [switches EXCEPT !.steering = @ \cup {s}]
      /\ UNCHANGED <<bindings, tables, numbered, jobs, del, refusals>>
  BY DEF Routing!ToggleSteering, Routing!Commands, Routing!Goes, Routing!None
<1>2. /\ msg'[m].at = "routed" /\ msg'[m].session = msg[m].session
      /\ msg'[m].late = msg[m].late
  BY <1>1, MessageGoesTo DEF MessagePlaces
<1>3. HandlerIs(m) /\ jobs[m] = "none"
  BY <1>1 DEF RoutesInv, RoutesShape, JobPlaces, HandlerIs
<1>4. HandlerIs(m)'
  BY <1>1, <1>2, <1>3 DEF HandlerIs
<1>5. s # 0 => s \in 1..MaxSessions
  BY LookedUpIs
<1>6. switches' \in [steering : SUBSET (1..MaxSessions), suspended : SUBSET (1..MaxSessions)]
  <2> HIDE DEF s
  <2> QED
    BY <1>1, <1>5 DEF RoutesInv, RoutesShape
<1> QED
  BY <1>1, <1>3, <1>4, <1>6, GoingSteps DEF RoutesInv, RoutesShape, MessagePlaces

\* A /clear is refused, or binds its key to a session it makes.
LEMMA AfterClear ==
    ASSUME Routing!RoutingAssumption, RoutesInv, NEW m \in Messages, Routing!Clear(m)
    PROVE  RoutesInv'
<1> DEFINE s == Routing!LookedUp(m)
<1>1. /\ msg[m].kind = "clear" /\ msg[m].at \in {"sent", "lookup"}
      /\ \/ Routing!Goes(m, "routed") /\ UNCHANGED <<bindings, tables, numbered, switches>>
         \/ /\ numbered < MaxSessions /\ numbered' = numbered + 1
            /\ switches' = [switches EXCEPT !.suspended = @ \ {s}]
            /\ bindings' = [bindings EXCEPT ![KeyOf[m]] = numbered + 1]
            /\ tables' = [tables EXCEPT !.gateway = @ \cup {numbered + 1}]
            /\ msg' = [msg EXCEPT ![m].at = "ensureNext", ![m].session = numbered + 1]
      /\ UNCHANGED <<jobs, del, refusals>>
  BY DEF Routing!Clear, Routing!Commands, Routing!None
<1>2. /\ HandlerIs(m) /\ jobs[m] = "none" /\ msg \in [Messages -> Handlers]
      /\ msg[m] \in Handlers
  BY <1>1 DEF RoutesInv, RoutesShape, JobPlaces, HandlerIs
<1>3. CASE Routing!Goes(m, "routed") /\ UNCHANGED <<bindings, tables, numbered, switches>>
  <2>1. msg' = [msg EXCEPT ![m].at = "routed"]
    BY <1>3 DEF Routing!Goes
  <2>2. /\ msg'[m].at = "routed" /\ msg'[m].session = msg[m].session
        /\ msg'[m].late = msg[m].late
    BY <1>3, <2>1, MessageGoesTo DEF MessagePlaces
  <2>3. HandlerIs(m)'
    BY <1>1, <1>2, <2>2 DEF HandlerIs
  <2> QED
    BY <1>1, <1>2, <1>3, <2>1, <2>3, GoingSteps DEF RoutesInv, RoutesShape, MessagePlaces
<1>4. CASE /\ numbered < MaxSessions /\ numbered' = numbered + 1
           /\ switches' = [switches EXCEPT !.suspended = @ \ {s}]
           /\ bindings' = [bindings EXCEPT ![KeyOf[m]] = numbered + 1]
           /\ tables' = [tables EXCEPT !.gateway = @ \cup {numbered + 1}]
           /\ msg' = [msg EXCEPT ![m].at = "ensureNext", ![m].session = numbered + 1]
  <2>1. msg'[m] = [msg[m] EXCEPT !.at = "ensureNext", !.session = numbered + 1]
    BY <1>2, <1>4
  <2>2. /\ msg'[m].at = "ensureNext" /\ msg'[m].kind = msg[m].kind
        /\ msg'[m].session = numbered + 1 /\ msg'[m].late = msg[m].late
    BY <1>2, <2>1 DEF Handlers
  <2>3. /\ numbered \in Nat /\ numbered + 1 \notin 1..numbered /\ numbered + 1 # 0
        /\ 1..numbered \subseteq 1..numbered' /\ 0..numbered \subseteq 0..numbered'
        /\ numbered + 1 \in 0..numbered'
    BY <1>4, DeletedAreMade
  <2>4. msg'[m] \in Handlers'
    BY <1>2, <2>1, <2>3 DEF Handlers, MessagePlaces
  <2>5. Handlers \subseteq Handlers'
    BY <2>3 DEF Handlers
  <2>6. \A n \in Messages \ {m} : msg'[n] = msg[n]
    BY <1>2, <1>4
  <2>7. msg' \in [Messages -> Handlers']
    BY <1>2, <1>4, <2>4, <2>5, <2>6
  <2>8. msg[m].late \subseteq 1..numbered
    BY <1>2 DEF Handlers
  <2>9. HandlerIs(m)'
    BY <1>1, <1>2, <2>2, <2>3, <2>8 DEF HandlerIs
  <2>10. switches' \in [steering : SUBSET (1..MaxSessions), suspended : SUBSET (1..MaxSessions)]
    <3> HIDE DEF s
    <3> QED
      BY <1>4 DEF RoutesInv, RoutesShape
  <2>11. RoutesShape'
    BY <1>1, <1>4, <2>7, <2>10, FreshShape
  <2> QED
    BY <1>1, <1>2, <1>4, <2>2, <2>6, <2>9, <2>11, FreshSteps
<1> QED
  BY <1>1, <1>3, <1>4

\* The agent has the session the key was bound to.
LEMMA AfterCleared ==
    ASSUME Routing!RoutingAssumption, RoutesInv, NEW m \in Messages, Routing!Cleared(m)
    PROVE  RoutesInv'
<1> DEFINE s == msg[m].session
<1>1. /\ msg[m].at = "ensureNext" /\ tables' = [tables EXCEPT !.agent = @ \cup {s}]
      /\ msg' = [msg EXCEPT ![m].at = "routed"]
      /\ UNCHANGED <<bindings, numbered, switches, jobs, del, refusals>>
  BY DEF Routing!Cleared, Routing!Goes
<1>2. /\ msg' \in [Messages -> Handlers']
      /\ \A n \in Messages \ {m} : msg'[n] = msg[n]
      /\ msg'[m].at = "routed" /\ msg'[m].kind = msg[m].kind
      /\ msg'[m].session = s /\ msg'[m].late = msg[m].late
  BY <1>1, MessageGoesTo DEF MessagePlaces
<1>3. HandlerIs(m) /\ s \in 0..numbered /\ numbered \in Nat
  BY DEF RoutesInv, RoutesShape, Handlers
<1>4. msg[m].kind # "text" /\ s \in 1..numbered /\ jobs[m] = "none"
  BY <1>1, <1>3 DEF HandlerIs
<1>5. HandlerIs(m)'
  BY <1>1, <1>2, <1>3, <1>4 DEF HandlerIs
<1>6. /\ tables' \in [gateway : SUBSET (1..numbered), agent : SUBSET (1..numbered)]
      /\ tables'.agent = tables.agent \cup {s} /\ tables'.gateway = tables.gateway
  BY <1>1, <1>4 DEF RoutesInv, RoutesShape
<1>7. RoutesShape'
  BY <1>1, <1>2, <1>6 DEF RoutesInv, RoutesShape, DeletionRecords
<1> QED
  BY <1>1, <1>2, <1>4, <1>5, <1>6, <1>7, MessageSteps

\* A run starts, or ends.
LEMMA AfterRuns ==
    ASSUME Routing!RoutingAssumption, RoutesInv, NEW m \in Messages,
           Routing!RunStarts(m) \/ Routing!RunEnds(m)
    PROVE  RoutesInv'
<1>1. PICK j \in {"running", "done"} :
         /\ jobs[m] \in {"queued", "running"} /\ jobs' = [jobs EXCEPT ![m] = j]
         /\ UNCHANGED <<bindings, tables, numbered, switches, msg, del, refusals>>
  BY DEF Routing!RunStarts, Routing!RunEnds
<1>2. HandlerIs(m) /\ msg[m].at = "routed" /\ msg[m].kind = "text"
  BY <1>1 DEF RoutesInv, HandlerIs
<1>3. /\ jobs' \in [Messages -> JobPlaces] /\ jobs'[m] = j
      /\ \A n \in Messages \ {m} : jobs'[n] = jobs[n]
  BY <1>1 DEF RoutesInv, RoutesShape, JobPlaces
<1>4. HandlerIs(m)'
  BY <1>1, <1>2 DEF HandlerIs
<1>5. RoutesShape'
  BY <1>1, <1>3 DEF RoutesInv, RoutesShape, DeletionRecords, Handlers
<1> QED
  BY <1>1, <1>2, <1>3, <1>4, <1>5, MessageSteps

\* A /clear that takes its key from a session with work had looked up another session.
LEMMA ClearsLookAround ==
    ASSUME RoutesInv, NEW m \in Messages, Routing!Clear(m), NEW k \in Routing!Keys,
           bindings[k] # 0, bindings'[k] # bindings[k], Routing!Busy(bindings[k])
    PROVE  /\ msg[m].at = "lookup" /\ msg[m].session # bindings[k]
           /\ msg'[m].at = "ensureNext"
<1> DEFINE s == Routing!LookedUp(m)
<1>1. /\ msg[m].kind = "clear" /\ msg[m].at \in {"sent", "lookup"}
      /\ msg[m].at = "sent" => bindings[KeyOf[m]] = 0
      /\ ~(s # 0 /\ Routing!Busy(s))
      /\ bindings' = [bindings EXCEPT ![KeyOf[m]] = numbered + 1]
      /\ msg' = [msg EXCEPT ![m].at = "ensureNext", ![m].session = numbered + 1]
  BY DEF Routing!Clear, Routing!Commands, Routing!None
<1>2. k = KeyOf[m]
  BY <1>1 DEF RoutesInv, RoutesShape
<1>3. msg[m].at = "lookup" /\ msg[m].row
  BY <1>1, <1>2 DEF RoutesInv, HandlerIs
<1>4. s = msg[m].session
  BY <1>3 DEF Routing!LookedUp, Routing!Found
<1>5. msg[m].session # bindings[k]
  BY <1>1, <1>4
<1>6. msg'[m].at = "ensureNext"
  BY <1>1 DEF RoutesInv, RoutesShape, Handlers
<1> QED
  BY <1>3, <1>5, <1>6

\* Work is of texts, so a session that no text was led to has none.
LEMMA WorkIsOfTexts ==
    ASSUME RoutesInv, NEW s, Routing!Busy(s)
    PROVE  HasText(s)
<1>1. PICK m \in Messages : msg[m].session = s /\ jobs[m] \in {"queued", "running"}
  BY DEF Routing!Busy, Routing!InSession
<1>2. msg[m].kind = "text"
  BY <1>1 DEF RoutesInv, HandlerIs
<1> QED
  BY <1>1, <1>2 DEF HasText

\* A step keeps what routing rests on.
LEMMA NextRoutes ==
    ASSUME Routing!RoutingAssumption, RoutesInv, [Routing!Next]_(Routing!vars)
    PROVE  RoutesInv'
<1>1. CASE UNCHANGED Routing!vars
  <2>1. UNCHANGED <<bindings, tables, numbered, switches, jobs, msg, del, refusals>>
    BY <1>1 DEF Routing!vars
  <2> QED
    BY <2>1
       DEF RoutesInv, RoutesShape, Handlers, DeletionRecords, HandlerIs, MakesAlone, DeletionIs,
           HasText, IsMade, Makes, Detached, ReboundAfresh, OnItsOwn, BackByText,
           Routing!Deleting, Routing!Deleted, Routing!NoDeletion, Routing!Busy,
           Routing!InSession, Routing!BindingsLead, Routing!FailuresPutBack
<1>2. ASSUME NEW m \in Messages, Routing!TextStep(m)
      PROVE  RoutesInv'
  BY <1>2, AfterReceiveText, AfterLoaded, AfterEnsured, AfterAdmission, AfterSteered
     DEF Routing!TextStep
<1>3. ASSUME NEW m \in Messages, Routing!CommandStep(m)
      PROVE  RoutesInv'
  BY <1>3, AfterReceiveCommand, AfterStop, AfterStopIsAnswered, AfterToggleSteering, AfterClear,
     AfterCleared DEF Routing!CommandStep
<1>4. ASSUME NEW d \in Deletions, Routing!DeletionStep(d)
      PROVE  RoutesInv'
  BY <1>4, AfterBegin, AfterDetach, AfterDetachFails, AfterAgentDeletes, AfterDeletionEnds,
     AfterPutBack DEF Routing!DeletionStep
<1> QED
  BY <1>1, <1>2, <1>3, <1>4, AfterAgentFails, AfterRuns DEF Routing!Next

\* And takes no key from a session that has work, but for a /clear that looked around before.
LEMMA StepsLeaveIdle ==
    ASSUME Routing!RoutingAssumption, RoutesInv, [Routing!Next]_(Routing!vars)
    PROVE  Routing!KeysLeaveIdleSessions
<1> SUFFICES ASSUME NEW k \in Routing!Keys, bindings[k] # 0, bindings'[k] # bindings[k],
                    Routing!Busy(bindings[k])
             PROVE  \E m \in Messages : /\ msg[m].at = "lookup"
                                        /\ msg[m].session # bindings[k]
                                        /\ msg'[m].at = "ensureNext"
  BY DEF Routing!KeysLeaveIdleSessions, Routing!None
<1>1. ~UNCHANGED bindings
  OBVIOUS
<1>2. /\ \A m \in Messages : ~(\/ Routing!Loaded(m) \/ Routing!Ensured(m) \/ Routing!Admit(m)
                               \/ Routing!Steered(m) \/ Routing!ReceiveCommand(m)
                               \/ Routing!Stop(m) \/ Routing!Stopped(m)
                               \/ Routing!ToggleSteering(m) \/ Routing!Cleared(m)
                               \/ Routing!AgentFails(m) \/ Routing!RunStarts(m)
                               \/ Routing!RunEnds(m))
      /\ \A d \in Deletions : ~(\/ Routing!BeginDeletion(d) \/ Routing!DetachFails(d)
                                \/ Routing!AgentDeletes(d) \/ Routing!DeletionEnds(d))
      /\ ~UNCHANGED Routing!vars
  BY <1>1
     DEF Routing!Loaded, Routing!Ensured, Routing!Admit, Routing!Steered,
         Routing!ReceiveCommand, Routing!Stop, Routing!Stopped, Routing!ToggleSteering,
         Routing!Cleared, Routing!AgentFails, Routing!RunStarts, Routing!RunEnds,
         Routing!BeginDeletion, Routing!DetachFails, Routing!AgentDeletes,
         Routing!DeletionEnds, Routing!vars
<1>3. ASSUME NEW m \in Messages, Routing!ReceiveText(m)
      PROVE  FALSE
  <2>1. \/ UNCHANGED bindings
        \/ bindings[KeyOf[m]] = 0 /\ bindings' = [bindings EXCEPT ![KeyOf[m]] = numbered']
    BY <1>3 DEF Routing!ReceiveText, Routing!None
  <2> QED
    BY <1>1, <2>1 DEF RoutesInv, RoutesShape
<1>4. ASSUME NEW d \in Deletions, Routing!Detach(d)
      PROVE  FALSE
  <2>1. /\ del[d].at = "before"
        /\ bindings' = [j \in Routing!Keys |->
                           IF j \in {i \in Routing!Keys : bindings[i] = del[d].session}
                           THEN 0 ELSE bindings[j]]
    BY <1>4 DEF Routing!Detach, Routing!None
  <2>2. bindings[k] = del[d].session
    BY <2>1
  <2> QED
    BY <2>1, <2>2 DEF RoutesInv, DeletionIs, Routing!Deleting
<1>5. ASSUME NEW d \in Deletions, Routing!PutBack(d)
      PROVE  FALSE
  <2>1. /\ del[d].at = "lost"
        /\ bindings' = [j \in Routing!Keys |-> IF j \in del[d].removed THEN del[d].session
                                               ELSE bindings[j]]
    BY <1>5 DEF Routing!PutBack
  <2>2. k \in del[d].removed
    BY <2>1
  <2>3. ~HasText(bindings[k])
    BY <2>1, <2>2 DEF RoutesInv, DeletionIs, Detached, ReboundAfresh
  <2> QED
    BY <2>3, WorkIsOfTexts
<1>6. PICK m \in Messages : Routing!Clear(m)
  BY <1>2, <1>3, <1>4, <1>5
     DEF Routing!Next, Routing!TextStep, Routing!CommandStep, Routing!DeletionStep
<1> QED
  BY <1>6, ClearsLookAround

\* SessionRouting: every binding leads to a session of the gateway's store that was not
\* deleted, a deleted session comes back only by a text that had read its binding before, a
\* deletion that failed leaves no key unbound; and no step takes a key from a session that has
\* work, but for a /clear that had looked up another one.
THEOREM RoutesLeadHome ==
    ASSUME Routing!RoutingAssumption
    PROVE  Routing!Spec => /\ []Routing!RoutingInv
                           /\ [][Routing!KeysLeaveIdleSessions]_(Routing!vars)
<1>1. Routing!Init => RoutesInv
  BY InitRoutes
<1>2. RoutesInv /\ [Routing!Next]_(Routing!vars) => RoutesInv'
  BY NextRoutes
<1>3. RoutesInv => Routing!RoutingInv
  BY RoutesLead
<1>4. RoutesInv /\ [Routing!Next]_(Routing!vars) =>
         [Routing!KeysLeaveIdleSessions]_(Routing!vars)
  BY StepsLeaveIdle
<1> QED
  BY <1>1, <1>2, <1>3, <1>4, PTL DEF Routing!Spec
=============================================================================
