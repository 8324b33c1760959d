---------------------------- MODULE Outside_proofs ----------------------------
(***************************************************************************)
(* Proofs about what the agent and its skills share with servers outside:  *)
(* McpServers, for any calls that switch one server on and off, and any    *)
(* number of attempts to connect to it; and MabangLogin, for any commands, *)
(* any of them refreshers, and any number of logins lost.                  *)
(*                                                                         *)
(* The argument about McpServers: one attempt is under way at a time, and  *)
(* it is begun only while there is no connection; so what is registered    *)
(* replaces nothing, and what is open is on record or somebody's to close. *)
(* The last word comes true because an attempt that was aborted is         *)
(* followed by another, or by nobody who wants one: whoever switched the   *)
(* server on again while it ran waits behind it, and what is left of an    *)
(* older attempt is noted before the next can fail.                        *)
(*                                                                         *)
(* The argument about MabangLogin: the lock names the one browser on its   *)
(* way, and while there is one the file is gone; a complete file is that   *)
(* of the last route; and a route of ensure_auth() is paid for by a loss,  *)
(* or by its result being there or on its way.                             *)
(***************************************************************************)
EXTENDS McpServers, TLAPS

CONSTANTS Callers, Refreshers, None, MaxLosses

VARIABLES file, complete, lock, routes, ensured, losses, caller

\* The login that the skills' commands share.
Browser == INSTANCE MabangLogin


\* The runtime starts its services once.
OneStart == \A j, k \in Calls : KindOf[j] = "start" /\ KindOf[k] = "start" => j = k

\* The attempt is under way; the caller that waited for it has still to run.
Live(a) == attempt[a].at \notin {"none", "settled"}
Unrun(k) == call[k].at \in {"joined", "chained"} /\ attempt[call[k].of].at = "settled"

\* Somebody sees to it that the server gets its connection.
Wanting(k) ==
    \/ At(k, "chained")
    \/ At(k, "joined") /\ Live(call[k].of) /\ ~attempt[call[k].of].aborted

Ends == {"none", "connecting", "resolved", "closing", "over", "rejected", "settled"}
Faults == {"none", "failed", "aborted"}

\* What is kept of an attempt and of a call.
AttemptRecs == [at : Ends, aborted : BOOLEAN, fault : Faults]
CallRecs == [at : Places, of : 0..MaxAttempts, conn : 0..MaxAttempts]

\* Every variable in its range.
Shapes ==
    /\ registry \in BOOLEAN /\ enabled \in BOOLEAN
    /\ connection \in 0..MaxAttempts /\ tools \in 0..MaxAttempts
    /\ connecting \in 0..MaxAttempts
    /\ error \in Faults
    /\ attempt \in [Attempts -> AttemptRecs]
    /\ link \in [Attempts -> {"none", "opening", "open", "late", "closed"}]
    /\ call \in [Calls -> CallRecs]

\* Nothing has begun before the runtime starts its services.
NothingBeforeStart ==
    \A k \in Calls : KindOf[k] = "start" /\ At(k, "new") =>
       /\ ~registry /\ connection = 0 /\ connecting = 0
       /\ \A j \in Calls : call[j].at \in {"new", "done"}

\* One attempt is under way, and somebody waits for it.
OneAtATime ==
    /\ \A a \in Attempts : Live(a) <=> connecting = a
    /\ \A a \in Attempts : attempt[a].at = "none" =>
          ~attempt[a].aborted /\ attempt[a].fault = "none" /\ link[a] = "none"
    /\ connecting # 0 => \E k \in Calls : At(k, "joined") /\ call[k].of = connecting

\* A connection follows the attempt that opens it.
LinksFollow ==
    \A a \in Attempts :
       /\ attempt[a].at = "connecting" => link[a] = "opening"
       /\ attempt[a].at \in {"resolved", "closing"} => link[a] = "open"
       /\ connection = a => attempt[a].at \in {"over", "settled"} /\ link[a] = "open"
       /\ \A k \in Calls : At(k, "closing") /\ call[k].conn = a =>
             a # connection /\ attempt[a].at \in {"over", "settled"}

\* The tools are those of the connection, and it is there because it is wanted, or because the
\* stop that takes it away has not come to it.
ToolsFollow ==
    /\ tools = connection
    /\ \A k \in Calls : At(k, "draining") => ~registry
    /\ connection # 0 => enabled /\ (registry \/ \E k \in Calls : At(k, "draining"))

\* What an attempt comes to.
AttemptsEnd ==
    \A a \in Attempts :
       /\ attempt[a].at \in {"connecting", "resolved"} => connection = 0
       /\ attempt[a].at = "closing" => attempt[a].aborted
       /\ attempt[a].at = "over" /\ ~attempt[a].aborted => connection = a
       /\ attempt[a].at = "rejected" /\ ~attempt[a].aborted => attempt[a].fault = "failed"
       /\ attempt[a].fault = "aborted" => attempt[a].aborted

\* An attempt nobody wants was aborted, and while it runs there is no connection; who wants
\* one again waits behind it.
GivenUp ==
    \A a \in Attempts : Live(a) =>
       /\ ~enabled \/ ~registry => attempt[a].aborted
       /\ registry /\ attempt[a].aborted => connection = 0
       /\ registry /\ enabled /\ attempt[a].aborted =>
             \E k \in Calls : At(k, "chained") /\ call[k].of = a

\* Before an attempt can come about, everybody has heard of the one before.
WaitsEnd ==
    \A k \in Calls :
       /\ At(k, "joined") \/ At(k, "chained") =>
             call[k].of \in Attempts /\ attempt[call[k].of].at # "none"
       /\ At(k, "chained") => attempt[call[k].of].aborted
       /\ \A a \in Attempts : Unrun(k) /\ Live(a) =>
             \/ attempt[a].at = "connecting"
             \/ attempt[a].at = "rejected" /\ attempt[a].aborted
       /\ At(k, "chained") /\ Unrun(k) /\ registry => connection = 0

\* A server that is on has its connection, or will be tried, or has failed to get it; and that
\* somebody had switched it off is not the last that is noted.
WordsCount ==
    registry /\ enabled =>
       /\ \/ connection # 0 \/ error = "failed"
          \/ \E k \in Calls : Wanting(k)
          \/ \E k \in Calls : At(k, "joined") /\ Unrun(k) /\ attempt[call[k].of].fault = "failed"
       /\ \A k \in Calls :
             At(k, "joined") /\ Unrun(k) /\ attempt[call[k].of].fault = "aborted" =>
                connection # 0 \/ \E j \in Calls : Wanting(j)

\* The inductive invariant.
ConnectedInv ==
    /\ Shapes /\ NothingBeforeStart /\ OneAtATime /\ LinksFollow /\ ToolsFollow
    /\ NothingIsLeftOpen /\ AttemptsEnd /\ GivenUp /\ WaitsEnd /\ WordsCount

-----------------------------------------------------------------------------
\* A call that moves changes its place, and may wait for something else.
LEMMA CallMoves ==
    ASSUME NEW f \in [Calls -> CallRecs], NEW k \in Calls, NEW p \in Places
    PROVE  LET g == [f EXCEPT ![k].at = p] IN
           /\ g \in [Calls -> CallRecs]
           /\ \A j \in Calls : /\ g[j].at = IF j = k THEN p ELSE f[j].at
                               /\ g[j].of = f[j].of
                               /\ g[j].conn = f[j].conn
<1> DEFINE r == [at |-> p, of |-> f[k].of, conn |-> f[k].conn]
           g == [f EXCEPT ![k].at = p]
<1>1. f[k] \in CallRecs
  OBVIOUS
<1>2. [f[k] EXCEPT !.at = p] = r
  BY <1>1 DEF CallRecs
<1>3. r \in CallRecs /\ r.at = p /\ r.of = f[k].of /\ r.conn = f[k].conn
  BY <1>1 DEF CallRecs
<1>4. g = [f EXCEPT ![k] = r]
  BY <1>2
<1> HIDE DEF r
<1>5. g \in [Calls -> CallRecs] /\ \A j \in Calls : g[j] = IF j = k THEN r ELSE f[j]
  BY <1>3, <1>4
<1>. QED BY <1>3, <1>5

\* The same, of a call that begins to wait for an attempt.
Waiting(f, k, p, n) == [f EXCEPT ![k].at = p, ![k].of = n]

\* It changes its place and what it waits for.
LEMMA CallWaits ==
    ASSUME NEW f \in [Calls -> CallRecs], NEW k \in Calls, NEW p \in Places,
           NEW n \in 0..MaxAttempts, NEW g, g = Waiting(f, k, p, n)
    PROVE  /\ g \in [Calls -> CallRecs]
           /\ \A j \in Calls : /\ g[j].at = IF j = k THEN p ELSE f[j].at
                               /\ g[j].of = IF j = k THEN n ELSE f[j].of
                               /\ g[j].conn = f[j].conn
<1> DEFINE r == [at |-> p, of |-> n, conn |-> f[k].conn]
           h == [f EXCEPT ![k].at = p]
<1>1. h \in [Calls -> CallRecs] /\ \A j \in Calls : /\ h[j].at = IF j = k THEN p ELSE f[j].at
                                                    /\ h[j].of = f[j].of
                                                    /\ h[j].conn = f[j].conn
  BY CallMoves
<1>2. g = [h EXCEPT ![k].of = n]
  BY DEF Waiting
<1>3. r \in CallRecs /\ r.at = p /\ r.of = n /\ r.conn = f[k].conn
  <2>1. f[k] \in CallRecs
    OBVIOUS
  <2>. QED BY <2>1 DEF CallRecs
<1>4. [h[k] EXCEPT !.of = n] = r
  <2> HIDE DEF h
  <2>1. h[k] \in CallRecs /\ h[k].at = p /\ h[k].conn = f[k].conn
    BY <1>1
  <2>. QED BY <2>1 DEF CallRecs
<1> HIDE DEF r, h
<1>5. g = [h EXCEPT ![k] = r]
  BY <1>2, <1>4
<1>6. g \in [Calls -> CallRecs] /\ \A j \in Calls : g[j] = IF j = k THEN r ELSE h[j]
  BY <1>1, <1>3, <1>5
<1>. QED BY <1>1, <1>3, <1>6

\* The same, of a call that has taken a connection with it.
LEMMA CallCloses ==
    ASSUME NEW f \in [Calls -> CallRecs], NEW k \in Calls, NEW p \in Places,
           NEW n \in 0..MaxAttempts, NEW c \in 0..MaxAttempts
    PROVE  LET g == [f EXCEPT ![k] = [at |-> p, of |-> n, conn |-> c]] IN
           /\ g \in [Calls -> CallRecs]
           /\ \A j \in Calls : /\ g[j].at = IF j = k THEN p ELSE f[j].at
                               /\ g[j].of = IF j = k THEN n ELSE f[j].of
                               /\ g[j].conn = IF j = k THEN c ELSE f[j].conn
<1> DEFINE r == [at |-> p, of |-> n, conn |-> c]
           g == [f EXCEPT ![k] = r]
<1>1. r \in CallRecs /\ r.at = p /\ r.of = n /\ r.conn = c
  BY DEF CallRecs
<1> HIDE DEF r
<1>2. g \in [Calls -> CallRecs] /\ \A j \in Calls : g[j] = IF j = k THEN r ELSE f[j]
  BY <1>1
<1> HIDE DEF g
<1>3. /\ g \in [Calls -> CallRecs]
      /\ \A j \in Calls : /\ g[j].at = IF j = k THEN p ELSE f[j].at
                          /\ g[j].of = IF j = k THEN n ELSE f[j].of
                          /\ g[j].conn = IF j = k THEN c ELSE f[j].conn
  BY <1>1, <1>2
<1>. QED BY <1>3 DEF g, r

\* An attempt that moves changes its place.
LEMMA AttemptMoves ==
    ASSUME NEW f \in [Attempts -> AttemptRecs], NEW a \in Attempts, NEW p \in Ends
    PROVE  LET g == [f EXCEPT ![a].at = p] IN
           /\ g \in [Attempts -> AttemptRecs]
           /\ \A b \in Attempts : /\ g[b].at = IF b = a THEN p ELSE f[b].at
                                  /\ g[b].aborted = f[b].aborted
                                  /\ g[b].fault = f[b].fault
<1> DEFINE r == [at |-> p, aborted |-> f[a].aborted, fault |-> f[a].fault]
           g == [f EXCEPT ![a].at = p]
<1>1. f[a] \in AttemptRecs
  OBVIOUS
<1>2. [f[a] EXCEPT !.at = p] = r
  BY <1>1 DEF AttemptRecs
<1>3. r \in AttemptRecs /\ r.at = p /\ r.aborted = f[a].aborted /\ r.fault = f[a].fault
  BY <1>1 DEF AttemptRecs
<1>4. g = [f EXCEPT ![a] = r]
  BY <1>2
<1> HIDE DEF r
<1>5. g \in [Attempts -> AttemptRecs] /\ \A b \in Attempts : g[b] = IF b = a THEN r ELSE f[b]
  BY <1>3, <1>4
<1>. QED BY <1>3, <1>5

\* The same, of an attempt that fails.
LEMMA AttemptFails ==
    ASSUME NEW f \in [Attempts -> AttemptRecs], NEW a \in Attempts
    PROVE  LET g == [f EXCEPT ![a].at = "rejected", ![a].fault = "failed"] IN
           /\ g \in [Attempts -> AttemptRecs]
           /\ \A b \in Attempts : /\ g[b].at = IF b = a THEN "rejected" ELSE f[b].at
                                  /\ g[b].aborted = f[b].aborted
                                  /\ g[b].fault = IF b = a THEN "failed" ELSE f[b].fault
<1> DEFINE r == [at |-> "rejected", aborted |-> f[a].aborted, fault |-> "failed"]
           h == [f EXCEPT ![a].at = "rejected"]
           g == [f EXCEPT ![a].at = "rejected", ![a].fault = "failed"]
<1>1. /\ h \in [Attempts -> AttemptRecs]
      /\ \A b \in Attempts : /\ h[b].at = IF b = a THEN "rejected" ELSE f[b].at
                             /\ h[b].aborted = f[b].aborted
                             /\ h[b].fault = f[b].fault
  BY AttemptMoves DEF Ends
<1>2. g = [h EXCEPT ![a].fault = "failed"]
  OBVIOUS
<1>3. r \in AttemptRecs /\ r.at = "rejected" /\ r.aborted = f[a].aborted /\ r.fault = "failed"
  <2>1. f[a] \in AttemptRecs
    OBVIOUS
  <2>. QED BY <2>1 DEF AttemptRecs, Ends, Faults
<1>4. [h[a] EXCEPT !.fault = "failed"] = r
  <2> HIDE DEF h
  <2>1. h[a] \in AttemptRecs /\ h[a].at = "rejected" /\ h[a].aborted = f[a].aborted
    BY <1>1
  <2>. QED BY <2>1 DEF AttemptRecs
<1> HIDE DEF r, h
<1>5. g = [h EXCEPT ![a] = r]
  BY <1>2, <1>4
<1> HIDE DEF g
<1>6. g \in [Attempts -> AttemptRecs] /\ \A b \in Attempts : g[b] = IF b = a THEN r ELSE h[b]
  BY <1>1, <1>3, <1>5
<1>7. /\ g \in [Attempts -> AttemptRecs]
      /\ \A b \in Attempts : /\ g[b].at = IF b = a THEN "rejected" ELSE f[b].at
                             /\ g[b].aborted = f[b].aborted
                             /\ g[b].fault = IF b = a THEN "failed" ELSE f[b].fault
  BY <1>1, <1>3, <1>6
<1>. QED BY <1>7 DEF g

\* The attempt that is under way is aborted, and the race is lost unless it was won.
LEMMA AbortLosesTheRace ==
    ASSUME Shapes, Abort
    PROVE  /\ attempt' \in [Attempts -> AttemptRecs]
           /\ \A b \in Attempts :
                 LET lost == b = connecting /\ attempt[b].at = "connecting" IN
                 /\ attempt'[b].at = IF lost THEN "rejected" ELSE attempt[b].at
                 /\ attempt'[b].aborted = (b = connecting \/ attempt[b].aborted)
                 /\ attempt'[b].fault = IF lost THEN "aborted" ELSE attempt[b].fault
<1> DEFINE Lost(b) == b = connecting /\ attempt[b].at = "connecting"
           After(b) == [at |-> IF Lost(b) THEN "rejected" ELSE attempt[b].at,
                        aborted |-> b = connecting \/ attempt[b].aborted,
                        fault |-> IF Lost(b) THEN "aborted" ELSE attempt[b].fault]
<1>1. ASSUME NEW b \in Attempts PROVE After(b) \in AttemptRecs /\ attempt'[b] = After(b)
  <2>1. attempt[b] \in AttemptRecs
    BY DEF Shapes
  <2>2. /\ attempt[b].at \in Ends /\ attempt[b].aborted \in BOOLEAN
        /\ attempt[b].fault \in Faults
        /\ attempt[b] = [at |-> attempt[b].at, aborted |-> attempt[b].aborted,
                         fault |-> attempt[b].fault]
    BY <2>1 DEF AttemptRecs
  <2>3. After(b) \in AttemptRecs
    BY <2>2 DEF AttemptRecs, Ends, Faults
  <2>4. CASE b # connecting
    <3>1. attempt'[b] = attempt[b]
      BY <2>4 DEF Abort
    <3>2. After(b) = attempt[b]
      BY <2>2, <2>4
    <3>. QED BY <2>3, <3>1, <3>2
  <2>5. CASE b = connecting
    <3>1. attempt'[b] = [attempt[b] EXCEPT !.aborted = TRUE,
                           !.at = IF @ = "connecting" THEN "rejected" ELSE @,
                           !.fault = IF attempt[b].at = "connecting" THEN "aborted" ELSE @]
      BY <2>5 DEF Abort
    <3>2. attempt'[b] = After(b)
      BY <2>2, <2>5, <3>1
    <3>. QED BY <2>3, <3>2
  <2>. QED BY <2>4, <2>5
<1>2. attempt' \in [Attempts -> AttemptRecs]
  <2>1. DOMAIN attempt' = Attempts /\ attempt' = [b \in Attempts |-> attempt'[b]]
    BY DEF Abort
  <2>. QED BY <1>1, <2>1
<1>3. ASSUME NEW b \in Attempts
      PROVE  /\ attempt'[b].at = IF Lost(b) THEN "rejected" ELSE attempt[b].at
             /\ attempt'[b].aborted = (b = connecting \/ attempt[b].aborted)
             /\ attempt'[b].fault = IF Lost(b) THEN "aborted" ELSE attempt[b].fault
  <2>1. /\ After(b).at = IF Lost(b) THEN "rejected" ELSE attempt[b].at
        /\ After(b).fault = IF Lost(b) THEN "aborted" ELSE attempt[b].fault
    OBVIOUS
  <2>2. After(b).aborted = (b = connecting \/ attempt[b].aborted)
    OBVIOUS
  <2> HIDE DEF After
  <2>. QED BY <1>1, <2>1, <2>2
<1>. QED BY <1>2, <1>3

\* Calls that find nothing to do, and one that has waited for what it did, return.
LEMMA ReturningKeeps ==
    ASSUME McpServersAssumption, OneStart, ConnectedInv, NEW k \in Calls,
           NotStarted(k) \/ AlreadySo(k) \/ Returns(k)
    PROVE  ConnectedInv'
<1>0. /\ Shapes /\ NothingBeforeStart /\ OneAtATime /\ LinksFollow /\ ToolsFollow
      /\ NothingIsLeftOpen /\ AttemptsEnd /\ GivenUp /\ WaitsEnd /\ WordsCount
  BY DEF ConnectedInv
<1>1. /\ UNCHANGED <<registry, enabled, connection, tools, error, connecting, attempt, link>>
      /\ call[k].at \in {"new", "awaiting"}
      /\ call' = [call EXCEPT ![k].at = "done"]
  BY DEF NotStarted, AlreadySo, Returns, At, To
<1>2. /\ call' \in [Calls -> CallRecs]
      /\ \A j \in Calls : /\ call'[j].at = IF j = k THEN "done" ELSE call[j].at
                          /\ call'[j].of = call[j].of
                          /\ call'[j].conn = call[j].conn
  <2>1. call \in [Calls -> CallRecs] /\ "done" \in Places
    BY <1>0 DEF Shapes, Places
  <2>. QED BY <1>1, <2>1, CallMoves
<1>3. Shapes'
  BY <1>0, <1>1, <1>2 DEF Shapes
<1>4. NothingBeforeStart'
  BY <1>0, <1>1, <1>2 DEF NothingBeforeStart, At
<1>5. OneAtATime'
  BY <1>0, <1>1, <1>2 DEF OneAtATime, Live, At
<1>6. LinksFollow'
  BY <1>0, <1>1, <1>2 DEF LinksFollow, At
<1>7. ToolsFollow'
  BY <1>0, <1>1, <1>2 DEF ToolsFollow, At
<1>8. NothingIsLeftOpen'
  BY <1>0, <1>1, <1>2 DEF NothingIsLeftOpen, At
<1>9. AttemptsEnd'
  BY <1>0, <1>1 DEF AttemptsEnd
<1>10. GivenUp'
  BY <1>0, <1>1, <1>2 DEF GivenUp, Live, At
<1>11. WaitsEnd'
  BY <1>0, <1>1, <1>2 DEF WaitsEnd, Live, Unrun, At
<1>12. WordsCount'
  BY <1>0, <1>1, <1>2 DEF WordsCount, Live, Unrun, Wanting, At
<1>. QED BY <1>3, <1>4, <1>5, <1>6, <1>7, <1>8, <1>9, <1>10, <1>11, <1>12 DEF ConnectedInv

\* The caller of connect() notes what went wrong; if somebody had switched the server off
\* meanwhile and it is on again, somebody else will come to it.
LEMMA JoinedKeeps ==
    ASSUME McpServersAssumption, OneStart, ConnectedInv, NEW k \in Calls, Joined(k)
    PROVE  ConnectedInv'
<1>0. /\ Shapes /\ NothingBeforeStart /\ OneAtATime /\ LinksFollow /\ ToolsFollow
      /\ NothingIsLeftOpen /\ AttemptsEnd /\ GivenUp /\ WaitsEnd /\ WordsCount
  BY DEF ConnectedInv
<1>1. UNCHANGED <<registry, enabled, connection, tools, connecting, attempt, link>>
  BY DEF Joined
<1>2. /\ call' \in [Calls -> CallRecs]
      /\ \A j \in Calls : /\ call'[j].at = IF j = k THEN "done" ELSE call[j].at
                          /\ call'[j].of = call[j].of
                          /\ call'[j].conn = call[j].conn
  <2>1. call \in [Calls -> CallRecs]
    BY <1>0 DEF Shapes
  <2>2. call' = [call EXCEPT ![k].at = "done"] /\ "done" \in Places
    BY DEF Joined, To, Places
  <2>. QED BY <2>1, <2>2, CallMoves
<1>3. Shapes'
  <2>1. attempt[call[k].of] \in AttemptRecs
    BY <1>0 DEF Shapes, WaitsEnd, Joined, At
  <2>2. error' \in Faults
    BY <1>0, <2>1 DEF Shapes, AttemptRecs, Joined
  <2>. QED BY <1>0, <1>1, <1>2, <2>2 DEF Shapes
<1>4. NothingBeforeStart'
  BY <1>0, <1>1, <1>2 DEF NothingBeforeStart, At
<1>5. OneAtATime'
  BY <1>0, <1>2 DEF OneAtATime, WaitsEnd, Joined, Live, At, Settled, Attempts
<1>6. LinksFollow'
  BY <1>0, <1>1, <1>2 DEF LinksFollow, At
<1>7. ToolsFollow'
  BY <1>0, <1>2 DEF ToolsFollow, Joined, At
<1>8. NothingIsLeftOpen'
  BY <1>0, <1>2 DEF NothingIsLeftOpen, Joined, At
<1>9. AttemptsEnd'
  BY <1>0, <1>1 DEF AttemptsEnd
<1>10. GivenUp'
  BY <1>0, <1>2 DEF GivenUp, Joined, Live, At
<1>11. WaitsEnd'
  BY <1>0, <1>1, <1>2 DEF WaitsEnd, Live, Unrun, At
<1>12. WordsCount'
  <2> SUFFICES ASSUME registry, enabled
               PROVE  /\ \/ connection # 0 \/ error' = "failed"
                         \/ \E j \in Calls : Wanting(j)'
                         \/ \E j \in Calls : At(j, "joined")' /\ Unrun(j)'
                                             /\ attempt'[call'[j].of].fault = "failed"
                      /\ \A j \in Calls :
                            At(j, "joined")' /\ Unrun(j)'
                            /\ attempt'[call'[j].of].fault = "aborted" =>
                               connection # 0 \/ \E i \in Calls : Wanting(i)'
    BY <1>1 DEF WordsCount
  <2>1. At(k, "joined") /\ Unrun(k)
    BY <1>0 DEF Joined, At, Unrun, Settled, WaitsEnd, Attempts
  <2>2. \A j \in Calls : Wanting(j) => Wanting(j)'
    BY <1>0, <1>1, <1>2, <2>1 DEF Wanting, At, Live, Unrun
  <2>3. \A j \in Calls : At(j, "joined")' /\ Unrun(j)' =>
           At(j, "joined") /\ Unrun(j) /\ attempt'[call'[j].of].fault = attempt[call[j].of].fault
    BY <1>0, <1>1, <1>2 DEF At, Unrun
  <2>4. \A j \in Calls : j # k /\ At(j, "joined") /\ Unrun(j) =>
           At(j, "joined")' /\ Unrun(j)' /\ attempt'[call'[j].of].fault = attempt[call[j].of].fault
    BY <1>0, <1>1, <1>2 DEF At, Unrun
  <2>5. /\ attempt[call[k].of].fault # "none" => error' = attempt[call[k].of].fault
        /\ attempt[call[k].of].fault = "none" => error' = error
    BY DEF Joined
  <2>6. attempt[call[k].of].fault \in Faults
    <3>1. attempt[call[k].of] \in AttemptRecs
      BY <1>0 DEF Shapes, WaitsEnd, Joined, At
    <3>. QED BY <3>1 DEF AttemptRecs
  <2>7. attempt[call[k].of].fault = "aborted" => connection # 0 \/ \E j \in Calls : Wanting(j)
    BY <1>0, <2>1 DEF WordsCount
  <2>8. \/ connection # 0 \/ error = "failed"
        \/ \E j \in Calls : Wanting(j)
        \/ \E j \in Calls : At(j, "joined") /\ Unrun(j) /\ attempt[call[j].of].fault = "failed"
    BY <1>0 DEF WordsCount
  <2>9. \/ connection # 0 \/ error' = "failed"
        \/ \E j \in Calls : Wanting(j)'
        \/ \E j \in Calls : At(j, "joined")' /\ Unrun(j)' /\ attempt'[call'[j].of].fault = "failed"
    <3>1. CASE attempt[call[k].of].fault = "aborted"
      BY <2>2, <2>7, <3>1
    <3>2. CASE attempt[call[k].of].fault = "failed"
      BY <2>5, <3>2
    <3>3. CASE attempt[call[k].of].fault = "none"
      BY <2>2, <2>4, <2>5, <2>8, <3>3
    <3>. QED BY <2>6, <3>1, <3>2, <3>3 DEF Faults
  <2>10. \A j \in Calls :
            At(j, "joined")' /\ Unrun(j)' /\ attempt'[call'[j].of].fault = "aborted" =>
               connection # 0 \/ \E i \in Calls : Wanting(i)'
    BY <1>0, <2>2, <2>3 DEF WordsCount
  <2>. QED BY <2>9, <2>10
<1>. QED BY <1>3, <1>4, <1>5, <1>6, <1>7, <1>8, <1>9, <1>10, <1>11, <1>12 DEF ConnectedInv

\* A connection that somebody took with him is closed.
LEMMA ClosesKeeps ==
    ASSUME McpServersAssumption, OneStart, ConnectedInv, NEW k \in Calls, Closes(k)
    PROVE  ConnectedInv'
<1>0. /\ Shapes /\ NothingBeforeStart /\ OneAtATime /\ LinksFollow /\ ToolsFollow
      /\ NothingIsLeftOpen /\ AttemptsEnd /\ GivenUp /\ WaitsEnd /\ WordsCount
  BY DEF ConnectedInv
<1>1. UNCHANGED <<registry, enabled, connection, tools, error, connecting, attempt>>
  BY DEF Closes
<1>2. /\ call' \in [Calls -> CallRecs]
      /\ \A j \in Calls : /\ call'[j].at = IF j = k THEN "awaiting" ELSE call[j].at
                          /\ call'[j].of = call[j].of
                          /\ call'[j].conn = call[j].conn
  <2>1. call \in [Calls -> CallRecs]
    BY <1>0 DEF Shapes
  <2>2. call' = [call EXCEPT ![k].at = "awaiting"] /\ "awaiting" \in Places
    BY DEF Closes, To, Places
  <2>. QED BY <2>1, <2>2, CallMoves
<1>3. \A b \in Attempts : link'[b] = IF b = call[k].conn THEN "closed" ELSE link[b]
  BY <1>0 DEF Shapes, Closes
<1>4. Shapes'
  BY <1>0, <1>2 DEF Shapes, Closes
<1>5. NothingBeforeStart'
  BY <1>0, <1>2 DEF NothingBeforeStart, Closes, At
<1>6. OneAtATime'
  BY <1>0, <1>2 DEF OneAtATime, LinksFollow, Closes, Live, At, Attempts
<1>7. LinksFollow'
  BY <1>0, <1>2 DEF LinksFollow, Closes, At
<1>8. ToolsFollow'
  BY <1>0, <1>2 DEF ToolsFollow, Closes, At
<1>9. NothingIsLeftOpen'
  BY <1>0, <1>1, <1>2, <1>3 DEF NothingIsLeftOpen, At
<1>10. AttemptsEnd'
  BY <1>0, <1>1 DEF AttemptsEnd
<1>11. GivenUp'
  BY <1>0, <1>2 DEF GivenUp, Closes, Live, At
<1>12. WaitsEnd'
  BY <1>0, <1>1, <1>2 DEF WaitsEnd, Live, Unrun, At
<1>13. WordsCount'
  BY <1>0, <1>2 DEF WordsCount, Closes, Live, Unrun, Wanting, At
<1>. QED BY <1>4, <1>5, <1>6, <1>7, <1>8, <1>9, <1>10, <1>11, <1>12, <1>13 DEF ConnectedInv

\* Somebody switches the server off: what there is is his to close, and the attempt that is
\* under way is aborted.
LEMMA DisableKeeps ==
    ASSUME McpServersAssumption, OneStart, ConnectedInv, NEW k \in Calls, Disable(k)
    PROVE  ConnectedInv'
<1>0. /\ Shapes /\ NothingBeforeStart /\ OneAtATime /\ LinksFollow /\ ToolsFollow
      /\ NothingIsLeftOpen /\ AttemptsEnd /\ GivenUp /\ WaitsEnd /\ WordsCount
  BY DEF ConnectedInv
<1>1. UNCHANGED <<registry, error, connecting, link>>
  BY DEF Disable
<1>2. /\ call' \in [Calls -> CallRecs]
      /\ \A j \in Calls : /\ call'[j].at = IF j = k THEN "closing" ELSE call[j].at
                          /\ call'[j].of = IF j = k THEN connecting ELSE call[j].of
                          /\ call'[j].conn = IF j = k THEN connection ELSE call[j].conn
  <2>1. call \in [Calls -> CallRecs]
    BY <1>0 DEF Shapes
  <2>2. /\ call' = [call EXCEPT ![k] = [at |-> "closing", of |-> connecting, conn |-> connection]]
        /\ "closing" \in Places
    BY DEF Disable, To, Places
  <2>3. connecting \in 0..MaxAttempts /\ connection \in 0..MaxAttempts
    BY <1>0, McpServersAssumption DEF Shapes, McpServersAssumption
  <2>. QED BY <2>1, <2>2, <2>3, CallCloses
<1>3. /\ attempt' \in [Attempts -> AttemptRecs]
      /\ \A b \in Attempts :
            LET lost == b = connecting /\ attempt[b].at = "connecting" IN
            /\ attempt'[b].at = IF lost THEN "rejected" ELSE attempt[b].at
            /\ attempt'[b].aborted = (b = connecting \/ attempt[b].aborted)
            /\ attempt'[b].fault = IF lost THEN "aborted" ELSE attempt[b].fault
  BY <1>0, AbortLosesTheRace DEF Disable
<1>4. Shapes'
  <2>1. 0 \in 0..MaxAttempts
    BY McpServersAssumption DEF McpServersAssumption
  <2>. QED BY <1>0, <1>1, <1>2, <1>3, <2>1 DEF Shapes, Disable
<1>5. NothingBeforeStart'
  BY <1>0 DEF NothingBeforeStart, Disable, At
<1>6. OneAtATime'
  <2>1. \A b \in Attempts : Live(b)' <=> Live(b)
    BY <1>0, <1>1, <1>2, <1>3 DEF Live
  <2>2. \A b \in Attempts : attempt[b].at = "none" <=> attempt'[b].at = "none"
    BY <1>0, <1>1, <1>2, <1>3
  <2>3. \A b \in Attempts : attempt'[b].at = "none" => b # connecting
    BY <1>0, <1>1, <1>2, <1>3, <2>2 DEF OneAtATime, Live
  <2>4. connecting # 0 => \E j \in Calls : At(j, "joined")' /\ call'[j].of = connecting
    BY <1>0, <1>1, <1>2, <1>3 DEF OneAtATime, At, Disable
  <2>. QED BY <1>0, <1>1, <1>2, <1>3, <2>1, <2>2, <2>3, <2>4 DEF OneAtATime
<1>7. LinksFollow'
  BY <1>0, <1>3 DEF LinksFollow, OneAtATime, Disable, At, Live, Attempts
<1>8. ToolsFollow'
  BY <1>0 DEF ToolsFollow, Disable, At
<1>9. NothingIsLeftOpen'
  BY <1>0, <1>2, <1>3 DEF NothingIsLeftOpen, Disable, At
<1>10. AttemptsEnd'
  <2>1. connection' = 0
    BY DEF Disable
  <2>2. ASSUME NEW b \in Attempts, attempt'[b].at = "over" PROVE attempt'[b].aborted
    <3>1. Live(b)
      BY <1>3, <2>2 DEF Live
    <3>2. b = connecting
      BY <1>0, <3>1 DEF OneAtATime
    <3>. QED BY <1>3, <3>2
  <2>3. ASSUME NEW b \in Attempts
        PROVE  /\ attempt'[b].at = "closing" => attempt'[b].aborted
               /\ attempt'[b].at = "rejected" /\ ~attempt'[b].aborted =>
                     attempt'[b].fault = "failed"
               /\ attempt'[b].fault = "aborted" => attempt'[b].aborted
    BY <1>0, <1>3 DEF AttemptsEnd
  <2>. QED BY <2>1, <2>2, <2>3 DEF AttemptsEnd
<1>11. GivenUp'
  <2>1. ASSUME NEW b \in Attempts, Live(b)' PROVE b = connecting /\ attempt'[b].aborted
    <3>1. Live(b)
      BY <1>3, <2>1 DEF Live
    <3>2. b = connecting
      BY <1>0, <3>1 DEF OneAtATime
    <3>. QED BY <1>3, <3>2
  <2>2. ~enabled' /\ connection' = 0
    BY DEF Disable
  <2>. QED BY <2>1, <2>2 DEF GivenUp
<1>12. WaitsEnd'
  <2>1. \A b \in Attempts : /\ attempt'[b].at = "settled" <=> attempt[b].at = "settled"
                            /\ attempt'[b].at = "none" <=> attempt[b].at = "none"
                            /\ attempt[b].aborted => attempt'[b].aborted
                            /\ Live(b)' <=> Live(b)
    BY <1>0, <1>1, <1>2, <1>3 DEF Live
  <2>2. SUFFICES ASSUME NEW j \in Calls, j # k, At(j, "joined") \/ At(j, "chained")
                 PROVE  /\ call'[j].of \in Attempts /\ attempt'[call'[j].of].at # "none"
                        /\ At(j, "chained")' => attempt'[call'[j].of].aborted
                        /\ \A a \in Attempts : Unrun(j)' /\ Live(a)' =>
                              \/ attempt'[a].at = "connecting"
                              \/ attempt'[a].at = "rejected" /\ attempt'[a].aborted
                        /\ At(j, "chained")' /\ Unrun(j)' /\ registry' => connection' = 0
    BY <1>0, <1>1, <1>2, <1>3 DEF WaitsEnd, At, Unrun
  <2>3. call[j].of \in Attempts /\ attempt[call[j].of].at # "none" /\ call'[j].of = call[j].of
    BY <1>0, <1>1, <1>2, <1>3, <2>2 DEF WaitsEnd
  <2>4. At(j, "chained")' => attempt'[call'[j].of].aborted
    BY <1>0, <1>1, <1>2, <1>3, <2>1, <2>2, <2>3 DEF WaitsEnd, At
  <2>5. Unrun(j)' => Unrun(j)
    BY <1>0, <1>1, <1>2, <1>3, <2>1, <2>2, <2>3 DEF Unrun
  <2>6. ASSUME NEW a \in Attempts, Unrun(j)', Live(a)'
        PROVE  attempt'[a].at = "rejected" /\ attempt'[a].aborted
    <3>1. a = connecting
      BY <1>0, <2>1, <2>6 DEF OneAtATime
    <3>2. attempt[a].at = "connecting" \/ attempt[a].at = "rejected"
      BY <1>0, <2>1, <2>5, <2>6 DEF WaitsEnd
    <3>. QED BY <1>0, <1>1, <1>2, <1>3, <3>1, <3>2
  <2>7. At(j, "chained")' /\ Unrun(j)' /\ registry' => connection' = 0
    BY DEF Disable
  <2>. QED BY <2>1, <2>3, <2>4, <2>6, <2>7
<1>13. WordsCount'
  BY <1>0 DEF WordsCount, Disable, Live, Unrun, Wanting, At
<1>. QED BY <1>4, <1>5, <1>6, <1>7, <1>8, <1>9, <1>10, <1>11, <1>12, <1>13 DEF ConnectedInv

\* The services stop.
LEMMA StopKeeps ==
    ASSUME McpServersAssumption, OneStart, ConnectedInv, NEW k \in Calls, Stop(k)
    PROVE  ConnectedInv'
<1>0. /\ Shapes /\ NothingBeforeStart /\ OneAtATime /\ LinksFollow /\ ToolsFollow
      /\ NothingIsLeftOpen /\ AttemptsEnd /\ GivenUp /\ WaitsEnd /\ WordsCount
  BY DEF ConnectedInv
<1>1. UNCHANGED <<enabled, connection, tools, error, connecting, link>>
  BY DEF Stop
<1>2. /\ call' \in [Calls -> CallRecs]
      /\ \A j \in Calls : /\ call'[j].at = IF j = k THEN "draining" ELSE call[j].at
                          /\ call'[j].of = IF j = k THEN connecting ELSE call[j].of
                          /\ call'[j].conn = call[j].conn
  <2>1. call \in [Calls -> CallRecs]
    BY <1>0 DEF Shapes
  <2>2. call' = Waiting(call, k, "draining", connecting) /\ "draining" \in Places
    BY DEF Stop, To, Places, Waiting
  <2>3. connecting \in 0..MaxAttempts
    BY <1>0, McpServersAssumption DEF Shapes, McpServersAssumption
  <2>. QED BY <2>1, <2>2, <2>3, CallWaits
<1>3. /\ attempt' \in [Attempts -> AttemptRecs]
      /\ \A b \in Attempts :
            LET lost == b = connecting /\ attempt[b].at = "connecting" IN
            /\ attempt'[b].at = IF lost THEN "rejected" ELSE attempt[b].at
            /\ attempt'[b].aborted = (b = connecting \/ attempt[b].aborted)
            /\ attempt'[b].fault = IF lost THEN "aborted" ELSE attempt[b].fault
  BY <1>0, AbortLosesTheRace DEF Stop
<1>4. Shapes'
  BY <1>0, <1>2, <1>3 DEF Shapes, Stop
<1>5. NothingBeforeStart'
  BY <1>0, <1>2 DEF NothingBeforeStart, Stop, At
<1>6. OneAtATime'
  <2>1. \A b \in Attempts : Live(b)' <=> Live(b)
    BY <1>0, <1>1, <1>2, <1>3 DEF Live
  <2>2. \A b \in Attempts : attempt[b].at = "none" <=> attempt'[b].at = "none"
    BY <1>0, <1>1, <1>2, <1>3
  <2>3. \A b \in Attempts : attempt'[b].at = "none" => b # connecting
    BY <1>0, <1>1, <1>2, <1>3, <2>2 DEF OneAtATime, Live
  <2>4. connecting # 0 => \E j \in Calls : At(j, "joined")' /\ call'[j].of = connecting
    BY <1>0, <1>1, <1>2, <1>3 DEF OneAtATime, At, Stop
  <2>. QED BY <1>0, <1>1, <1>2, <1>3, <2>1, <2>2, <2>3, <2>4 DEF OneAtATime
<1>7. LinksFollow'
  BY <1>0, <1>1, <1>2, <1>3 DEF LinksFollow, At
<1>8. ToolsFollow'
  BY <1>0, <1>2 DEF ToolsFollow, Stop, At
<1>9. NothingIsLeftOpen'
  BY <1>0, <1>2, <1>3 DEF NothingIsLeftOpen, Stop, At
<1>10. AttemptsEnd'
  <2> SUFFICES ASSUME NEW b \in Attempts
               PROVE  /\ attempt'[b].at \in {"connecting", "resolved"} => connection = 0
                      /\ attempt'[b].at = "closing" => attempt'[b].aborted
                      /\ attempt'[b].at = "over" /\ ~attempt'[b].aborted => connection = b
                      /\ attempt'[b].at = "rejected" /\ ~attempt'[b].aborted =>
                            attempt'[b].fault = "failed"
                      /\ attempt'[b].fault = "aborted" => attempt'[b].aborted
    BY <1>1 DEF AttemptsEnd
  <2>1. CASE b = connecting
    BY <1>0, <1>1, <1>2, <1>3, <2>1 DEF AttemptsEnd
  <2>2. CASE b # connecting
    BY <1>0, <1>1, <1>2, <1>3, <2>2 DEF AttemptsEnd
  <2>. QED BY <2>1, <2>2
<1>11. GivenUp'
  <2>1. ASSUME NEW b \in Attempts, Live(b)' PROVE b = connecting /\ attempt'[b].aborted
    <3>1. Live(b)
      BY <1>3, <2>1 DEF Live
    <3>2. b = connecting
      BY <1>0, <3>1 DEF OneAtATime
    <3>. QED BY <1>3, <3>2
  <2>2. ~registry'
    BY DEF Stop
  <2>. QED BY <2>1, <2>2 DEF GivenUp
<1>12. WaitsEnd'
  <2>1. \A b \in Attempts : /\ attempt'[b].at = "settled" <=> attempt[b].at = "settled"
                            /\ attempt'[b].at = "none" <=> attempt[b].at = "none"
                            /\ attempt[b].aborted => attempt'[b].aborted
                            /\ Live(b)' <=> Live(b)
    BY <1>0, <1>1, <1>2, <1>3 DEF Live
  <2>2. SUFFICES ASSUME NEW j \in Calls, j # k, At(j, "joined") \/ At(j, "chained")
                 PROVE  /\ call'[j].of \in Attempts /\ attempt'[call'[j].of].at # "none"
                        /\ At(j, "chained")' => attempt'[call'[j].of].aborted
                        /\ \A a \in Attempts : Unrun(j)' /\ Live(a)' =>
                              \/ attempt'[a].at = "connecting"
                              \/ attempt'[a].at = "rejected" /\ attempt'[a].aborted
                        /\ At(j, "chained")' /\ Unrun(j)' /\ registry' => connection' = 0
    BY <1>0, <1>1, <1>2, <1>3 DEF WaitsEnd, At, Unrun
  <2>3. call[j].of \in Attempts /\ attempt[call[j].of].at # "none" /\ call'[j].of = call[j].of
    BY <1>0, <1>1, <1>2, <1>3, <2>2 DEF WaitsEnd
  <2>4. At(j, "chained")' => attempt'[call'[j].of].aborted
    BY <1>0, <1>1, <1>2, <1>3, <2>1, <2>2, <2>3 DEF WaitsEnd, At
  <2>5. Unrun(j)' => Unrun(j)
    BY <1>0, <1>1, <1>2, <1>3, <2>1, <2>2, <2>3 DEF Unrun
  <2>6. ASSUME NEW a \in Attempts, Unrun(j)', Live(a)'
        PROVE  attempt'[a].at = "rejected" /\ attempt'[a].aborted
    <3>1. a = connecting
      BY <1>0, <2>1, <2>6 DEF OneAtATime
    <3>2. attempt[a].at = "connecting" \/ attempt[a].at = "rejected"
      BY <1>0, <2>1, <2>5, <2>6 DEF WaitsEnd
    <3>. QED BY <1>0, <1>1, <1>2, <1>3, <3>1, <3>2
  <2>7. At(j, "chained")' /\ Unrun(j)' /\ registry' => connection' = 0
    BY DEF Stop
  <2>. QED BY <2>1, <2>3, <2>4, <2>6, <2>7
<1>13. WordsCount'
  BY <1>0 DEF WordsCount, Stop, Live, Unrun, Wanting, At
<1>. QED BY <1>4, <1>5, <1>6, <1>7, <1>8, <1>9, <1>10, <1>11, <1>12, <1>13 DEF ConnectedInv

\* A stop has waited for the attempt, and takes the connection away.
LEMMA DrainKeeps ==
    ASSUME McpServersAssumption, OneStart, ConnectedInv, NEW k \in Calls, Drain(k)
    PROVE  ConnectedInv'
<1>0. /\ Shapes /\ NothingBeforeStart /\ OneAtATime /\ LinksFollow /\ ToolsFollow
      /\ NothingIsLeftOpen /\ AttemptsEnd /\ GivenUp /\ WaitsEnd /\ WordsCount
  BY DEF ConnectedInv
<1>1. UNCHANGED <<registry, enabled, connecting, attempt, link>>
  BY DEF Drain
<1>2. /\ call' \in [Calls -> CallRecs]
      /\ \A j \in Calls : /\ call'[j].at = IF j = k THEN "closing" ELSE call[j].at
                          /\ call'[j].of = IF j = k THEN 0 ELSE call[j].of
                          /\ call'[j].conn = IF j = k THEN connection ELSE call[j].conn
  <2>1. call \in [Calls -> CallRecs]
    BY <1>0 DEF Shapes
  <2>2. /\ call' = [call EXCEPT ![k] = [at |-> "closing", of |-> 0, conn |-> connection]]
        /\ "closing" \in Places
    BY DEF Drain, To, Places
  <2>3. 0 \in 0..MaxAttempts /\ connection \in 0..MaxAttempts
    BY <1>0, McpServersAssumption DEF Shapes, McpServersAssumption
  <2>. QED BY <2>1, <2>2, <2>3, CallCloses
<1>3. Shapes'
  BY <1>0, <1>2 DEF Shapes, Drain, Faults, McpServersAssumption, Attempts
<1>4. NothingBeforeStart'
  BY <1>0 DEF NothingBeforeStart, Drain, At
<1>5. OneAtATime'
  BY <1>0 DEF OneAtATime, Drain, Live, At
<1>6. LinksFollow'
  BY <1>0 DEF LinksFollow, OneAtATime, Drain, At, Live, Attempts
<1>7. ToolsFollow'
  BY <1>0 DEF ToolsFollow, Drain, At
<1>8. NothingIsLeftOpen'
  BY <1>0, <1>2 DEF NothingIsLeftOpen, Drain, At
<1>9. AttemptsEnd'
  BY <1>0 DEF AttemptsEnd, OneAtATime, GivenUp, ToolsFollow, Drain, Live, Attempts
<1>10. GivenUp'
  BY <1>0 DEF GivenUp, Drain, Live, At
<1>11. WaitsEnd'
  BY <1>0 DEF WaitsEnd, Drain, Live, Unrun, At
<1>12. WordsCount'
  BY <1>0 DEF WordsCount, OneAtATime, ToolsFollow, Drain, Live, Unrun, Wanting, At, Attempts
<1>. QED BY <1>3, <1>4, <1>5, <1>6, <1>7, <1>8, <1>9, <1>10, <1>11, <1>12 DEF ConnectedInv

\* The other side answers.
LEMMA OpensKeeps ==
    ASSUME McpServersAssumption, OneStart, ConnectedInv, NEW a \in Attempts, Opens(a)
    PROVE  ConnectedInv'
<1>0. /\ Shapes /\ NothingBeforeStart /\ OneAtATime /\ LinksFollow /\ ToolsFollow
      /\ NothingIsLeftOpen /\ AttemptsEnd /\ GivenUp /\ WaitsEnd /\ WordsCount
  BY DEF ConnectedInv
<1>1. UNCHANGED <<registry, enabled, connection, tools, error, connecting, call>>
  BY DEF Opens
<1>2. /\ attempt' \in [Attempts -> AttemptRecs]
      /\ \A b \in Attempts : /\ attempt'[b].at = IF b = a /\ attempt[a].at = "connecting"
                                                    THEN "resolved" ELSE attempt[b].at
                             /\ attempt'[b].aborted = attempt[b].aborted
                             /\ attempt'[b].fault = attempt[b].fault
  <2>1. attempt \in [Attempts -> AttemptRecs]
    BY <1>0 DEF Shapes
  <2>2. CASE attempt[a].at = "connecting"
    <3>1. attempt' = [attempt EXCEPT ![a].at = "resolved"] /\ "resolved" \in Ends
      BY <2>2 DEF Opens, Ends
    <3>2. /\ attempt' \in [Attempts -> AttemptRecs]
         /\ \A b \in Attempts : /\ attempt'[b].at = IF b = a THEN "resolved" ELSE attempt[b].at
                                /\ attempt'[b].aborted = attempt[b].aborted
                                /\ attempt'[b].fault = attempt[b].fault
      BY <2>1, <3>1, AttemptMoves
    <3>. QED BY <2>2, <3>2
  <2>3. CASE attempt[a].at # "connecting"
    BY <2>1, <2>3 DEF Opens
  <2>. QED BY <2>2, <2>3
<1>3. \A b \in Attempts : link'[b] = IF b # a THEN link[b]
                              ELSE IF attempt[a].at = "connecting" THEN "open" ELSE "late"
  BY <1>0 DEF Shapes, Opens
<1>4. Shapes'
  BY <1>0, <1>2 DEF Shapes, Opens
<1>5. NothingBeforeStart'
  BY <1>0, <1>1 DEF NothingBeforeStart, At
<1>6. OneAtATime'
  BY <1>0, <1>2, <1>3 DEF OneAtATime, Opens, Live, At
<1>7. LinksFollow'
  BY <1>0, <1>2, <1>3 DEF LinksFollow, Opens, At
<1>8. ToolsFollow'
  BY <1>0, <1>1 DEF ToolsFollow, At
<1>9. NothingIsLeftOpen'
  BY <1>0, <1>1, <1>2, <1>3 DEF NothingIsLeftOpen, At
<1>10. AttemptsEnd'
  BY <1>0, <1>1, <1>2 DEF AttemptsEnd
<1>11. GivenUp'
  BY <1>0, <1>1, <1>2 DEF GivenUp, Live, At
<1>12. WaitsEnd'
  BY <1>0, <1>2 DEF WaitsEnd, Opens, Live, Unrun, At, Settled, Quiet, Attempts
<1>13. WordsCount'
  BY <1>0, <1>1, <1>2 DEF WordsCount, WaitsEnd, Live, Unrun, Wanting, At
<1>. QED BY <1>4, <1>5, <1>6, <1>7, <1>8, <1>9, <1>10, <1>11, <1>12, <1>13 DEF ConnectedInv

\* What has come late is closed.
LEMMA LateCloseKeeps ==
    ASSUME McpServersAssumption, OneStart, ConnectedInv, NEW a \in Attempts, LateClose(a)
    PROVE  ConnectedInv'
<1>0. /\ Shapes /\ NothingBeforeStart /\ OneAtATime /\ LinksFollow /\ ToolsFollow
      /\ NothingIsLeftOpen /\ AttemptsEnd /\ GivenUp /\ WaitsEnd /\ WordsCount
  BY DEF ConnectedInv
<1>1. UNCHANGED <<registry, enabled, connection, tools, error, connecting, attempt, call>>
  BY DEF LateClose
<1>2. \A b \in Attempts : link'[b] = IF b = a THEN "closed" ELSE link[b]
  BY <1>0 DEF Shapes, LateClose
<1>3. Shapes'
  BY <1>0 DEF Shapes, LateClose
<1>4. NothingBeforeStart'
  BY <1>0, <1>1 DEF NothingBeforeStart, At
<1>5. OneAtATime'
  BY <1>0 DEF OneAtATime, LateClose, Live, At
<1>6. LinksFollow'
  BY <1>0 DEF LinksFollow, LateClose, At
<1>7. ToolsFollow'
  BY <1>0, <1>1 DEF ToolsFollow, At
<1>8. NothingIsLeftOpen'
  BY <1>0, <1>1, <1>2 DEF NothingIsLeftOpen, At
<1>9. AttemptsEnd'
  BY <1>0, <1>1 DEF AttemptsEnd
<1>10. GivenUp'
  BY <1>0, <1>1 DEF GivenUp, Live, At
<1>11. WaitsEnd'
  BY <1>0, <1>1 DEF WaitsEnd, Live, Unrun, At
<1>12. WordsCount'
  BY <1>0, <1>1 DEF WordsCount, Live, Unrun, Wanting, At
<1>. QED BY <1>3, <1>4, <1>5, <1>6, <1>7, <1>8, <1>9, <1>10, <1>11, <1>12 DEF ConnectedInv

\* The other side refuses.
LEMMA RefusesKeeps ==
    ASSUME McpServersAssumption, OneStart, ConnectedInv, NEW a \in Attempts, Refuses(a)
    PROVE  ConnectedInv'
<1>0. /\ Shapes /\ NothingBeforeStart /\ OneAtATime /\ LinksFollow /\ ToolsFollow
      /\ NothingIsLeftOpen /\ AttemptsEnd /\ GivenUp /\ WaitsEnd /\ WordsCount
  BY DEF ConnectedInv
<1>1. UNCHANGED <<registry, enabled, connection, tools, error, connecting, call>>
  BY DEF Refuses
<1>2. /\ attempt' \in [Attempts -> AttemptRecs]
      /\ \A b \in Attempts : /\ attempt'[b].at = IF b = a /\ attempt[a].at = "connecting"
                                                    THEN "rejected" ELSE attempt[b].at
                             /\ attempt'[b].aborted = attempt[b].aborted
                             /\ attempt'[b].fault = IF b = a /\ attempt[a].at = "connecting"
                                                       THEN "failed" ELSE attempt[b].fault
  <2>1. attempt \in [Attempts -> AttemptRecs]
    BY <1>0 DEF Shapes
  <2>2. CASE attempt[a].at = "connecting"
    <3>1. attempt' = [attempt EXCEPT ![a].at = "rejected", ![a].fault = "failed"]
      BY <2>2 DEF Refuses
    <3>2. /\ attempt' \in [Attempts -> AttemptRecs]
         /\ \A b \in Attempts : /\ attempt'[b].at = IF b = a THEN "rejected" ELSE attempt[b].at
                                /\ attempt'[b].aborted = attempt[b].aborted
                                /\ attempt'[b].fault = IF b = a THEN "failed" ELSE attempt[b].fault
      BY <2>1, <3>1, AttemptFails
    <3>. QED BY <2>2, <3>2
  <2>3. CASE attempt[a].at # "connecting"
    BY <2>1, <2>3 DEF Refuses
  <2>. QED BY <2>2, <2>3
<1>3. \A b \in Attempts : link'[b] = IF b = a THEN "closed" ELSE link[b]
  BY <1>0 DEF Shapes, Refuses
<1>4. link[a] = "opening" /\ Quiet
  BY DEF Refuses
<1>5. Shapes'
  BY <1>0, <1>2 DEF Shapes, Refuses
<1>6. NothingBeforeStart'
  BY <1>0, <1>1 DEF NothingBeforeStart, At
<1>7. OneAtATime'
  BY <1>0, <1>1, <1>2, <1>3, <1>4 DEF OneAtATime, Live, At
<1>8. LinksFollow'
  BY <1>0, <1>1, <1>2, <1>3, <1>4 DEF LinksFollow, At
<1>9. ToolsFollow'
  BY <1>0, <1>1 DEF ToolsFollow, At
<1>10. NothingIsLeftOpen'
  BY <1>0, <1>1, <1>2, <1>3 DEF NothingIsLeftOpen, At
<1>11. AttemptsEnd'
  BY <1>0, <1>1, <1>2 DEF AttemptsEnd
<1>12. GivenUp'
  BY <1>0, <1>1, <1>2 DEF GivenUp, Live, At
<1>13. WaitsEnd'
  BY <1>0, <1>1, <1>2, <1>4 DEF WaitsEnd, Live, Unrun, At, Settled, Quiet, Attempts
<1>14. WordsCount'
  BY <1>0, <1>1, <1>2 DEF WordsCount, WaitsEnd, Live, Unrun, Wanting, At
<1>. QED BY <1>5, <1>6, <1>7, <1>8, <1>9, <1>10, <1>11, <1>12, <1>13, <1>14 DEF ConnectedInv

\* Nothing has come in time.
LEMMA TimesOutKeeps ==
    ASSUME McpServersAssumption, OneStart, ConnectedInv, NEW a \in Attempts, TimesOut(a)
    PROVE  ConnectedInv'
<1>0. /\ Shapes /\ NothingBeforeStart /\ OneAtATime /\ LinksFollow /\ ToolsFollow
      /\ NothingIsLeftOpen /\ AttemptsEnd /\ GivenUp /\ WaitsEnd /\ WordsCount
  BY DEF ConnectedInv
<1>1. UNCHANGED <<registry, enabled, connection, tools, error, connecting, link, call>>
  BY DEF TimesOut
<1>2. /\ attempt' \in [Attempts -> AttemptRecs]
      /\ \A b \in Attempts : /\ attempt'[b].at = IF b = a THEN "rejected" ELSE attempt[b].at
                             /\ attempt'[b].aborted = attempt[b].aborted
                             /\ attempt'[b].fault = IF b = a THEN "failed" ELSE attempt[b].fault
  <2>1. attempt \in [Attempts -> AttemptRecs]
    BY <1>0 DEF Shapes
  <2>2. attempt' = [attempt EXCEPT ![a].at = "rejected", ![a].fault = "failed"]
    BY DEF TimesOut
  <2>. QED BY <2>1, <2>2, AttemptFails
<1>3. Shapes'
  BY <1>0, <1>1, <1>2 DEF Shapes
<1>4. NothingBeforeStart'
  BY <1>0, <1>1 DEF NothingBeforeStart, At
<1>5. OneAtATime'
  BY <1>0, <1>2 DEF OneAtATime, TimesOut, Live, At
<1>6. LinksFollow'
  BY <1>0, <1>2 DEF LinksFollow, TimesOut, At
<1>7. ToolsFollow'
  BY <1>0, <1>1 DEF ToolsFollow, At
<1>8. NothingIsLeftOpen'
  BY <1>0, <1>2 DEF NothingIsLeftOpen, TimesOut, At
<1>9. AttemptsEnd'
  BY <1>0, <1>1, <1>2 DEF AttemptsEnd
<1>10. GivenUp'
  BY <1>0, <1>2 DEF GivenUp, TimesOut, Live, At
<1>11. WaitsEnd'
  BY <1>0, <1>2 DEF WaitsEnd, TimesOut, Live, Unrun, At, Settled, Quiet, Attempts
<1>12. WordsCount'
  <2>1. \A j \in Calls : Wanting(j) => Wanting(j)'
    <3>1. attempt[a].at = "connecting"
      BY DEF TimesOut
    <3>. QED BY <1>0, <1>1, <1>2, <3>1 DEF WaitsEnd, Wanting, Live, At
  <2>2. \A j \in Calls : ~(At(j, "joined") /\ Unrun(j))
    BY DEF TimesOut, Quiet, Unrun, At, Settled
  <2>3. \A j \in Calls : ~(At(j, "joined") /\ Unrun(j))'
    BY <1>0, <1>1, <1>2, <2>2 DEF WaitsEnd, Unrun, At
  <2>. QED BY <1>0, <1>1, <2>1, <2>2, <2>3 DEF WordsCount
<1>. QED BY <1>3, <1>4, <1>5, <1>6, <1>7, <1>8, <1>9, <1>10, <1>11, <1>12 DEF ConnectedInv

\* What has come is wanted, and there is no other.
LEMMA RegisterKeeps ==
    ASSUME McpServersAssumption, OneStart, ConnectedInv, NEW a \in Attempts, Register(a)
    PROVE  ConnectedInv'
<1>0. /\ Shapes /\ NothingBeforeStart /\ OneAtATime /\ LinksFollow /\ ToolsFollow
      /\ NothingIsLeftOpen /\ AttemptsEnd /\ GivenUp /\ WaitsEnd /\ WordsCount
  BY DEF ConnectedInv
<1>1. UNCHANGED <<registry, enabled, connecting, link, call>>
  BY DEF Register
<1>2. /\ attempt' \in [Attempts -> AttemptRecs]
      /\ \A b \in Attempts : /\ attempt'[b].at = IF b = a THEN "over" ELSE attempt[b].at
                             /\ attempt'[b].aborted = attempt[b].aborted
                             /\ attempt'[b].fault = attempt[b].fault
  <2>1. attempt \in [Attempts -> AttemptRecs]
    BY <1>0 DEF Shapes
  <2>2. attempt' = [attempt EXCEPT ![a].at = "over"] /\ "over" \in Ends
    BY DEF Register, Ends
  <2>. QED BY <2>1, <2>2, AttemptMoves
<1>3. Shapes'
  BY <1>0, <1>2 DEF Shapes, Register, Faults, McpServersAssumption, Attempts
<1>4. NothingBeforeStart'
  BY <1>0 DEF NothingBeforeStart, OneAtATime, Register, At, Live, Attempts
<1>5. OneAtATime'
  BY <1>0 DEF OneAtATime, Register, Live, At
<1>6. LinksFollow'
  BY <1>0, <1>2 DEF LinksFollow, Register, At
<1>7. ToolsFollow'
  BY <1>0 DEF ToolsFollow, OneAtATime, Register, At, Wanted, Live, Attempts
<1>8. NothingIsLeftOpen'
  BY <1>0 DEF NothingIsLeftOpen, OneAtATime, AttemptsEnd, Register, At, Wanted, Live, Attempts
<1>9. AttemptsEnd'
  BY <1>0, <1>2 DEF AttemptsEnd, OneAtATime, Register, Live, Attempts
<1>10. GivenUp'
  BY <1>0 DEF GivenUp, OneAtATime, Register, Live, At, Wanted, Attempts
<1>11. WaitsEnd'
  BY <1>0 DEF WaitsEnd, Register, Live, Unrun, At
<1>12. WordsCount'
  BY <1>0 DEF WordsCount, OneAtATime, Register, Live, Unrun, Wanting, At, Attempts
<1>. QED BY <1>3, <1>4, <1>5, <1>6, <1>7, <1>8, <1>9, <1>10, <1>11, <1>12 DEF ConnectedInv

\* What has come is not wanted any more.
LEMMA DiscardKeeps ==
    ASSUME McpServersAssumption, OneStart, ConnectedInv, NEW a \in Attempts, Discard(a)
    PROVE  ConnectedInv'
<1>0. /\ Shapes /\ NothingBeforeStart /\ OneAtATime /\ LinksFollow /\ ToolsFollow
      /\ NothingIsLeftOpen /\ AttemptsEnd /\ GivenUp /\ WaitsEnd /\ WordsCount
  BY DEF ConnectedInv
<1>1. UNCHANGED <<registry, enabled, connection, tools, error, connecting, link, call>>
  BY DEF Discard
<1>2. /\ attempt' \in [Attempts -> AttemptRecs]
      /\ \A b \in Attempts : /\ attempt'[b].at = IF b = a THEN "closing" ELSE attempt[b].at
                             /\ attempt'[b].aborted = attempt[b].aborted
                             /\ attempt'[b].fault = attempt[b].fault
  <2>1. attempt \in [Attempts -> AttemptRecs]
    BY <1>0 DEF Shapes
  <2>2. attempt' = [attempt EXCEPT ![a].at = "closing"] /\ "closing" \in Ends
    BY DEF Discard, Ends
  <2>. QED BY <2>1, <2>2, AttemptMoves
<1>3. Shapes'
  BY <1>0, <1>1, <1>2 DEF Shapes
<1>4. NothingBeforeStart'
  BY <1>0, <1>1 DEF NothingBeforeStart, At
<1>5. OneAtATime'
  BY <1>0 DEF OneAtATime, Discard, Live, At
<1>6. LinksFollow'
  BY <1>0 DEF LinksFollow, Discard, At
<1>7. ToolsFollow'
  BY <1>0, <1>1 DEF ToolsFollow, At
<1>8. NothingIsLeftOpen'
  BY <1>0, <1>1, <1>2 DEF NothingIsLeftOpen, At
<1>9. AttemptsEnd'
  BY <1>0 DEF AttemptsEnd, OneAtATime, GivenUp, Discard, Wanted, Live, Attempts
<1>10. GivenUp'
  BY <1>0 DEF GivenUp, Discard, Live, At
<1>11. WaitsEnd'
  BY <1>0 DEF WaitsEnd, Discard, Live, Unrun, At
<1>12. WordsCount'
  BY <1>0 DEF WordsCount, Discard, Live, Unrun, Wanting, At
<1>. QED BY <1>3, <1>4, <1>5, <1>6, <1>7, <1>8, <1>9, <1>10, <1>11, <1>12 DEF ConnectedInv

\* It is closed.
LEMMA DiscardedKeeps ==
    ASSUME McpServersAssumption, OneStart, ConnectedInv, NEW a \in Attempts, Discarded(a)
    PROVE  ConnectedInv'
<1>0. /\ Shapes /\ NothingBeforeStart /\ OneAtATime /\ LinksFollow /\ ToolsFollow
      /\ NothingIsLeftOpen /\ AttemptsEnd /\ GivenUp /\ WaitsEnd /\ WordsCount
  BY DEF ConnectedInv
<1>1. UNCHANGED <<registry, enabled, connection, tools, error, connecting, call>>
  BY DEF Discarded
<1>2. /\ attempt' \in [Attempts -> AttemptRecs]
      /\ \A b \in Attempts : /\ attempt'[b].at = IF b = a THEN "over" ELSE attempt[b].at
                             /\ attempt'[b].aborted = attempt[b].aborted
                             /\ attempt'[b].fault = attempt[b].fault
  <2>1. attempt \in [Attempts -> AttemptRecs]
    BY <1>0 DEF Shapes
  <2>2. attempt' = [attempt EXCEPT ![a].at = "over"] /\ "over" \in Ends
    BY DEF Discarded, Ends
  <2>. QED BY <2>1, <2>2, AttemptMoves
<1>3. \A b \in Attempts : link'[b] = IF b = a THEN "closed" ELSE link[b]
  BY <1>0 DEF Shapes, Discarded
<1>4. Shapes'
  BY <1>0, <1>2 DEF Shapes, Discarded
<1>5. NothingBeforeStart'
  BY <1>0, <1>1 DEF NothingBeforeStart, At
<1>6. OneAtATime'
  BY <1>0 DEF OneAtATime, Discarded, Live, At
<1>7. LinksFollow'
  BY <1>0, <1>2 DEF LinksFollow, Discarded, At
<1>8. ToolsFollow'
  BY <1>0, <1>1 DEF ToolsFollow, At
<1>9. NothingIsLeftOpen'
  BY <1>0, <1>1, <1>2, <1>3 DEF NothingIsLeftOpen, At
<1>10. AttemptsEnd'
  BY <1>0 DEF AttemptsEnd, Discarded
<1>11. GivenUp'
  BY <1>0 DEF GivenUp, Discarded, Live, At
<1>12. WaitsEnd'
  BY <1>0 DEF WaitsEnd, Discarded, Live, Unrun, At
<1>13. WordsCount'
  BY <1>0 DEF WordsCount, Discarded, Live, Unrun, Wanting, At
<1>. QED BY <1>4, <1>5, <1>6, <1>7, <1>8, <1>9, <1>10, <1>11, <1>12, <1>13 DEF ConnectedInv

\* An attempt has ended: who waits for it will hear of it, and if it was aborted and somebody
\* wants the server again, there is one who waits behind it.
LEMMA SettleKeeps ==
    ASSUME McpServersAssumption, OneStart, ConnectedInv, NEW a \in Attempts, Settle(a)
    PROVE  ConnectedInv'
<1>0. /\ Shapes /\ NothingBeforeStart /\ OneAtATime /\ LinksFollow /\ ToolsFollow
      /\ NothingIsLeftOpen /\ AttemptsEnd /\ GivenUp /\ WaitsEnd /\ WordsCount
  BY DEF ConnectedInv
<1>1. UNCHANGED <<registry, enabled, connection, tools, error, link, call>>
  BY DEF Settle
<1>2. /\ attempt' \in [Attempts -> AttemptRecs]
      /\ \A b \in Attempts : /\ attempt'[b].at = IF b = a THEN "settled" ELSE attempt[b].at
                             /\ attempt'[b].aborted = attempt[b].aborted
                             /\ attempt'[b].fault = attempt[b].fault
  <2>1. attempt \in [Attempts -> AttemptRecs]
    BY <1>0 DEF Shapes
  <2>2. attempt' = [attempt EXCEPT ![a].at = "settled"] /\ "settled" \in Ends
    BY DEF Settle, Ends
  <2>. QED BY <2>1, <2>2, AttemptMoves
<1>3. Shapes'
  BY <1>0, <1>2 DEF Shapes, Settle, McpServersAssumption
<1>4. NothingBeforeStart'
  BY <1>0 DEF NothingBeforeStart, Settle, At
<1>5. OneAtATime'
  BY <1>0, <1>2 DEF OneAtATime, Settle, Live, At, Attempts
<1>6. LinksFollow'
  BY <1>0, <1>1, <1>2 DEF LinksFollow, At
<1>7. ToolsFollow'
  BY <1>0, <1>1 DEF ToolsFollow, At
<1>8. NothingIsLeftOpen'
  BY <1>0 DEF NothingIsLeftOpen, Settle, At
<1>9. AttemptsEnd'
  BY <1>0, <1>1, <1>2 DEF AttemptsEnd
<1>10. GivenUp'
  BY <1>0, <1>1, <1>2 DEF GivenUp, Live, At
<1>11. WaitsEnd'
  BY <1>0 DEF WaitsEnd, OneAtATime, GivenUp, Settle, Live, Unrun, At, Attempts
<1>12. WordsCount'
  <2> SUFFICES ASSUME registry, enabled
               PROVE  /\ \/ connection # 0 \/ error = "failed"
                         \/ \E j \in Calls : Wanting(j)'
                         \/ \E j \in Calls : At(j, "joined")' /\ Unrun(j)'
                                             /\ attempt'[call'[j].of].fault = "failed"
                      /\ \A j \in Calls :
                            At(j, "joined")' /\ Unrun(j)'
                            /\ attempt'[call'[j].of].fault = "aborted" =>
                               connection # 0 \/ \E i \in Calls : Wanting(i)'
    BY <1>1 DEF WordsCount
  <2>1. Live(a) /\ connecting = a /\ attempt[a].at \in {"over", "rejected"}
    BY <1>0 DEF Settle, OneAtATime, Live
  <2>2. \A j \in Calls : At(j, "chained") => Wanting(j)'
    BY <1>0, <1>1, <1>2 DEF Wanting, At
  <2>3. ASSUME NEW j \in Calls, At(j, "joined"), Unrun(j) \/ call[j].of = a
        PROVE  At(j, "joined")' /\ Unrun(j)' /\ attempt'[call'[j].of].fault = attempt[call[j].of].fault
    BY <1>0, <1>1, <1>2, <2>3 DEF At, Unrun, WaitsEnd
  <2>4. ASSUME NEW j \in Calls, Wanting(j), ~At(j, "chained")
        PROVE  At(j, "joined") /\ call[j].of = a /\ ~attempt[a].aborted
    BY <1>0, <2>1, <2>4 DEF Wanting, OneAtATime, WaitsEnd
  <2>5. ASSUME NEW j \in Calls, Wanting(j)
        PROVE  \/ connection # 0
               \/ \E i \in Calls : Wanting(i)'
               \/ \E i \in Calls : At(i, "joined")' /\ Unrun(i)'
                                   /\ attempt'[call'[i].of].fault = "failed"
    <3>1. CASE At(j, "chained")
      BY <2>2, <3>1
    <3>2. CASE ~At(j, "chained")
      <4>1. At(j, "joined") /\ call[j].of = a /\ ~attempt[a].aborted
        BY <2>4, <2>5, <3>2
      <4>2. CASE attempt[a].at = "over"
        BY <1>0, <4>1, <4>2 DEF AttemptsEnd, Attempts
      <4>3. CASE attempt[a].at = "rejected"
        <5>1. attempt[a].fault = "failed"
          BY <1>0, <4>1, <4>3 DEF AttemptsEnd
        <5>. QED BY <2>3, <4>1, <5>1
      <4>. QED BY <2>1, <4>2, <4>3
    <3>. QED BY <3>1, <3>2
  <2>6. \/ connection # 0 \/ error = "failed"
        \/ \E j \in Calls : Wanting(j)'
        \/ \E j \in Calls : At(j, "joined")' /\ Unrun(j)' /\ attempt'[call'[j].of].fault = "failed"
    BY <1>0, <2>3, <2>5 DEF WordsCount
  <2>7. ASSUME NEW j \in Calls, At(j, "joined")', Unrun(j)', attempt'[call'[j].of].fault = "aborted"
        PROVE  connection # 0 \/ \E i \in Calls : Wanting(i)'
    <3>1. At(j, "joined") /\ call[j].of \in Attempts /\ attempt[call[j].of].fault = "aborted"
      BY <1>0, <1>1, <1>2, <2>7 DEF At, WaitsEnd
    <3>2. CASE call[j].of = a
      <4>1. attempt[a].aborted
        BY <1>0, <3>1, <3>2 DEF AttemptsEnd
      <4>2. \E i \in Calls : At(i, "chained")
        BY <1>0, <2>1, <4>1 DEF GivenUp
      <4>. QED BY <2>2, <4>2
    <3>3. CASE call[j].of # a
      <4>1. Unrun(j)
        BY <1>0, <1>1, <1>2, <2>7, <3>1, <3>3 DEF Unrun
      <4>2. attempt[a].aborted
        BY <1>0, <2>1, <4>1 DEF WaitsEnd
      <4>3. connection # 0 \/ \E i \in Calls : Wanting(i)
        BY <1>0, <3>1, <4>1 DEF WordsCount
      <4>. QED BY <2>2, <2>4, <4>2, <4>3
    <3>. QED BY <3>2, <3>3
  <2>. QED BY <2>6, <2>7
<1>. QED BY <1>3, <1>4, <1>5, <1>6, <1>7, <1>8, <1>9, <1>10, <1>11, <1>12 DEF ConnectedInv

\* connect() waits for the attempt there is, or tries again.
Waits(k) ==
    /\ connecting # 0
    /\ UNCHANGED <<attempt, link, connecting>>
    /\ call' \in [Calls -> CallRecs]
    /\ \A j \in Calls :
          /\ call'[j].at = IF j # k THEN call[j].at
                           ELSE IF attempt[connecting].aborted THEN "chained" ELSE "joined"
          /\ call'[j].of = IF j = k THEN connecting ELSE call[j].of
          /\ call'[j].conn = call[j].conn

\* It tries again.
Tries(k, a) ==
    /\ connecting = 0 /\ connecting' = a
    /\ attempt[a].at = "none"
    /\ attempt' \in [Attempts -> AttemptRecs]
    /\ \A b \in Attempts : /\ attempt'[b].at = IF b = a THEN "connecting" ELSE attempt[b].at
                           /\ attempt'[b].aborted = attempt[b].aborted
                           /\ attempt'[b].fault = attempt[b].fault
    /\ link' \in [Attempts -> {"none", "opening", "open", "late", "closed"}]
    /\ \A b \in Attempts : link'[b] = IF b = a THEN "opening" ELSE link[b]
    /\ call' \in [Calls -> CallRecs]
    /\ \A j \in Calls : /\ call'[j].at = IF j = k THEN "joined" ELSE call[j].at
                        /\ call'[j].of = IF j = k THEN a ELSE call[j].of
                        /\ call'[j].conn = call[j].conn

\* connect() does one or the other.
LEMMA ConnectWaitsOrTries ==
    ASSUME McpServersAssumption, Shapes, NEW k \in Calls, Connect(k)
    PROVE  Waits(k) \/ \E a \in Attempts : Tries(k, a)
<1>1. call \in [Calls -> CallRecs] /\ attempt \in [Attempts -> AttemptRecs]
  BY DEF Shapes
<1>2. CASE connecting # 0
  <2> DEFINE p == IF attempt[connecting].aborted THEN "chained" ELSE "joined"
  <2>1. call' = Waiting(call, k, p, connecting) /\ UNCHANGED <<attempt, link, connecting>>
    BY <1>2 DEF Connect, Waiting
  <2>2. p \in Places /\ connecting \in 0..MaxAttempts
    BY DEF Places, Shapes
  <2>3. p = IF attempt[connecting].aborted THEN "chained" ELSE "joined"
    OBVIOUS
  <2> HIDE DEF p
  <2>4. /\ call' \in [Calls -> CallRecs]
        /\ \A j \in Calls : /\ call'[j].at = IF j = k THEN p ELSE call[j].at
                            /\ call'[j].of = IF j = k THEN connecting ELSE call[j].of
                            /\ call'[j].conn = call[j].conn
    BY <1>1, <2>1, <2>2, CallWaits
  <2>5. Waits(k)
    BY <1>2, <2>1, <2>3, <2>4 DEF Waits
  <2>. QED BY <2>5
<1>3. CASE connecting = 0
  <2>1. PICK a \in Attempts :
           /\ attempt[a].at = "none"
           /\ attempt' = [attempt EXCEPT ![a].at = "connecting"]
           /\ link' = [link EXCEPT ![a] = "opening"]
           /\ connecting' = a
           /\ call' = Waiting(call, k, "joined", a)
    BY <1>3 DEF Connect, Waiting
  <2>2. "joined" \in Places /\ a \in 0..MaxAttempts /\ "connecting" \in Ends
    BY McpServersAssumption DEF Places, Ends, Attempts, McpServersAssumption
  <2>3. /\ call' \in [Calls -> CallRecs]
        /\ \A j \in Calls : /\ call'[j].at = IF j = k THEN "joined" ELSE call[j].at
                            /\ call'[j].of = IF j = k THEN a ELSE call[j].of
                            /\ call'[j].conn = call[j].conn
    BY <1>1, <2>1, <2>2, CallWaits
  <2>4. /\ attempt' \in [Attempts -> AttemptRecs]
        /\ \A b \in Attempts : /\ attempt'[b].at = IF b = a THEN "connecting" ELSE attempt[b].at
                               /\ attempt'[b].aborted = attempt[b].aborted
                               /\ attempt'[b].fault = attempt[b].fault
    BY <1>1, <2>1, <2>2, AttemptMoves
  <2>5. /\ link' \in [Attempts -> {"none", "opening", "open", "late", "closed"}]
        /\ \A b \in Attempts : link'[b] = IF b = a THEN "opening" ELSE link[b]
    BY <2>1 DEF Shapes
  <2>6. Tries(k, a)
    BY <1>3, <2>1, <2>3, <2>4, <2>5 DEF Tries
  <2>. QED BY <2>6
<1>. QED BY <1>2, <1>3

\* Who may call connect(), and when: a caller that begins, or one that has waited for an attempt
\* which was aborted; of a server that is on, in a manager that was started, with no connection
\* unless an attempt is still under way.
MayConnect(k) ==
    /\ At(k, "new") \/ (At(k, "chained") /\ Unrun(k))
    /\ registry' /\ enabled'
    /\ ~registry => connecting = 0 /\ \A j \in Calls : ~At(j, "draining")
    /\ connecting = 0 => connection = 0
    /\ \A j \in Calls : KindOf[j] = "start" /\ At(j, "new") => j = k
    /\ UNCHANGED <<connection, tools, error>>

\* It waits.
LEMMA WaitsKeeps ==
    ASSUME McpServersAssumption, OneStart, ConnectedInv, NEW k \in Calls, MayConnect(k), Waits(k)
    PROVE  ConnectedInv'
<1>0. /\ Shapes /\ NothingBeforeStart /\ OneAtATime /\ LinksFollow /\ ToolsFollow
      /\ NothingIsLeftOpen /\ AttemptsEnd /\ GivenUp /\ WaitsEnd /\ WordsCount
  BY DEF ConnectedInv
<1>1. /\ UNCHANGED <<connection, tools, error, attempt, link, connecting>>
      /\ registry /\ registry' /\ enabled' /\ connecting # 0
      /\ At(k, "new") \/ At(k, "chained")
      /\ \A j \in Calls : KindOf[j] = "start" /\ At(j, "new") => j = k
  BY DEF MayConnect, Waits
<1>2. /\ call' \in [Calls -> CallRecs]
      /\ \A j \in Calls :
            /\ call'[j].at = IF j # k THEN call[j].at
                             ELSE IF attempt[connecting].aborted THEN "chained" ELSE "joined"
            /\ call'[j].of = IF j = k THEN connecting ELSE call[j].of
            /\ call'[j].conn = call[j].conn
  BY DEF Waits
<1>3. connecting \in Attempts /\ Live(connecting)
  BY <1>0, <1>1, McpServersAssumption DEF Shapes, Attempts, McpServersAssumption, OneAtATime
<1>4. Shapes'
  BY <1>0, <1>1, <1>2 DEF Shapes
<1>5. NothingBeforeStart'
  BY <1>1, <1>2 DEF NothingBeforeStart, At
<1>6. OneAtATime'
  BY <1>0, <1>1, <1>2 DEF OneAtATime, Live, At
<1>7. LinksFollow'
  BY <1>0, <1>1, <1>2 DEF LinksFollow, At
<1>8. ToolsFollow'
  BY <1>0, <1>1, <1>2 DEF ToolsFollow, At
<1>9. NothingIsLeftOpen'
  BY <1>0, <1>1, <1>2 DEF NothingIsLeftOpen, At
<1>10. AttemptsEnd'
  BY <1>0, <1>1 DEF AttemptsEnd
<1>11. GivenUp'
  BY <1>0, <1>1, <1>2 DEF GivenUp, OneAtATime, Live, At
<1>12. WaitsEnd'
  BY <1>0, <1>1, <1>2, <1>3 DEF WaitsEnd, OneAtATime, Live, Unrun, At
<1>13. WordsCount'
  <2>1. Wanting(k)'
    BY <1>1, <1>2, <1>3 DEF Wanting, Live, At
  <2>. QED BY <2>1 DEF WordsCount
<1>. QED BY <1>4, <1>5, <1>6, <1>7, <1>8, <1>9, <1>10, <1>11, <1>12, <1>13 DEF ConnectedInv

\* It tries.
LEMMA TriesKeeps ==
    ASSUME McpServersAssumption, OneStart, ConnectedInv, NEW k \in Calls, MayConnect(k),
           NEW a \in Attempts, Tries(k, a)
    PROVE  ConnectedInv'
<1>0. /\ Shapes /\ NothingBeforeStart /\ OneAtATime /\ LinksFollow /\ ToolsFollow
      /\ NothingIsLeftOpen /\ AttemptsEnd /\ GivenUp /\ WaitsEnd /\ WordsCount
  BY DEF ConnectedInv
<1>1. /\ UNCHANGED <<connection, tools, error>>
      /\ registry' /\ enabled' /\ connecting = 0 /\ connecting' = a /\ connection = 0
      /\ attempt[a].at = "none"
      /\ At(k, "new") \/ At(k, "chained")
      /\ \A j \in Calls : KindOf[j] = "start" /\ At(j, "new") => j = k
  BY DEF MayConnect, Tries
<1>2. /\ call' \in [Calls -> CallRecs]
      /\ \A j \in Calls : /\ call'[j].at = IF j = k THEN "joined" ELSE call[j].at
                          /\ call'[j].of = IF j = k THEN a ELSE call[j].of
                          /\ call'[j].conn = call[j].conn
  BY DEF Tries
<1>3. /\ attempt' \in [Attempts -> AttemptRecs]
      /\ \A b \in Attempts : /\ attempt'[b].at = IF b = a THEN "connecting" ELSE attempt[b].at
                             /\ attempt'[b].aborted = attempt[b].aborted
                             /\ attempt'[b].fault = attempt[b].fault
  BY DEF Tries
<1>4. /\ link' \in [Attempts -> {"none", "opening", "open", "late", "closed"}]
      /\ \A b \in Attempts : link'[b] = IF b = a THEN "opening" ELSE link[b]
  BY DEF Tries
<1>5. a # 0 /\ ~attempt[a].aborted /\ attempt[a].fault = "none"
  BY <1>0, <1>1, McpServersAssumption DEF Attempts, McpServersAssumption, OneAtATime
<1>6. \A b \in Attempts : ~Live(b) /\ (Live(b)' <=> b = a)
  <2>1. \A b \in Attempts : b # 0
    BY McpServersAssumption DEF Attempts, McpServersAssumption
  <2>2. \A b \in Attempts : ~Live(b)
    BY <1>0, <1>1, <2>1 DEF OneAtATime
  <2>. QED BY <1>3, <2>2 DEF Live
<1>7. Shapes'
  <2>1. a \in 0..MaxAttempts
    BY McpServersAssumption DEF Attempts, McpServersAssumption
  <2>. QED BY <1>0, <1>1, <1>2, <1>3, <1>4, <2>1 DEF Shapes
<1>8. NothingBeforeStart'
  BY <1>1, <1>2 DEF NothingBeforeStart, At
<1>9. OneAtATime'
  BY <1>0, <1>1, <1>2, <1>3, <1>4, <1>6 DEF OneAtATime, At
<1>10. LinksFollow'
  BY <1>0, <1>1, <1>2, <1>3, <1>4, <1>5 DEF LinksFollow, At
<1>11. ToolsFollow'
  <2>1. \A j \in Calls : ~At(j, "draining")'
    BY <1>0, <1>2 DEF ToolsFollow, At, MayConnect
  <2>. QED BY <1>0, <1>1, <2>1 DEF ToolsFollow
<1>12. NothingIsLeftOpen'
  BY <1>0, <1>1, <1>2, <1>3, <1>4 DEF NothingIsLeftOpen, At
<1>13. AttemptsEnd'
  BY <1>0, <1>1, <1>3, <1>5 DEF AttemptsEnd
<1>14. GivenUp'
  BY <1>1, <1>3, <1>5, <1>6 DEF GivenUp
<1>15. WaitsEnd'
  BY <1>0, <1>1, <1>2, <1>3, <1>6 DEF WaitsEnd, Unrun, At
<1>16. WordsCount'
  <2>1. Wanting(k)'
    BY <1>2, <1>3, <1>5, <1>6 DEF Wanting, At
  <2>. QED BY <2>1 DEF WordsCount
<1>. QED BY <1>7, <1>8, <1>9, <1>10, <1>11, <1>12, <1>13, <1>14, <1>15, <1>16 DEF ConnectedInv

\* So it goes with everybody who calls connect().
LEMMA ConnectKeeps ==
    ASSUME McpServersAssumption, OneStart, ConnectedInv, NEW k \in Calls, MayConnect(k), Connect(k)
    PROVE  ConnectedInv'
<1>1. Shapes
  BY DEF ConnectedInv
<1>. QED BY <1>1, ConnectWaitsOrTries, WaitsKeeps, TriesKeeps

\* The runtime starts its services.
LEMMA StartKeeps ==
    ASSUME McpServersAssumption, OneStart, ConnectedInv, NEW k \in Calls, Start(k)
    PROVE  ConnectedInv'
<1>0. /\ Shapes /\ NothingBeforeStart /\ OneAtATime /\ LinksFollow /\ ToolsFollow
      /\ NothingIsLeftOpen /\ AttemptsEnd /\ GivenUp /\ WaitsEnd /\ WordsCount
  BY DEF ConnectedInv
<1>1. /\ KindOf[k] = "start" /\ At(k, "new") /\ registry' = TRUE
      /\ UNCHANGED <<enabled, connection, tools, error>>
  BY DEF Start
<1>2. /\ ~registry /\ connection = 0 /\ connecting = 0
      /\ \A j \in Calls : call[j].at \in {"new", "done"}
  BY <1>0, <1>1 DEF NothingBeforeStart
<1>3. \A j \in Calls : KindOf[j] = "start" => j = k
  BY <1>1 DEF OneStart
<1>4. CASE enabled
  <2>1. Connect(k)
    BY <1>4 DEF Start
  <2>2. MayConnect(k)
    BY <1>1, <1>2, <1>3, <1>4 DEF MayConnect, At
  <2>. QED BY <2>1, <2>2, ConnectKeeps
<1>5. CASE ~enabled
  <2>1. UNCHANGED <<attempt, link, connecting>>
    BY <1>5 DEF Start
  <2>2. /\ call' \in [Calls -> CallRecs]
        /\ \A j \in Calls : /\ call'[j].at = IF j = k THEN "done" ELSE call[j].at
                            /\ call'[j].of = call[j].of
                            /\ call'[j].conn = call[j].conn
    <3>1. call \in [Calls -> CallRecs]
      BY <1>0 DEF Shapes
    <3>2. call' = [call EXCEPT ![k].at = "done"] /\ "done" \in Places
      BY <1>5 DEF Start, To, Places
    <3>. QED BY <3>1, <3>2, CallMoves
  <2>3. \A b \in Attempts : ~Live(b) /\ ~Live(b)'
    <3>1. \A b \in Attempts : b # 0
      BY McpServersAssumption DEF Attempts, McpServersAssumption
    <3>. QED BY <1>0, <1>2, <2>1, <3>1 DEF OneAtATime, Live
  <2>4. Shapes'
    BY <1>0, <1>1, <2>1, <2>2 DEF Shapes
  <2>5. NothingBeforeStart'
    BY <1>3, <2>2 DEF NothingBeforeStart, At
  <2>6. OneAtATime'
    BY <1>0, <1>2, <2>1, <2>3 DEF OneAtATime
  <2>7. LinksFollow'
    BY <1>0, <1>1, <1>2, <2>1, <2>2 DEF LinksFollow, At
  <2>8. ToolsFollow'
    BY <1>0, <1>1, <1>2, <2>2 DEF ToolsFollow, At
  <2>9. NothingIsLeftOpen'
    BY <1>0, <1>1, <1>2, <2>1, <2>2 DEF NothingIsLeftOpen, At
  <2>10. AttemptsEnd'
    BY <1>0, <1>1, <2>1 DEF AttemptsEnd
  <2>11. GivenUp'
    BY <2>3 DEF GivenUp
  <2>12. WaitsEnd'
    BY <1>2, <2>2, <2>3 DEF WaitsEnd, Unrun, At
  <2>13. WordsCount'
    BY <1>1, <1>5 DEF WordsCount
  <2>. QED BY <2>4, <2>5, <2>6, <2>7, <2>8, <2>9, <2>10, <2>11, <2>12, <2>13 DEF ConnectedInv
<1>. QED BY <1>4, <1>5

\* Somebody switches the server on.
LEMMA EnableKeeps ==
    ASSUME McpServersAssumption, OneStart, ConnectedInv, NEW k \in Calls, Enable(k)
    PROVE  ConnectedInv'
<1>0. NothingBeforeStart /\ ToolsFollow
  BY DEF ConnectedInv
<1>1. /\ KindOf[k] = "enable" /\ At(k, "new") /\ registry /\ registry' /\ enabled' /\ Connect(k)
      /\ ~(enabled /\ connection # 0 /\ connecting = 0)
      /\ UNCHANGED <<connection, tools, error>>
  BY DEF Enable
<1>2. connecting = 0 => connection = 0
  BY <1>0, <1>1 DEF ToolsFollow
<1>3. \A j \in Calls : ~(KindOf[j] = "start" /\ At(j, "new"))
  BY <1>0, <1>1 DEF NothingBeforeStart
<1>4. MayConnect(k)
  BY <1>1, <1>2, <1>3 DEF MayConnect
<1>. QED BY <1>1, <1>4, ConnectKeeps

\* Who has waited behind an attempt that was aborted looks again.
LEMMA ChainedKeeps ==
    ASSUME McpServersAssumption, OneStart, ConnectedInv, NEW k \in Calls, Chained(k)
    PROVE  ConnectedInv'
<1>0. /\ Shapes /\ NothingBeforeStart /\ OneAtATime /\ LinksFollow /\ ToolsFollow
      /\ NothingIsLeftOpen /\ AttemptsEnd /\ GivenUp /\ WaitsEnd /\ WordsCount
  BY DEF ConnectedInv
<1>1. At(k, "chained") /\ UNCHANGED <<registry, enabled, connection, tools, error>>
  BY DEF Chained
<1>2. Unrun(k)
  <2>1. call[k].of \in Attempts
    BY <1>0, <1>1 DEF WaitsEnd
  <2>2. call[k].of # 0
    BY <2>1, McpServersAssumption DEF Attempts, McpServersAssumption
  <2>. QED BY <1>1, <2>2 DEF Chained, Settled, Unrun, At
<1>3. CASE enabled /\ registry
  <2>1. Connect(k)
    BY <1>3 DEF Chained
  <2>2. \A j \in Calls : ~(KindOf[j] = "start" /\ At(j, "new"))
    BY <1>0, <1>3 DEF NothingBeforeStart
  <2>3. connection = 0
    BY <1>0, <1>1, <1>2, <1>3 DEF WaitsEnd
  <2>4. MayConnect(k)
    BY <1>1, <1>2, <1>3, <2>2, <2>3 DEF MayConnect
  <2>. QED BY <2>1, <2>4, ConnectKeeps
<1>4. CASE ~(enabled /\ registry)
  <2>1. UNCHANGED <<attempt, link, connecting>>
    BY <1>4 DEF Chained
  <2>2. /\ call' \in [Calls -> CallRecs]
        /\ \A j \in Calls : /\ call'[j].at = IF j = k THEN "done" ELSE call[j].at
                            /\ call'[j].of = call[j].of
                            /\ call'[j].conn = call[j].conn
    <3>1. call \in [Calls -> CallRecs]
      BY <1>0 DEF Shapes
    <3>2. call' = [call EXCEPT ![k].at = "done"] /\ "done" \in Places
      BY <1>4 DEF Chained, To, Places
    <3>. QED BY <3>1, <3>2, CallMoves
  <2>3. Shapes'
    BY <1>0, <1>1, <2>1, <2>2 DEF Shapes
  <2>4. NothingBeforeStart'
    BY <1>0, <1>1, <2>1, <2>2 DEF NothingBeforeStart, At
  <2>5. OneAtATime'
    BY <1>0, <1>1, <2>1, <2>2 DEF OneAtATime, Live, At
  <2>6. LinksFollow'
    BY <1>0, <1>1, <2>1, <2>2 DEF LinksFollow, At
  <2>7. ToolsFollow'
    BY <1>0, <1>1, <2>2 DEF ToolsFollow, At
  <2>8. NothingIsLeftOpen'
    BY <1>0, <1>1, <2>1, <2>2 DEF NothingIsLeftOpen, At
  <2>9. AttemptsEnd'
    BY <1>0, <1>1, <2>1 DEF AttemptsEnd
  <2>10. GivenUp'
    BY <1>0, <1>1, <1>4, <2>1 DEF GivenUp, Live
  <2>11. WaitsEnd'
    BY <1>0, <1>1, <2>1, <2>2 DEF WaitsEnd, Live, Unrun, At
  <2>12. WordsCount'
    BY <1>1, <1>4 DEF WordsCount
  <2>. QED BY <2>3, <2>4, <2>5, <2>6, <2>7, <2>8, <2>9, <2>10, <2>11, <2>12 DEF ConnectedInv
<1>. QED BY <1>3, <1>4

-----------------------------------------------------------------------------
\* It holds in the beginning.
LEMMA InitConnected ==
    ASSUME McpServersAssumption, Init
    PROVE  ConnectedInv
<1>1. /\ \A a \in Attempts : /\ attempt[a].at = "none" /\ ~attempt[a].aborted
                             /\ attempt[a].fault = "none" /\ link[a] = "none"
      /\ \A k \in Calls : call[k].at = "new" /\ call[k].of = 0 /\ call[k].conn = 0
      /\ registry = FALSE /\ connection = 0 /\ tools = 0 /\ connecting = 0 /\ error = "none"
  BY DEF Init
<1>2. \A a \in Attempts : a # 0 /\ ~Live(a)
  BY <1>1, McpServersAssumption DEF Live, Attempts, McpServersAssumption
<1>3. Shapes
  <2>1. 0 \in 0..MaxAttempts
    BY McpServersAssumption DEF McpServersAssumption
  <2>2. attempt \in [Attempts -> AttemptRecs]
    BY DEF Init, AttemptRecs, Ends, Faults
  <2>3. call \in [Calls -> CallRecs]
    BY <2>1 DEF Init, CallRecs, Places
  <2>4. link \in [Attempts -> {"none", "opening", "open", "late", "closed"}]
    BY DEF Init
  <2>. QED BY <1>1, <2>1, <2>2, <2>3, <2>4 DEF Shapes, Init, Faults
<1>4. NothingBeforeStart
  BY <1>1 DEF NothingBeforeStart
<1>5. OneAtATime
  BY <1>1, <1>2 DEF OneAtATime
<1>6. LinksFollow /\ NothingIsLeftOpen /\ AttemptsEnd
  BY <1>1, <1>2 DEF LinksFollow, NothingIsLeftOpen, AttemptsEnd, At
<1>7. ToolsFollow
  BY <1>1 DEF ToolsFollow, At
<1>8. GivenUp /\ WaitsEnd
  BY <1>1, <1>2 DEF GivenUp, WaitsEnd, Unrun, At
<1>9. WordsCount
  BY <1>1 DEF WordsCount
<1>. QED BY <1>3, <1>4, <1>5, <1>6, <1>7, <1>8, <1>9 DEF ConnectedInv

\* Every step preserves it.
LEMMA NextKeepsConnected ==
    ASSUME McpServersAssumption, OneStart, ConnectedInv, [Next]_vars
    PROVE  ConnectedInv'
<1>1. ASSUME NEW k \in Calls,
             \/ Start(k) \/ NotStarted(k) \/ AlreadySo(k) \/ Enable(k) \/ Disable(k) \/ Stop(k)
             \/ Drain(k) \/ Closes(k) \/ Returns(k) \/ Joined(k) \/ Chained(k)
      PROVE  ConnectedInv'
  BY <1>1, StartKeeps, ReturningKeeps, EnableKeeps, DisableKeeps, StopKeeps, DrainKeeps,
     ClosesKeeps, JoinedKeeps, ChainedKeeps
<1>2. ASSUME NEW a \in Attempts,
             \/ Opens(a) \/ LateClose(a) \/ Refuses(a) \/ TimesOut(a)
             \/ Register(a) \/ Discard(a) \/ Discarded(a) \/ Settle(a)
      PROVE  ConnectedInv'
  BY <1>2, OpensKeeps, LateCloseKeeps, RefusesKeeps, TimesOutKeeps, RegisterKeeps,
     DiscardKeeps,
     DiscardedKeeps, SettleKeeps
<1>3. CASE UNCHANGED vars
  BY <1>3 DEF ConnectedInv, vars, Shapes, NothingBeforeStart, OneAtATime, LinksFollow,
     ToolsFollow,
     NothingIsLeftOpen, AttemptsEnd, GivenUp, WaitsEnd, WordsCount, Live, Unrun, Wanting, At
<1>. QED BY <1>1, <1>2, <1>3 DEF Next

\* It implies what the manager promises.
LEMMA ConnectedServes ==
    ASSUME McpServersAssumption, ConnectedInv
    PROVE  ServersInv
<1>0. /\ Shapes /\ OneAtATime /\ LinksFollow /\ ToolsFollow /\ NothingIsLeftOpen
      /\ WaitsEnd /\ WordsCount
  BY DEF ConnectedInv
<1>1. TypeOK
  <2>1. \A a \in Attempts : attempt[a] \in AttemptRecs
    BY <1>0 DEF Shapes
  <2>2. \A k \in Calls : call[k] \in CallRecs
    BY <1>0 DEF Shapes
  <2>3. \A a \in Attempts :
           attempt[a].at \in Ends /\ attempt[a].aborted \in BOOLEAN /\ attempt[a].fault \in Faults
    BY <2>1 DEF AttemptRecs
  <2>4. \A k \in Calls :
           call[k].at \in Places /\ call[k].of \in 0..MaxAttempts /\ call[k].conn \in 0..MaxAttempts
    BY <2>2 DEF CallRecs
  <2>. QED BY <1>0, <2>3, <2>4 DEF TypeOK, Shapes, Ends, Faults
<1>2. ToolsAreLive
  BY <1>0 DEF ToolsAreLive, ToolsFollow, LinksFollow, Shapes, Attempts
<1>3. OneAttempt
  BY <1>0 DEF OneAttempt, OneAtATime, Live
<1>4. LastWordHolds
  <2> SUFFICES ASSUME \A k \in Calls : call[k].at \in {"new", "done"}, registry
               PROVE  /\ enabled => connection # 0 \/ error = "failed"
                      /\ ~enabled => connection = 0 /\ connecting = 0
    BY DEF LastWordHolds
  <2>1. \A k \in Calls : ~At(k, "joined") /\ ~Wanting(k)
    BY DEF At, Wanting
  <2>2. enabled => connection # 0 \/ error = "failed"
    BY <1>0, <2>1 DEF WordsCount
  <2>3. connecting = 0 /\ (~enabled => connection = 0)
    BY <1>0, <2>1 DEF OneAtATime, ToolsFollow
  <2>. QED BY <2>2, <2>3
<1>. QED BY <1>0, <1>1, <1>2, <1>3, <1>4 DEF ServersInv

\* However often the server is switched on and off while an attempt to connect is under way:
\* the tools the model can see call the connection that is open and on record; a connection
\* that comes late is closed; two attempts are not made at once; and when nothing is under way
\* the last word has come true.
THEOREM ServersAreConnected ==
    ASSUME McpServersAssumption, OneStart
    PROVE  Spec => []ServersInv
<1>1. Init => ConnectedInv
  BY InitConnected
<1>2. ConnectedInv /\ [Next]_vars => ConnectedInv'
  BY NextKeepsConnected
<1>3. ConnectedInv => ServersInv
  BY ConnectedServes
<1>. QED BY <1>1, <1>2, <1>3, PTL DEF Spec

-----------------------------------------------------------------------------
\* What a command remembers.
CallersTyped ==
    caller \in [Callers -> [at : Browser!Places, login : Nat, rejected : Nat,
                            again : BOOLEAN, seen : Nat]]

\* The lock is held by the browser on its way, and by nobody else.
LockNamesTheRoute == \A c \in Callers : Browser!OnRoute(c) <=> lock = c

\* While a browser is on its way there is no login, and a complete one is the last.
FileIsTheLast ==
    /\ lock # None => file = 0 /\ ~complete
    /\ complete => file = routes
    /\ file \in {0, routes}

\* When there is no login and nobody makes one, what was ensured has been lost since.
EnsuresArePaid == lock = None /\ ~complete => ensured <= losses

\* After a rejection the command only reads what was made since.
RoutesSinceRejection ==
    \A c \in Callers :
       caller[c].again /\ caller[c].at \in {"read", "reread", "ensure", "ensuring", "refreshing"}
          => caller[c].rejected < routes

\* What a command was promised is there, or was lost since.
PromiseStands ==
    \A c \in Callers :
       Browser!At(c, "reread") => (lock = None /\ complete) \/ losses > caller[c].seen

\* A command that has not begun was not rejected.
BeginsUnrejected == \A c \in Callers : Browser!At(c, "start") => ~caller[c].again

\* The inductive invariant.
LoginsInv ==
    /\ Browser!MabangInv
    /\ CallersTyped
    /\ LockNamesTheRoute
    /\ FileIsTheLast
    /\ EnsuresArePaid
    /\ RoutesSinceRejection
    /\ PromiseStands
    /\ BeginsUnrejected

-----------------------------------------------------------------------------
\* No command has begun.
LEMMA InitLogins ==
    ASSUME Browser!MabangLoginAssumption, Browser!Init
    PROVE  LoginsInv
<1>1. /\ file = 0 /\ complete = FALSE /\ lock = None /\ routes = 0 /\ ensured = 0 /\ losses = 0
      /\ caller \in [Callers -> [at : Browser!Places, login : Nat, rejected : Nat,
                                 again : BOOLEAN, seen : Nat]]
      /\ \A c \in Callers : /\ caller[c].at = "start" /\ caller[c].again = FALSE
                            /\ caller[c].login = 0 /\ caller[c].rejected = 0
                            /\ caller[c].seen = 0
  BY DEF Browser!Init, Browser!Places
<1>2. Browser!TypeOK
  <2>1. /\ file \in 0..routes /\ routes \in Nat /\ ensured \in 0..routes
        /\ losses \in 0..MaxLosses /\ lock \in Callers \cup {None}
    BY <1>1 DEF Browser!MabangLoginAssumption
  <2>2. complete \in BOOLEAN
    BY <1>1
  <2>3. ASSUME NEW c \in Callers
        PROVE  /\ caller[c].at \in Browser!Places
               /\ caller[c].login \in 0..routes /\ caller[c].rejected \in 0..routes
               /\ caller[c].seen \in 0..losses
    BY <1>1 DEF Browser!Places
  <2>4. \A c \in Callers : caller[c].again \in BOOLEAN
    BY <1>1
  <2> QED
    BY <2>1, <2>2, <2>3, <2>4 DEF Browser!TypeOK
<1>3. LockNamesTheRoute /\ Browser!LastLoginStands
  BY <1>1 DEF LockNamesTheRoute, Browser!LastLoginStands, Browser!OnRoute,
     Browser!MabangLoginAssumption
<1> QED
  BY <1>1, <1>2, <1>3 DEF LoginsInv, Browser!MabangInv, Browser!EnsuresCoalesce,
     Browser!RetriesAreFresh,
     Browser!EnsuredIsThere, CallersTyped, FileIsTheLast, EnsuresArePaid, RoutesSinceRejection,
     PromiseStands, BeginsUnrejected, Browser!At

\* The types a step leaves behind, when it changes at most the command c and the counters
\* only grow.
LEMMA TypesKept ==
    ASSUME LoginsInv, NEW c \in Callers,
           \A d \in Callers \ {c} : caller'[d] = caller[d],
           caller' \in [Callers -> [at : Browser!Places, login : Nat, rejected : Nat,
                                    again : BOOLEAN, seen : Nat]],
           caller'[c].login <= routes', caller'[c].rejected <= routes',
           caller'[c].seen <= losses',
           routes' \in Nat, routes <= routes',
           losses' \in 0..MaxLosses, losses <= losses',
           ensured' \in 0..routes', file' \in 0..routes', complete' \in BOOLEAN,
           lock' \in Callers \cup {None},
           Browser!MabangLoginAssumption
    PROVE  Browser!TypeOK' /\ CallersTyped'
<1>1. routes \in Nat /\ losses \in Nat /\ MaxLosses \in Nat
  BY DEF LoginsInv, Browser!MabangInv, Browser!TypeOK, Browser!MabangLoginAssumption
<1>2. ASSUME NEW d \in Callers
      PROVE  /\ caller'[d].at \in Browser!Places /\ caller'[d].again \in BOOLEAN
             /\ caller'[d].login \in 0..routes' /\ caller'[d].rejected \in 0..routes'
             /\ caller'[d].seen \in 0..losses'
  <2>1. CASE d = c
    BY <1>1, <2>1
  <2>2. CASE d # c
    BY <1>1, <2>2 DEF LoginsInv, Browser!MabangInv, Browser!TypeOK
  <2> QED
    BY <2>1, <2>2
<1> QED
  BY <1>2 DEF Browser!TypeOK, CallersTyped

\* A step of a command by which it neither enters nor leaves a route: file, lock and
\* counters stay.
LEMMA ReadingStep ==
    ASSUME LoginsInv, Browser!MabangLoginAssumption, NEW c \in Callers,
           UNCHANGED <<file, complete, lock, routes, ensured, losses>>,
           ~Browser!OnRoute(c),
           \A d \in Callers \ {c} : caller'[d] = caller[d],
           caller' \in [Callers -> [at : Browser!Places, login : Nat, rejected : Nat,
                                    again : BOOLEAN, seen : Nat]],
           caller'[c].login <= routes, caller'[c].rejected <= routes,
           caller'[c].seen <= losses,
           caller'[c].at \notin {"ensuring", "refreshing"},
           caller'[c].at = "use" /\ caller'[c].again => caller'[c].login > caller'[c].rejected,
           caller'[c].at = "unavailable" => losses > caller'[c].seen,
           caller'[c].again /\ caller'[c].at \in {"read", "reread", "ensure"}
              => caller'[c].rejected < routes,
           caller'[c].at = "reread" => (lock = None /\ complete) \/ losses > caller'[c].seen,
           caller'[c].at # "start"
    PROVE  LoginsInv'
<1>1. Browser!TypeOK' /\ CallersTyped'
  BY TypesKept DEF LoginsInv, Browser!MabangInv, Browser!TypeOK
<1>2. Browser!EnsuresCoalesce' /\ FileIsTheLast' /\ EnsuresArePaid'
  BY DEF LoginsInv, Browser!MabangInv, Browser!EnsuresCoalesce, FileIsTheLast, EnsuresArePaid
<1>3. LockNamesTheRoute'
  BY DEF LoginsInv, LockNamesTheRoute, Browser!OnRoute
<1>4. Browser!LastLoginStands'
  BY <1>2, <1>3 DEF LockNamesTheRoute, Browser!LastLoginStands, FileIsTheLast
<1>5. /\ Browser!RetriesAreFresh' /\ Browser!EnsuredIsThere'
      /\ RoutesSinceRejection' /\ PromiseStands'
      /\ BeginsUnrejected'
  BY DEF LoginsInv, Browser!MabangInv, Browser!RetriesAreFresh, Browser!EnsuredIsThere,
     RoutesSinceRejection,
     PromiseStands, BeginsUnrejected, Browser!At
<1> QED
  BY <1>1, <1>2, <1>3, <1>4, <1>5 DEF LoginsInv, Browser!MabangInv

\* A browser sets out, for ensure_auth() or for refresh_auth().
LEMMA RouteBegins ==
    ASSUME LoginsInv, Browser!MabangLoginAssumption, NEW c \in Callers,
           Browser!EnsureBegins(c) \/ Browser!RefreshBegins(c)
    PROVE  LoginsInv'
<1> DEFINE where == IF Browser!EnsureBegins(c) THEN "ensuring" ELSE "refreshing"
<1>1. Browser!TypeOK /\ CallersTyped /\ lock = None /\ c # None
  BY DEF LoginsInv, Browser!MabangInv, Browser!EnsureBegins, Browser!RefreshBegins,
     Browser!MabangLoginAssumption
<1>2. /\ lock' = c /\ file' = 0 /\ complete' = FALSE /\ routes' = routes + 1
      /\ caller' = [caller EXCEPT ![c].at = where]
  BY DEF Browser!EnsureBegins, Browser!RefreshBegins, Browser!Route, Browser!To, Browser!At
<1>3. /\ ensured' \in {ensured, ensured + 1}
      /\ losses' \in 0..MaxLosses /\ losses <= losses'
      /\ ensured' <= 1 + losses'
      /\ complete => losses' > losses
  <2>1. ensured \in Nat /\ losses \in Nat /\ MaxLosses \in Nat /\ losses <= MaxLosses
        /\ complete \in BOOLEAN
        /\ ensured <= 1 + losses /\ (~complete => ensured <= losses)
    BY <1>1 DEF LoginsInv, Browser!MabangInv, Browser!TypeOK, Browser!EnsuresCoalesce,
       EnsuresArePaid,
       Browser!MabangLoginAssumption
  <2>2. CASE Browser!EnsureBegins(c)
    BY <2>1, <2>2 DEF Browser!EnsureBegins
  <2>3. CASE Browser!RefreshBegins(c)
    BY <2>1, <2>3 DEF Browser!RefreshBegins
  <2> QED
    BY <2>2, <2>3
<1>4. /\ \A d \in Callers \ {c} : caller'[d] = caller[d]
      /\ caller'[c].at \in {"ensuring", "refreshing"}
      /\ caller'[c].login = caller[c].login /\ caller'[c].rejected = caller[c].rejected
      /\ caller'[c].again = caller[c].again /\ caller'[c].seen = caller[c].seen
  BY <1>1, <1>2 DEF CallersTyped
<1>5. caller' \in [Callers -> [at : Browser!Places, login : Nat, rejected : Nat,
                               again : BOOLEAN, seen : Nat]]
  BY <1>1, <1>2 DEF CallersTyped, Browser!Places
<1>6. Browser!TypeOK' /\ CallersTyped'
  <2>1. /\ caller'[c].login <= routes' /\ caller'[c].rejected <= routes'
        /\ caller'[c].seen <= losses'
        /\ routes' \in Nat /\ routes <= routes'
        /\ ensured' \in 0..routes' /\ file' \in 0..routes'
    <3>1. /\ caller[c].login \in 0..routes /\ caller[c].rejected \in 0..routes
          /\ caller[c].seen \in 0..losses /\ routes \in Nat /\ ensured \in 0..routes
          /\ losses \in 0..MaxLosses /\ MaxLosses \in Nat
      BY <1>1 DEF Browser!TypeOK, Browser!MabangLoginAssumption
    <3> QED
      BY <1>2, <1>3, <1>4, <3>1
  <2>2. complete' \in BOOLEAN
    BY <1>2
  <2> QED
    BY <1>2, <1>3, <1>4, <1>5, <2>1, <2>2, TypesKept
<1>7. LockNamesTheRoute'
  BY <1>1, <1>2, <1>4 DEF LoginsInv, LockNamesTheRoute, Browser!OnRoute,
     Browser!MabangLoginAssumption
<1>8. FileIsTheLast' /\ EnsuresArePaid' /\ Browser!EnsuresCoalesce'
  BY <1>1, <1>2, <1>3 DEF FileIsTheLast, EnsuresArePaid, Browser!EnsuresCoalesce
<1>9. Browser!LastLoginStands'
  BY <1>7, <1>8 DEF LockNamesTheRoute, Browser!LastLoginStands, FileIsTheLast
<1>10. Browser!RetriesAreFresh' /\ BeginsUnrejected'
  BY <1>4 DEF LoginsInv, Browser!MabangInv, Browser!RetriesAreFresh, BeginsUnrejected, Browser!At
<1>11. Browser!EnsuredIsThere' /\ PromiseStands'
  <2>1. \A d \in Callers : losses \in Nat /\ losses' \in Nat /\ caller[d].seen \in Nat
                           /\ caller[d].seen <= losses
    BY <1>1, <1>3 DEF Browser!TypeOK, Browser!MabangLoginAssumption
  <2>2. \A d \in Callers : caller'[d].seen = caller[d].seen
    BY <1>4
  <2>3. ASSUME NEW d \in Callers, caller'[d].at \in {"unavailable", "reread"}
        PROVE  losses' > caller'[d].seen
    <3>1. d # c /\ caller[d].at = caller'[d].at
      BY <1>4, <2>3
    <3>2. losses > caller[d].seen \/ complete
      BY <2>3, <3>1 DEF LoginsInv, Browser!MabangInv, Browser!EnsuredIsThere, PromiseStands,
         Browser!At
    <3> QED
      BY <1>3, <2>1, <2>2, <3>2
  <2> QED
    BY <2>3 DEF Browser!EnsuredIsThere, PromiseStands, Browser!At
<1>12. RoutesSinceRejection'
  BY <1>1, <1>2, <1>4 DEF LoginsInv, RoutesSinceRejection, Browser!TypeOK, CallersTyped
<1> QED
  BY <1>6, <1>7, <1>8, <1>9, <1>10, <1>11, <1>12 DEF LoginsInv, Browser!MabangInv

\* The browser arrives, or does not.
LEMMA RouteIsOver ==
    ASSUME LoginsInv, Browser!MabangLoginAssumption, NEW c \in Callers,
           Browser!RouteEnds(c) \/ Browser!RouteFails(c)
    PROVE  LoginsInv'
<1>1. Browser!TypeOK /\ CallersTyped /\ Browser!OnRoute(c) /\ lock = c /\ c # None
      /\ file = 0 /\ ~complete
  BY DEF LoginsInv, Browser!MabangInv, Browser!RouteEnds, Browser!RouteFails, LockNamesTheRoute,
     FileIsTheLast,
     Browser!MabangLoginAssumption
<1>2. lock' = None /\ routes' = routes /\ ensured' = ensured
  BY DEF Browser!RouteEnds, Browser!RouteFails
<1>3. /\ losses \in Nat /\ routes \in Nat /\ ensured \in Nat /\ MaxLosses \in Nat
      /\ ensured <= 1 + losses /\ losses <= MaxLosses /\ ensured <= routes
  BY <1>1 DEF Browser!TypeOK, LoginsInv, Browser!MabangInv, Browser!EnsuresCoalesce,
     Browser!MabangLoginAssumption
<1>4. \/ complete' = TRUE /\ file' = routes /\ losses' = losses
      \/ complete' = FALSE /\ file' = 0 /\ losses' = losses + 1 /\ losses < MaxLosses
  BY <1>1 DEF Browser!RouteEnds, Browser!RouteFails
<1>5. /\ \A d \in Callers \ {c} : caller'[d] = caller[d]
      /\ caller'[c].at \in {"reread", "read", "done", "failed"}
      /\ caller'[c].at = "reread" => complete' = TRUE
      /\ caller'[c].seen \in {caller[c].seen, losses}
      /\ caller'[c].login = caller[c].login
      /\ caller'[c].rejected = caller[c].rejected
      /\ caller'[c].again = caller[c].again
      /\ caller' \in [Callers -> [at : Browser!Places, login : Nat, rejected : Nat,
                                  again : BOOLEAN, seen : Nat]]
  <2>1. CASE Browser!RouteEnds(c)
    BY <1>1, <1>3, <2>1 DEF Browser!RouteEnds, CallersTyped, Browser!Places
  <2>2. CASE Browser!RouteFails(c)
    BY <1>1, <1>3, <2>2 DEF Browser!RouteFails, Browser!To, CallersTyped, Browser!Places
  <2> QED
    BY <2>1, <2>2
<1>6. Browser!TypeOK' /\ CallersTyped'
  <2>1. /\ caller[c].login \in 0..routes /\ caller[c].rejected \in 0..routes
        /\ caller[c].seen \in 0..losses
    BY <1>1 DEF Browser!TypeOK
  <2>2. /\ caller'[c].login <= routes' /\ caller'[c].rejected <= routes'
        /\ caller'[c].seen <= losses' /\ losses <= losses' /\ losses' \in 0..MaxLosses
        /\ ensured' \in 0..routes' /\ file' \in 0..routes'
        /\ routes' \in Nat /\ routes <= routes'
    BY <1>2, <1>3, <1>4, <1>5, <2>1
  <2>3. complete' \in BOOLEAN
    BY <1>4
  <2> QED
    BY <1>2, <1>5, <2>2, <2>3, TypesKept
<1>7. LockNamesTheRoute'
  BY <1>1, <1>2, <1>5 DEF LoginsInv, LockNamesTheRoute, Browser!OnRoute,
     Browser!MabangLoginAssumption
<1>8. FileIsTheLast' /\ EnsuresArePaid' /\ Browser!EnsuresCoalesce'
  BY <1>2, <1>3, <1>4 DEF FileIsTheLast, EnsuresArePaid, Browser!EnsuresCoalesce
<1>9. Browser!LastLoginStands'
  BY <1>7, <1>8 DEF LockNamesTheRoute, Browser!LastLoginStands, FileIsTheLast
<1>10. Browser!RetriesAreFresh' /\ BeginsUnrejected'
  BY <1>5 DEF LoginsInv, Browser!MabangInv, Browser!RetriesAreFresh, BeginsUnrejected, Browser!At
<1>11. Browser!EnsuredIsThere' /\ PromiseStands'
  <2>1. ASSUME NEW d \in Callers, d # c, caller'[d].at \in {"unavailable", "reread"}
        PROVE  losses' > caller'[d].seen
    <3>1. caller'[d] = caller[d] /\ caller[d].seen \in Nat
      BY <1>1, <1>5, <2>1 DEF Browser!TypeOK
    <3>2. losses > caller[d].seen
      BY <1>1, <2>1, <3>1 DEF LoginsInv, Browser!MabangInv, Browser!EnsuredIsThere,
         PromiseStands, Browser!At
    <3> QED
      BY <1>3, <1>4, <3>1, <3>2
  <2> QED
    BY <1>2, <1>5, <2>1 DEF Browser!EnsuredIsThere, PromiseStands, Browser!At
<1>12. RoutesSinceRejection'
  BY <1>1, <1>2, <1>5 DEF LoginsInv, RoutesSinceRejection, Browser!OnRoute
<1> QED
  BY <1>6, <1>7, <1>8, <1>9, <1>10, <1>11, <1>12 DEF LoginsInv, Browser!MabangInv

\* The cookies run out: what was promised before was lost since.
LEMMA ExpiresKeeps ==
    ASSUME LoginsInv, Browser!MabangLoginAssumption, Browser!Expires
    PROVE  LoginsInv'
<1>1. /\ complete /\ complete' = FALSE /\ losses' = losses + 1 /\ losses < MaxLosses
      /\ UNCHANGED <<file, lock, routes, ensured, caller>>
  BY DEF Browser!Expires
<1>2. losses \in Nat /\ MaxLosses \in Nat /\ ensured \in Nat /\ ensured <= 1 + losses
      /\ routes \in Nat
  BY DEF LoginsInv, Browser!MabangInv, Browser!TypeOK, Browser!EnsuresCoalesce,
     Browser!MabangLoginAssumption
<1>3. \A d \in Callers : caller[d].seen \in Nat /\ caller[d].seen <= losses
  BY DEF LoginsInv, Browser!MabangInv, Browser!TypeOK
<1>4. Browser!TypeOK' /\ CallersTyped'
  <2>1. Browser!TypeOK /\ CallersTyped
    BY DEF LoginsInv, Browser!MabangInv
  <2>2. CallersTyped' /\ complete' \in BOOLEAN
    BY <1>1, <2>1 DEF CallersTyped
  <2>3. losses' \in 0..MaxLosses /\ \A d \in Callers : caller[d].seen \in 0..losses'
    BY <1>1, <1>2, <1>3
  <2> QED
    BY <1>1, <2>1, <2>2, <2>3 DEF Browser!TypeOK
<1>5. Browser!EnsuresCoalesce' /\ FileIsTheLast' /\ EnsuresArePaid'
  BY <1>1, <1>2 DEF LoginsInv, Browser!EnsuresCoalesce, FileIsTheLast, EnsuresArePaid
<1>6. LockNamesTheRoute' /\ Browser!LastLoginStands'
  BY <1>1 DEF LoginsInv, Browser!MabangInv, LockNamesTheRoute, Browser!LastLoginStands,
     Browser!OnRoute
<1>7. Browser!RetriesAreFresh' /\ RoutesSinceRejection' /\ BeginsUnrejected'
  BY <1>1 DEF LoginsInv, Browser!MabangInv, Browser!RetriesAreFresh, RoutesSinceRejection,
     BeginsUnrejected, Browser!At
<1>8. Browser!EnsuredIsThere' /\ PromiseStands'
  BY <1>1, <1>2, <1>3 DEF Browser!EnsuredIsThere, PromiseStands, Browser!At
<1> QED
  BY <1>4, <1>5, <1>6, <1>7, <1>8 DEF LoginsInv, Browser!MabangInv

\* A command reads, waits, joins, uses or gives up.
LEMMA ReadersKeep ==
    ASSUME LoginsInv, Browser!MabangLoginAssumption, NEW c \in Callers,
           \/ Browser!Start(c) \/ Browser!Read(c) \/ Browser!TimesOut(c)
           \/ Browser!Coalesced(c) \/ Browser!Accepted(c) \/ Browser!Rejected(c)
    PROVE  LoginsInv'
<1>1. UNCHANGED <<file, complete, lock, routes, ensured, losses>>
  BY DEF Browser!Start, Browser!Read, Browser!TimesOut, Browser!Coalesced, Browser!Accepted,
     Browser!Rejected
<1>2. /\ CallersTyped /\ caller[c].login \in 0..routes /\ caller[c].rejected \in 0..routes
      /\ caller[c].seen \in 0..losses /\ caller[c].again \in BOOLEAN
      /\ losses \in Nat /\ routes \in Nat /\ file \in 0..routes
      /\ complete => file = routes
  BY DEF LoginsInv, Browser!MabangInv, Browser!TypeOK, FileIsTheLast
<1>3. /\ caller[c].again /\ caller[c].at \in {"read", "reread", "ensure"}
           => caller[c].rejected < routes
      /\ caller[c].at = "reread" => (lock = None /\ complete) \/ losses > caller[c].seen
  BY DEF LoginsInv, RoutesSinceRejection, PromiseStands, Browser!At
<1>4. CASE Browser!Start(c)
  <2>1. /\ caller' = [caller EXCEPT ![c].at = IF c \in Refreshers THEN "refresh" ELSE "read"]
        /\ caller[c].at = "start"
    BY <1>4 DEF Browser!Start, Browser!To, Browser!At
  <2>2. ~caller[c].again
    BY <2>1 DEF LoginsInv, BeginsUnrejected, Browser!At
  <2> QED
    BY <1>1, <1>2, <2>1, <2>2, ReadingStep DEF CallersTyped, Browser!Places, Browser!OnRoute
<1>5. CASE Browser!Read(c)
  <2>1. CASE complete
    <3>1. caller' = [caller EXCEPT ![c].at = "use", ![c].login = file]
          /\ caller[c].at \in {"read", "reread"} /\ file \in Nat /\ CallersTyped
      BY <1>2, <1>5, <2>1 DEF Browser!Read
    <3>2. /\ caller' \in [Callers -> [at : Browser!Places, login : Nat, rejected : Nat,
                                       again : BOOLEAN, seen : Nat]]
          /\ \A d \in Callers \ {c} : caller'[d] = caller[d]
          /\ caller'[c].at = "use" /\ caller'[c].login = file
          /\ caller'[c].rejected = caller[c].rejected /\ caller'[c].seen = caller[c].seen
          /\ caller'[c].again = caller[c].again
      BY <3>1 DEF CallersTyped, Browser!Places
    <3>3. caller[c].again => file > caller[c].rejected
      BY <1>2, <1>3, <2>1, <3>1
    <3> QED
      BY <1>1, <1>2, <3>1, <3>2, <3>3, ReadingStep DEF Browser!OnRoute
  <2>2. CASE ~complete /\ caller[c].at = "read"
    <3>1. caller' = [caller EXCEPT ![c].at = "ensure"]
      BY <1>5, <2>2 DEF Browser!Read, Browser!To, Browser!At
    <3>2. /\ caller' \in [Callers -> [at : Browser!Places, login : Nat, rejected : Nat,
                                       again : BOOLEAN, seen : Nat]]
          /\ \A d \in Callers \ {c} : caller'[d] = caller[d]
          /\ caller'[c].at = "ensure" /\ caller'[c].login = caller[c].login
          /\ caller'[c].rejected = caller[c].rejected /\ caller'[c].seen = caller[c].seen
          /\ caller'[c].again = caller[c].again
      BY <1>2, <3>1 DEF CallersTyped, Browser!Places
    <3> QED
      BY <1>1, <1>2, <1>3, <2>2, <3>2, ReadingStep DEF Browser!OnRoute
  <2>3. CASE ~complete /\ caller[c].at = "reread"
    <3>1. caller' = [caller EXCEPT ![c].at = "unavailable"]
      BY <1>5, <2>3 DEF Browser!Read, Browser!To, Browser!At
    <3>2. /\ caller' \in [Callers -> [at : Browser!Places, login : Nat, rejected : Nat,
                                       again : BOOLEAN, seen : Nat]]
          /\ \A d \in Callers \ {c} : caller'[d] = caller[d]
          /\ caller'[c].at = "unavailable" /\ caller'[c].login = caller[c].login
          /\ caller'[c].rejected = caller[c].rejected /\ caller'[c].seen = caller[c].seen
          /\ caller'[c].again = caller[c].again
      BY <1>2, <3>1 DEF CallersTyped, Browser!Places
    <3> QED
      BY <1>1, <1>2, <1>3, <2>3, <3>2, ReadingStep DEF Browser!OnRoute
  <2> QED
    BY <1>5, <2>1, <2>2, <2>3 DEF Browser!Read
<1>6. CASE Browser!TimesOut(c)
  <2>1. /\ caller' = [caller EXCEPT ![c].at = IF caller[c].at = "read" THEN "ensure" ELSE "failed"]
        /\ caller[c].at \in {"read", "reread", "ensure", "refresh"}
    BY <1>6 DEF Browser!TimesOut, Browser!To, Browser!At
  <2> QED
    BY <1>1, <1>2, <1>3, <2>1, ReadingStep DEF CallersTyped, Browser!Places, Browser!OnRoute
<1>7. CASE Browser!Coalesced(c)
  <2>1. /\ caller' = [caller EXCEPT ![c].at = "reread", ![c].seen = losses]
        /\ caller[c].at = "ensure" /\ lock = None /\ complete
    BY <1>7 DEF Browser!Coalesced, Browser!At
  <2>2. /\ caller' \in [Callers -> [at : Browser!Places, login : Nat, rejected : Nat,
                                   again : BOOLEAN, seen : Nat]]
          /\ \A d \in Callers \ {c} : caller'[d] = caller[d]
          /\ caller'[c].at = "reread" /\ caller'[c].login = caller[c].login
          /\ caller'[c].rejected = caller[c].rejected /\ caller'[c].seen = losses
          /\ caller'[c].again = caller[c].again
      BY <1>2, <2>1 DEF CallersTyped, Browser!Places
  <2> QED
    BY <1>1, <1>2, <1>3, <2>1, <2>2, ReadingStep DEF Browser!OnRoute
<1>8. CASE Browser!Accepted(c)
  <2>1. caller' = [caller EXCEPT ![c].at = "done"] /\ caller[c].at = "use"
    BY <1>8 DEF Browser!Accepted, Browser!To, Browser!At
  <2> QED
    BY <1>1, <1>2, <2>1, ReadingStep DEF CallersTyped, Browser!Places, Browser!OnRoute
<1>9. CASE Browser!Rejected(c)
  <2>1. /\ caller' = [caller EXCEPT ![c].at = IF caller[c].again THEN "failed" ELSE "refresh",
                                    ![c].again = TRUE, ![c].rejected = caller[c].login]
        /\ caller[c].at = "use"
    BY <1>9 DEF Browser!Rejected, Browser!At
  <2>2. /\ caller' \in [Callers -> [at : Browser!Places, login : Nat, rejected : Nat,
                                   again : BOOLEAN, seen : Nat]]
          /\ \A d \in Callers \ {c} : caller'[d] = caller[d]
          /\ caller'[c].at = (IF caller[c].again THEN "failed" ELSE "refresh")
          /\ caller'[c].login = caller[c].login
          /\ caller'[c].rejected = caller[c].login /\ caller'[c].seen = caller[c].seen
          /\ caller'[c].again = TRUE
      BY <1>2, <2>1 DEF CallersTyped, Browser!Places
  <2> QED
    BY <1>1, <1>2, <2>1, <2>2, ReadingStep DEF Browser!OnRoute
<1> QED
  BY <1>4, <1>5, <1>6, <1>7, <1>8, <1>9

\* Every step keeps the invariant.
LEMMA NextKeepsLogins ==
    ASSUME LoginsInv, Browser!MabangLoginAssumption, [Browser!Next]_(Browser!vars)
    PROVE  LoginsInv'
<1>1. CASE UNCHANGED Browser!vars
  BY <1>1 DEF Browser!vars, LoginsInv, Browser!MabangInv, Browser!TypeOK,
     Browser!EnsuresCoalesce, Browser!LastLoginStands,
     Browser!RetriesAreFresh, Browser!EnsuredIsThere, CallersTyped, LockNamesTheRoute, FileIsTheLast,
     EnsuresArePaid, RoutesSinceRejection, PromiseStands, BeginsUnrejected,
     Browser!At, Browser!OnRoute
<1> QED
  BY <1>1, ExpiresKeeps, ReadersKeep, RouteBegins, RouteIsOver DEF Browser!Next

\* However the commands interleave and whatever logins are lost, they make one login
\* between them, the last one stands, a retry uses a newer one than was rejected, and a
\* command finds what it was promised unless it was lost since.
THEOREM LoginsHold ==
    ASSUME Browser!MabangLoginAssumption
    PROVE  Browser!Spec => []Browser!MabangInv
<1>1. Browser!Init => LoginsInv
  BY InitLogins
<1>2. LoginsInv /\ [Browser!Next]_(Browser!vars) => LoginsInv'
  BY NextKeepsLogins
<1>3. LoginsInv => Browser!MabangInv
  BY DEF LoginsInv
<1> QED
  BY <1>1, <1>2, <1>3, PTL DEF Browser!Spec
=============================================================================
