---------------------------- MODULE MCAutomations ----------------------------
(***************************************************************************)
(* Instances of Automations for TLC: one-shots that open new conversations *)
(* and a calendar rule on an existing one that falls due before its        *)
(* nominal time.  The plan of MCLiveness may also be an interval.          *)
(***************************************************************************)
EXTENDS Automations

CONSTANTS t1, t2, c1

Once == [kind |-> "once", target |-> "new", every |-> 0, times |-> {1}, jitter |-> 0]
Later == [Once EXCEPT !.times = {2}]
Calendar == [kind |-> "rrule", target |-> "reuse", every |-> 0, times |-> {1, 2}, jitter |-> -1]

CalendarAndOnce == {Calendar, Once}
OneShots == {Once, Later}
=============================================================================
