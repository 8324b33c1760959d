------------------------------ MODULE MabangLogin ------------------------------
(***************************************************************************)
(* The login of the Mabang ERP that the skills' commands share.  It is a   *)
(* file with the state of a browser; a command reads it, has it made when  *)
(* it is not there or not complete, and has it made anew when the ERP has  *)
(* rejected it.  Making it takes a browser through four pages and submits  *)
(* the password, which is not to happen oftener than it has to.            *)
(*                                                                         *)
(* Commands are processes, and so is each refresh of theirs; they share    *)
(* the file and a lock of the file system.  A login is named by the number *)
(* of the route that made it.                                              *)
(***************************************************************************)
EXTENDS Integers, FiniteSets

CONSTANTS
    Callers,       \* commands that export, and commands that only refresh
    Refreshers,
    None,          \* nobody
    MaxLosses      \* bound: what makes a login go away

MabangLoginAssumption ==
    /\ Refreshers \subseteq Callers
    /\ None \notin Callers
    /\ MaxLosses \in Nat

VARIABLES
    file,          \* state.json: the route that wrote it, 0 when there is none
    complete,      \* _require_complete_auth_material() accepts it
    lock,          \* auth_refresh.lock
    routes,        \* how often the password was submitted
    ensured,       \* how many of these were begun by ensure_auth()
    losses,        \* logins that expired, were given up or never came about
    caller         \* caller[c]: where it is, the login it uses and was rejected with

vars == <<file, complete, lock, routes, ensured, losses, caller>>

Init ==
    /\ file = 0 /\ complete = FALSE
    /\ lock = None
    /\ routes = 0 /\ ensured = 0 /\ losses = 0
    /\ caller = [c \in Callers |->
                   [at |-> "start", login |-> 0, rejected |-> 0, again |-> FALSE, seen |-> 0]]

At(c, place) == caller[c].at = place
To(c, place) == caller' = [caller EXCEPT ![c].at = place]

-----------------------------------------------------------------------------
Start(c) ==
    /\ At(c, "start")
    /\ To(c, IF c \in Refreshers THEN "refresh" ELSE "read")
    /\ UNCHANGED <<file, complete, lock, routes, ensured, losses>>

\* read_auth() of get_auth_context(): what fails the first time is ensured, and read again.
Read(c) ==
    /\ caller[c].at \in {"read", "reread"} /\ lock = None
    /\ IF complete THEN caller' = [caller EXCEPT ![c].at = "use", ![c].login = file]
       ELSE To(c, IF At(c, "read") THEN "ensure" ELSE "unavailable")
    /\ UNCHANGED <<file, complete, lock, routes, ensured, losses>>

\* The lock was not to be had in 180 seconds.
TimesOut(c) ==
    /\ caller[c].at \in {"read", "reread", "ensure", "refresh"} /\ lock # None
    /\ To(c, IF At(c, "read") THEN "ensure" ELSE "failed")
    /\ UNCHANGED <<file, complete, lock, routes, ensured, losses>>

\* ensure_auth(): somebody else has made it while this one waited.
Coalesced(c) ==
    /\ At(c, "ensure") /\ lock = None /\ complete
    /\ caller' = [caller EXCEPT ![c].at = "reread", ![c].seen = losses]
    /\ UNCHANGED <<file, complete, lock, routes, ensured, losses>>

\* _refresh_auth() under the lock, from the removal of the old state to the submission.
Route(c, place) ==
    /\ lock' = c
    /\ file' = 0 /\ complete' = FALSE
    /\ routes' = routes + 1
    /\ To(c, place)

\* Fault: ensure_auth() does not look again once it has the lock.
EnsureBeginsUnchecked(c) ==
    /\ At(c, "ensure") /\ lock = None
    /\ Route(c, "ensuring")
    /\ ensured' = ensured + 1
    /\ UNCHANGED losses

EnsureBegins(c) ==
    /\ At(c, "ensure") /\ lock = None /\ ~complete
    /\ Route(c, "ensuring")
    /\ ensured' = ensured + 1
    /\ UNCHANGED losses

\* refresh_auth() never asks what there is.
RefreshBegins(c) ==
    /\ At(c, "refresh") /\ lock = None
    /\ complete => losses < MaxLosses
    /\ Route(c, "refreshing")
    /\ losses' = IF complete THEN losses + 1 ELSE losses
    /\ UNCHANGED ensured

OnRoute(c) == caller[c].at \in {"ensuring", "refreshing"}

\* The state is checked before it is written, and written at once.
RouteEnds(c) ==
    /\ OnRoute(c)
    /\ file' = routes /\ complete' = TRUE
    /\ lock' = None
    /\ caller' = [caller EXCEPT ![c].seen = losses,
          ![c].at = IF @ = "ensuring" THEN "reread"
                    ELSE IF c \in Refreshers THEN "done" ELSE "read"]
    /\ UNCHANGED <<routes, ensured, losses>>

\* A page fails, the login is turned down, or the process dies: its lock is free.
RouteFails(c) ==
    /\ OnRoute(c) /\ losses < MaxLosses
    /\ losses' = losses + 1
    /\ lock' = None
    /\ To(c, "failed")
    /\ UNCHANGED <<file, complete, routes, ensured>>

\* The requests of the export; 401 or 403 makes one refresh and one more attempt.
Accepted(c) ==
    /\ At(c, "use")
    /\ To(c, "done")
    /\ UNCHANGED <<file, complete, lock, routes, ensured, losses>>

Rejected(c) ==
    /\ At(c, "use")
    /\ caller' = [caller EXCEPT ![c].at = IF caller[c].again THEN "failed" ELSE "refresh",
                               ![c].again = TRUE, ![c].rejected = caller[c].login]
    /\ UNCHANGED <<file, complete, lock, routes, ensured, losses>>

\* The cookies run out.
Expires ==
    /\ complete /\ losses < MaxLosses
    /\ complete' = FALSE
    /\ losses' = losses + 1
    /\ UNCHANGED <<file, lock, routes, ensured, caller>>

Next ==
    \/ Expires
    \/ \E c \in Callers :
          \/ Start(c) \/ Read(c) \/ TimesOut(c) \/ Coalesced(c) \/ EnsureBegins(c)
          \/ RefreshBegins(c) \/ RouteEnds(c) \/ RouteFails(c) \/ Accepted(c) \/ Rejected(c)

Spec == Init /\ [][Next]_vars

-----------------------------------------------------------------------------
Places == {"start", "read", "ensure", "ensuring", "reread", "use", "refresh", "refreshing",
           "unavailable", "failed", "done"}

TypeOK ==
    /\ file \in 0..routes /\ complete \in BOOLEAN
    /\ lock \in Callers \cup {None}
    /\ routes \in Nat /\ ensured \in 0..routes /\ losses \in 0..MaxLosses
    /\ \A c \in Callers :
          /\ caller[c].at \in Places /\ caller[c].again \in BOOLEAN
          /\ caller[c].login \in 0..routes /\ caller[c].rejected \in 0..routes
          /\ caller[c].seen \in 0..losses

\* However many commands find no login at the same moment, the password is submitted for
\* them once, and once more for each login that was lost since.
EnsuresCoalesce == ensured <= 1 + losses

\* One browser is on its way at a time, and the login on record is that of the last one that
\* set out: no slower one writes over it.
LastLoginStands ==
    /\ \A c, d \in Callers : OnRoute(c) /\ OnRoute(d) => c = d
    /\ file \in {0, routes}

\* The second attempt of an export is not made with the login the ERP has rejected.
RetriesAreFresh ==
    \A c \in Callers : At(c, "use") /\ caller[c].again => caller[c].login > caller[c].rejected

\* A command that was told of a login does not find it missing, unless it was lost since.
EnsuredIsThere ==
    \A c \in Callers : At(c, "unavailable") => losses > caller[c].seen

MabangInv ==
    TypeOK /\ EnsuresCoalesce /\ LastLoginStands /\ RetriesAreFresh /\ EnsuredIsThere
=============================================================================
