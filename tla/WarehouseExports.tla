--------------------------- MODULE WarehouseExports ---------------------------
(***************************************************************************)
(* The exports of the Yacang warehouse system by the skills' command line: *)
(* each run is a process of its own that asks the platform for reports,    *)
(* waits until they appear in the queue of downloads and fetches them.     *)
(* The platform cannot be asked whether a request has reached it, so a row *)
(* of a local database, written before the request, says which downloads   *)
(* there were; it outlives the process, and a later run looks for what the *)
(* request has made instead of asking again.                               *)
(*                                                                         *)
(* All runs are of one account.  A step is a request with its answer, or   *)
(* what a run does between two requests; a run may be killed between any   *)
(* two steps.                                                              *)
(***************************************************************************)
EXTENDS Integers, Sequences, FiniteSets

CONSTANTS
    Runs,
    Keys,          \* the tasks: a report of a warehouse with its filters
    TasksOf,       \* TasksOf[r]: what the run exports, in this order
    None,          \* nobody; no record
    MaxForeign,    \* bound: exports of the same reports by a person on the platform
    MaxFaults      \* bound: runs killed, and requests that fail

WarehouseExportsAssumption ==
    /\ None \notin Runs
    /\ TasksOf \in [Runs -> Seq(Keys) \ {<<>>}]
    /\ MaxForeign \in Nat /\ MaxFaults \in Nat

VARIABLES
    submissions,   \* what the platform was asked for: [key, by, at], a number is its index
    record,        \* yacang_submissions: record[k], the downloads there were before
    cooling,       \* yacang_cooldown: the account has to wait
    client,        \* client[r]: where the run is, its task, the baseline and the file it found
    artifacts,     \* what was delivered: [run, key, file]
    faults

vars == <<submissions, record, cooling, client, artifacts, faults>>

Init ==
    /\ submissions = <<>>
    /\ record = [k \in Keys |-> None]
    /\ cooling = FALSE
    /\ client = [r \in Runs |-> [at |-> "new", task |-> 1, seen |-> {}, file |-> 0]]
    /\ artifacts = {}
    /\ faults = 0

At(r, place) == client[r].at = place
To(r, place) == client' = [client EXCEPT ![r].at = place]
Key(r) == TasksOf[r][client[r].task]

\* state.run_lock() is held from before the login to the end of the process.
Inside(r) == client[r].at \notin {"new", "done"}

Fault == faults < MaxFaults /\ faults' = faults + 1

\* What the queue of downloads shows: requests the platform has taken, with or without file.
Listed == {i \in 1..Len(submissions) : submissions[i].at \in {"building", "ready"}}

\* The next task of the run, or its end.
Proceeds(r) ==
    client' = [client EXCEPT ![r] =
        IF @.task < Len(TasksOf[r])
        THEN [at |-> "lookup", task |-> @.task + 1, seen |-> {}, file |-> 0]
        ELSE [@ EXCEPT !.at = "done"]]

-----------------------------------------------------------------------------
\* The platform: a request that was sent arrives at last, or never does or is turned down;
\* the export it has begun is ready some time; a person exports the same report.
Platform(i, from, to) ==
    /\ submissions[i].at = from
    /\ submissions' = [submissions EXCEPT ![i].at = to]
    /\ UNCHANGED <<record, cooling, client, artifacts, faults>>

Arrives == \E i \in 1..Len(submissions) : Platform(i, "sent", "building")
Refuses == \E i \in 1..Len(submissions) : Platform(i, "sent", "gone")
Builds == \E i \in 1..Len(submissions) : Platform(i, "building", "ready")

ForeignExport ==
    /\ Cardinality({i \in 1..Len(submissions) : submissions[i].by = None}) < MaxForeign
    /\ \E k \in Keys :
          submissions' = Append(submissions, [key |-> k, by |-> None, at |-> "building"])
    /\ UNCHANGED <<record, cooling, client, artifacts, faults>>

CooledDown ==
    /\ cooling /\ cooling' = FALSE
    /\ UNCHANGED <<submissions, record, client, artifacts, faults>>

-----------------------------------------------------------------------------
\* A run starts, unless another one of the account is under way: the lock is not waited for.
Start(r) ==
    /\ At(r, "new")
    /\ To(r, IF \E other \in Runs : Inside(other) THEN "done" ELSE "login")
    /\ UNCHANGED <<submissions, record, cooling, artifacts, faults>>

\* request_slot(): no request while the account cools down.
Login(r) ==
    /\ At(r, "login") /\ ~cooling
    /\ To(r, "lookup")
    /\ UNCHANGED <<submissions, record, cooling, artifacts, faults>>

\* A request was made before, by this run or another one: it is only looked for.
LookUp(r) ==
    /\ At(r, "lookup")
    /\ client' = [client EXCEPT ![r] =
          IF record[Key(r)] = None THEN [@ EXCEPT !.at = "list"]
          ELSE [@ EXCEPT !.at = "wait", !.seen = record[Key(r)]]]
    /\ UNCHANGED <<submissions, record, cooling, artifacts, faults>>

ListBaseline(r) ==
    /\ At(r, "list") /\ ~cooling
    /\ client' = [client EXCEPT ![r].at = "begin", ![r].seen = Listed]
    /\ UNCHANGED <<submissions, record, cooling, artifacts, faults>>

Begin(r) ==
    /\ At(r, "begin")
    /\ record' = [record EXCEPT ![Key(r)] = client[r].seen]
    /\ To(r, "submit")
    /\ UNCHANGED <<submissions, cooling, artifacts, faults>>

Submit(r) ==
    /\ At(r, "submit") /\ ~cooling
    /\ submissions' = Append(submissions, [key |-> Key(r), by |-> r, at |-> "sent"])
    /\ client' = [client EXCEPT ![r].at = "answer", ![r].file = Len(submissions) + 1]
    /\ UNCHANGED <<record, cooling, artifacts, faults>>

\* The answer to submit(): the platform has taken it, or says that it has not.  A 429 is
\* noted when the slot was given back.
Accepted(r) ==
    /\ At(r, "answer") /\ client[r].file \in Listed
    /\ To(r, "wait")
    /\ UNCHANGED <<submissions, record, cooling, artifacts, faults>>

Rejected(r) ==
    /\ At(r, "answer") /\ submissions[client[r].file].at = "gone"
    /\ \/ To(r, "rejected") \/ To(r, "limited")
    /\ UNCHANGED <<submissions, record, cooling, artifacts, faults>>

\* Fault: a request without an answer is taken for one that failed.
UnknownClears(r) ==
    /\ At(r, "answer") /\ Fault
    /\ record' = [record EXCEPT ![Key(r)] = None]
    /\ To(r, "done")
    /\ UNCHANGED <<submissions, cooling, artifacts>>

\* No answer, or one that cannot be read: the record is all that is left of the request.
Unknown(r) ==
    /\ At(r, "answer") /\ Fault
    /\ To(r, "done")
    /\ UNCHANGED <<submissions, record, cooling, artifacts>>

\* Any other request fails, or the slot cannot be had: the run ends, and so it does when
\* submit() finds the slot taken.  A download that fails ends its own task only.
RequestFails(r) ==
    /\ client[r].at \in {"login", "list", "submit", "wait", "download"} /\ Fault
    /\ \/ To(r, "done")
       \/ client[r].at # "submit" /\ To(r, "limited")
       \/ At(r, "download") /\ Proceeds(r)
    /\ UNCHANGED <<submissions, record, cooling, artifacts>>

\* The platform has answered 429, or the slot refuses because it once has.
Limited(r) ==
    /\ At(r, "limited")
    /\ cooling' = TRUE
    /\ To(r, IF client[r].file # 0 /\ submissions[client[r].file].at = "gone" THEN "rejected"
             ELSE "done")
    /\ UNCHANGED <<submissions, record, artifacts, faults>>

Cools(r) ==
    /\ client[r].at \in {"login", "list", "submit", "wait", "download"} /\ cooling
    /\ To(r, IF At(r, "submit") THEN "rejected" ELSE "done")
    /\ UNCHANGED <<submissions, record, cooling, artifacts, faults>>

\* An explicit rejection: nothing will come of the request.
ClearRejected(r) ==
    /\ At(r, "rejected")
    /\ record' = [record EXCEPT ![Key(r)] = None]
    /\ To(r, "done")
    /\ UNCHANGED <<submissions, cooling, artifacts, faults>>

\* wait_for_file(): what is in the queue now and was not, with the task's own filters.
Candidates(r) == {i \in Listed \ client[r].seen : submissions[i].key = Key(r)}
Found(r) == \E i \in Candidates(r) : Candidates(r) = {i} /\ submissions[i].at = "ready"

FileReady(r) ==
    /\ At(r, "wait") /\ ~cooling /\ Found(r)
    /\ client' = [client EXCEPT ![r].at = "clear", ![r].file = CHOOSE i \in Candidates(r) : TRUE]
    /\ UNCHANGED <<submissions, record, cooling, artifacts, faults>>

\* Time is up, or more than one download would do: the record stays.
GivesUp(r) ==
    /\ At(r, "wait") /\ ~Found(r)
    /\ To(r, "done")
    /\ UNCHANGED <<submissions, record, cooling, artifacts, faults>>

Clear(r) ==
    /\ At(r, "clear")
    /\ record' = [record EXCEPT ![Key(r)] = None]
    /\ To(r, "download")
    /\ UNCHANGED <<submissions, cooling, artifacts, faults>>

\* download(), validate() and the file put in its place.
Download(r) ==
    /\ At(r, "download") /\ ~cooling
    /\ artifacts' = artifacts \cup {[run |-> r, key |-> Key(r), file |-> client[r].file]}
    /\ Proceeds(r)
    /\ UNCHANGED <<submissions, record, cooling, faults>>

\* The process is killed, and its locks are free.
Killed(r) ==
    /\ Inside(r) /\ Fault
    /\ To(r, "done")
    /\ UNCHANGED <<submissions, record, cooling, artifacts>>

Next ==
    \/ Arrives \/ Refuses \/ Builds \/ ForeignExport \/ CooledDown
    \/ \E r \in Runs :
          \/ Start(r) \/ Login(r) \/ LookUp(r) \/ ListBaseline(r) \/ Begin(r) \/ Submit(r)
          \/ Accepted(r) \/ Rejected(r) \/ Unknown(r) \/ RequestFails(r) \/ Limited(r)
          \/ Cools(r) \/ ClearRejected(r) \/ FileReady(r) \/ GivesUp(r) \/ Clear(r)
          \/ Download(r) \/ Killed(r)

Spec == Init /\ [][Next]_vars

-----------------------------------------------------------------------------
Places == {"new", "login", "lookup", "list", "begin", "submit", "answer", "rejected",
           "limited", "wait", "clear", "download", "done"}

TypeOK ==
    /\ submissions \in Seq([key : Keys, by : Runs \cup {None},
                            at : {"sent", "building", "ready", "gone"}])
    /\ \A k \in Keys : record[k] = None \/ record[k] \subseteq 1..Len(submissions)
    /\ cooling \in BOOLEAN
    /\ \A r \in Runs :
          /\ client[r].at \in Places /\ client[r].task \in 1..Len(TasksOf[r])
          /\ client[r].seen \subseteq 1..Len(submissions)
          /\ client[r].file \in 0..Len(submissions)
    /\ \A a \in artifacts : a.run \in Runs /\ a.key \in Keys /\ a.file \in 1..Len(submissions)

\* A request of which something may still come is on record, in a row that does not count
\* it among the downloads there were, whoever was killed and whatever answer was lost: it is
\* not made again, and what comes of it is not mistaken for an old one.  It takes nobody else
\* to export the same report at the same time: the platform's queue does not say who asked.
NothingIsForgotten ==
    MaxForeign = 0 =>
        \A i \in 1..Len(submissions) :
            submissions[i].at \in {"sent", "building"} =>
                LET k == submissions[i].key IN
                /\ record[k] # None /\ i \notin record[k]
                /\ \A j \in 1..Len(submissions) :
                      j # i /\ submissions[j].key = k => submissions[j].at \in {"ready", "gone"}

\* A file is delivered once, by one run, and is a report the run was asked for.
DeliveredOnce ==
    /\ \A a, b \in artifacts : a.file = b.file => a = b
    /\ \A a \in artifacts : submissions[a.file].key = a.key /\ submissions[a.file].at = "ready"

ExportsInv == TypeOK /\ NothingIsForgotten /\ DeliveredOnce

\* When the platform has told the account to wait, nothing is submitted until the time is
\* over, also not by another process, and not in the moment before the answer is noted.
WaitsWhenTold ==
    (\E r \in Runs : At(r, "submit") /\ client'[r].at = "answer") =>
        ~cooling /\ \A other \in Runs : ~At(other, "limited")
=============================================================================
