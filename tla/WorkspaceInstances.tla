-------------------------- MODULE WorkspaceInstances --------------------------
(***************************************************************************)
(* The cached instructions and skills of worktrees: the leases turns take  *)
(* on them, the reloads that share one another, the watchers that tell of  *)
(* changes, and the eviction of the instances nobody uses.                 *)
(*                                                                         *)
(* Each worktree has one working directory here, hence an instance has one *)
(* view.  The instructions of a worktree are known by a version.           *)
(***************************************************************************)
EXTENDS Integers, FiniteSets

CONSTANTS
    Turns,        \* calls of acquire()
    Worktrees,
    WorktreeOf,   \* the worktree of a turn
    MaxInstances, \* maxInstances
    MaxChanges,   \* bound: changes of the instructions of a worktree
    MaxRevisions, \* bound: changes of the skill catalog
    MaxObjects,   \* bound: instances that are created
    NoInstance

Objects == 1..MaxObjects

WorkspaceInstancesAssumption ==
    /\ MaxObjects \in Nat /\ MaxChanges \in Nat /\ IsFiniteSet(Turns)
    /\ \A t \in Turns : WorktreeOf[t] \in Worktrees
    /\ NoInstance \notin Worktrees \cup Objects

VARIABLES
    files,   \* the version of each worktree's instructions on the disk
    skills,  \* the revision of the skill catalog, and lastSkillRevision
    noticed, \* watch events that did not arrive yet
    map,     \* instances
    older,   \* their order: the pairs of which the first is less recent
    inst,    \* the objects: worktree, activeLeases, and the view
    timer,   \* debounceTimer
    turn     \* where each turn stands, its instance, its snapshot

vars == <<files, skills, noticed, map, older, inst, timer, turn>>

-----------------------------------------------------------------------------
NoSnapshot == [text |-> 0, skills |-> 0]
NotReloading == [at |-> "idle", rev |-> 0, text |-> 0]

\* An object that does not exist yet, and the view of one that was just created.
NoObject == [tree |-> NoInstance, leases |-> 0, snapshot |-> NoSnapshot, fingerprint |-> 0,
             dirty |-> TRUE, rev |-> 1, reload |-> NotReloading]

Init ==
    /\ files = [w \in Worktrees |-> 1]
    /\ skills = [catalog |-> 1, last |-> 0]
    /\ noticed = {}
    /\ map = {} /\ older = {} /\ inst = [i \in Objects |-> NoObject]
    /\ timer = FALSE
    /\ turn = [t \in Turns |-> [state |-> "none", on |-> NoInstance, snapshot |-> NoSnapshot,
                                known |-> NoSnapshot]]

Loaded(i) == inst[i].snapshot # NoSnapshot
Created == {i \in Objects : inst[i].tree # NoInstance}

\* markAllDirty(): of the instances in the map.
Dirtied(is) ==
    [i \in Objects |-> IF i \in is THEN [inst[i] EXCEPT !.dirty = TRUE, !.rev = @ + 1] ELSE inst[i]]

\* What is known of the instructions: the changes whose event arrived.
Known(w) == files[w] - (IF w \in noticed THEN 1 ELSE 0)

-----------------------------------------------------------------------------
\* AGENTS.md is written; the watcher will tell, if there is an instance to be told.  One
\* event for a change, and the next change after it.
Change(w) ==
    /\ files[w] <= MaxChanges /\ w \notin noticed
    /\ files' = [files EXCEPT ![w] = @ + 1]
    /\ noticed' = noticed \cup {w}
    /\ UNCHANGED <<skills, map, older, inst, timer, turn>>

\* A watcher of a worktree calls back, if one is open: everything is dirty.
Watched(w) ==
    /\ w \in noticed /\ noticed' = noticed \ {w}
    /\ IF \E i \in map : inst[i].tree = w
       THEN inst' = Dirtied(map) /\ timer' = TRUE
       ELSE UNCHANGED <<inst, timer>>
    /\ UNCHANGED <<files, skills, map, older, turn>>

\* invalidate(): a change of the device permissions.
ChangeSkills ==
    /\ skills.catalog <= MaxRevisions
    /\ skills' = [skills EXCEPT !.catalog = @ + 1]
    /\ UNCHANGED <<files, noticed, map, older, inst, timer, turn>>

\* refreshSkillRevision(): of the objects os.
Refreshed(os) ==
    IF skills.catalog # skills.last
    THEN [i \in Objects |-> IF i \in map THEN [os[i] EXCEPT !.dirty = TRUE, !.rev = @ + 1]
                            ELSE os[i]]
    ELSE os

\* reloadView(): joined when one is under way.
Reloading(os, i) ==
    IF os[i].reload.at # "idle" THEN os
    ELSE [os EXCEPT ![i].reload = [at |-> "reading", rev |-> os[i].rev, text |-> 0]]

\* The debounce is over: reloadDirty().
TimerFires ==
    /\ timer /\ timer' = FALSE
    /\ LET os == Refreshed(inst)
           dirty == {i \in map : os[i].dirty}
       IN  inst' = [i \in Objects |-> IF i \in dirty THEN Reloading(os, i)[i] ELSE os[i]]
    /\ skills' = [skills EXCEPT !.last = skills.catalog]
    /\ UNCHANGED <<files, noticed, map, older, turn>>

\* The documents are read.
Read(i) ==
    /\ inst[i].reload.at = "reading"
    /\ inst' = [inst EXCEPT ![i].reload = [at |-> "read", rev |-> @.rev,
                                           text |-> files[inst[i].tree]]]
    /\ UNCHANGED <<files, skills, noticed, map, older, timer, turn>>

\* Fault: who joined a reload that began before the last change does not reload again.
ResumedAtOnce(i, dirty) ==
    [t \in Turns |-> IF turn[t].on = i /\ turn[t].state \in {"first", "second"}
                     THEN [turn[t] EXCEPT !.state = "ready"] ELSE turn[t]]

\* Who waits for the reload of instance i goes on; the second time whatever it brought.
Resumed(i, dirty) ==
    [t \in Turns |->
       IF turn[t].on # i \/ turn[t].state \notin {"first", "second"} THEN turn[t]
       ELSE IF turn[t].state = "first" /\ dirty THEN [turn[t] EXCEPT !.state = "again"]
       ELSE [turn[t] EXCEPT !.state = "ready"]]

ReloadEnds(i) ==
    /\ inst[i].reload.at = "read"
    /\ inst' = [inst EXCEPT ![i] = [@ EXCEPT
            !.snapshot = [text |-> inst[i].reload.text, skills |-> skills.catalog],
            !.fingerprint = files[inst[i].tree],
            !.dirty = inst[i].rev # inst[i].reload.rev,
            !.reload = NotReloading]]
    /\ turn' = Resumed(i, inst[i].rev # inst[i].reload.rev)
    /\ UNCHANGED <<files, skills, noticed, map, older, timer>>

\* The files cannot be read: turns go on with the snapshot there was, or fail.
ReloadFails(i) ==
    /\ inst[i].reload.at # "idle"
    /\ inst' = [inst EXCEPT ![i].reload = NotReloading]
    /\ turn' = [t \in Turns |->
         IF turn[t].on # i \/ turn[t].state \notin {"first", "second"} THEN turn[t]
         ELSE [turn[t] EXCEPT !.state = IF Loaded(i) THEN "stale" ELSE "failed"]]
    /\ UNCHANGED <<files, skills, noticed, map, older, timer>>

-----------------------------------------------------------------------------
\* The order of the map once instance i is put at its end, and the order that is left of it.
Latest(i) == {p \in older : i \notin {p[1], p[2]}} \cup ((map \ {i}) \X {i})
Among(before, m) == before \cap (m \X m)

\* evictOverflow(), removeInstance(): while there are too many, the least recent ones
\* that nobody leases, but not the one that was just created.
Evicted(m, before, os, i) ==
    LET idle == {j \in m \ {i} : os[j].leases = 0}
        place(j) == Cardinality({k \in idle : k = j \/ <<k, j>> \in before})
    IN  {j \in m : j \notin idle \/ place(j) > Cardinality(m) - MaxInstances}

\* acquire(): the instance of the worktree, found or created, and its check begins.
Acquire(t) ==
    LET w == WorktreeOf[t]
        found == {i \in map : inst[i].tree = w}
        new == CHOOSE i \in Objects : inst[i].tree = NoInstance
        start(i) == turn' = [turn EXCEPT ![t] = [state |-> "checking", on |-> i,
                                                 snapshot |-> NoSnapshot,
                                                 known |-> [text |-> Known(w), skills |-> 0]]]
    IN  /\ turn[t].state = "none"
        /\ \/ \E i \in found :
                 /\ older' = Latest(i) /\ start(i)
                 /\ UNCHANGED <<map, inst>>
           \/ /\ found = {} /\ Created # Objects
              /\ inst' = [inst EXCEPT ![new].tree = w]
              /\ map' = Evicted(map \cup {new}, Latest(new), inst', new)
              /\ older' = Among(Latest(new), map')
              /\ start(new)
        /\ UNCHANGED <<files, skills, noticed, timer>>

\* checkForChanges(): the skills always, the files when the last check is long ago.
Check(t) ==
    LET i == turn[t].on
        os == Refreshed(inst)
        after(state) == [turn EXCEPT ![t] = [@ EXCEPT !.state = state,
                                                      !.known.skills = skills.catalog]]
        changed == inst[i].fingerprint # 0 /\ inst[i].fingerprint # files[inst[i].tree]
    IN  /\ turn[t].state = "checking"
        /\ \E looks \in BOOLEAN :
             LET checked == IF looks /\ changed
                            THEN [os EXCEPT ![i] = [os[i] EXCEPT !.dirty = TRUE, !.rev = @ + 1]]
                            ELSE os
             IN  IF Loaded(i) /\ ~checked[i].dirty
                 THEN inst' = checked /\ turn' = after("ready")
                 ELSE inst' = Reloading(checked, i) /\ turn' = after("first")
        /\ skills' = [skills EXCEPT !.last = skills.catalog]
        /\ UNCHANGED <<files, noticed, map, older, timer>>

\* The skills cannot be read: nothing is looked at, and the turn goes on with the snapshot
\* there is, or fails.
CheckFails(t) ==
    /\ turn[t].state = "checking"
    /\ turn' = [turn EXCEPT ![t].state = IF Loaded(turn[t].on) THEN "stale" ELSE "failed"]
    /\ UNCHANGED <<files, skills, noticed, map, older, inst, timer>>

\* reloadCurrentView(): once more when it is dirty again.
ReloadAgain(t) ==
    /\ turn[t].state = "again"
    /\ inst' = Reloading(inst, turn[t].on)
    /\ turn' = [turn EXCEPT ![t].state = "second"]
    /\ UNCHANGED <<files, skills, noticed, map, older, timer>>

\* The lease is given: the snapshot of the turn is fixed.
Lease(t) ==
    LET i == turn[t].on
    IN  /\ turn[t].state \in {"ready", "stale"}
        /\ inst' = [inst EXCEPT ![i].leases = @ + 1]
        /\ turn' = [turn EXCEPT ![t] = [turn[t] EXCEPT
                        !.snapshot = inst[i].snapshot,
                        !.state = IF turn[t].state = "ready" THEN "leased" ELSE "leased stale"]]
        /\ UNCHANGED <<files, skills, noticed, map, older, timer>>

\* release()
Release(t) ==
    LET i == turn[t].on
    IN  /\ turn[t].state \in {"leased", "leased stale"}
        /\ inst' = [inst EXCEPT ![i].leases = @ - 1]
        /\ map' = Evicted(map, older, inst', NoInstance) /\ older' = Among(older, map')
        /\ turn' = [turn EXCEPT ![t].state = "released"]
        /\ UNCHANGED <<files, skills, noticed, timer>>

\* sweepIdle(): an instance goes that was idle for long, so that no turn asks for it.
SweepIdle ==
    /\ \E i \in map :
         /\ inst[i].leases = 0 /\ map' = map \ {i} /\ older' = Among(older, map')
         /\ \A t \in Turns : turn[t].on = i => turn[t].state \in {"released", "failed"}
    /\ UNCHANGED <<files, skills, noticed, inst, timer, turn>>

Next ==
    \/ \E w \in Worktrees : Change(w) \/ Watched(w)
    \/ ChangeSkills \/ TimerFires \/ SweepIdle
    \/ \E i \in Objects : Read(i) \/ ReloadEnds(i) \/ ReloadFails(i)
    \/ \E t \in Turns : \/ Acquire(t) \/ Check(t) \/ CheckFails(t) \/ ReloadAgain(t)
                        \/ Lease(t) \/ Release(t)

Spec == Init /\ [][Next]_vars

-----------------------------------------------------------------------------
TypeOK ==
    /\ files \in [Worktrees -> 1..(MaxChanges + 1)] /\ noticed \subseteq Worktrees
    /\ map \subseteq Created /\ older \subseteq map \X map
    /\ \A i \in Objects : inst[i].leases \in Nat /\ inst[i].dirty \in BOOLEAN
    /\ timer \in BOOLEAN
    /\ \A t \in Turns : turn[t].on \in Objects \cup {NoInstance}

\* A turn is given every change of its instructions that was known when it asked for
\* them, also when it joined a reload that began before: unless the files or the skills
\* cannot be read, or its instance was evicted while it asked.
KnownChangesAreUsed ==
    \A t \in Turns : turn[t].state = "leased" /\ turn[t].on \in map =>
      /\ turn[t].snapshot.text >= turn[t].known.text
      /\ turn[t].snapshot.skills >= turn[t].known.skills

\* A cached view that is not current is dirty or will be: its event is to come.
StaleIsDirty ==
    \A i \in map : Loaded(i) /\ inst[i].snapshot.text # files[inst[i].tree] =>
      inst[i].dirty \/ inst[i].tree \in noticed

\* One instance for a worktree, and none that is leased and gone but one that was not
\* leased yet when it went.
OneInstancePerWorktree ==
    \A i, j \in map : inst[i].tree = inst[j].tree => i = j

WorkspacesInv == TypeOK /\ KnownChangesAreUsed /\ StaleIsDirty /\ OneInstancePerWorktree

=============================================================================
