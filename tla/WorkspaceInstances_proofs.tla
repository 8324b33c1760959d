----------------------- MODULE WorkspaceInstances_proofs -----------------------
(***************************************************************************)
(* Proofs about WorkspaceInstances, for any turns, any worktrees and any   *)
(* number of instances, changes and revisions.                             *)
(*                                                                         *)
(* The argument: the revision of a view grows whenever something about it  *)
(* becomes known, so that a reload whose revision is still the view's has  *)
(* every change that was known, and leaves it clean; one that was overtaken*)
(* leaves it dirty.  A turn that joined a reload which was overtaken       *)
(* begins another, which reads after the turn has asked.  And leases are   *)
(* counted, so that none is given back that was not taken.                 *)
(***************************************************************************)
EXTENDS WorkspaceInstances, FiniteSetTheorems, TLAPS

\* The turns that hold a lease of instance i.
Holders(i) == {t \in Turns : turn[t].on = i /\ turn[t].state \in {"leased", "leased stale"}}

\* The records of a snapshot, a reload, an instance and a turn.
Snapshots == [text : Nat, skills : Nat]
Reloads == [at : {"idle", "reading", "read"}, rev : Nat, text : Nat]
Instances == [tree : Worktrees \cup {NoInstance}, leases : Nat, snapshot : Snapshots,
              fingerprint : Nat, dirty : BOOLEAN, rev : Nat, reload : Reloads]
TurnStates == {"none", "checking", "first", "again", "second", "ready", "stale", "leased",
               "leased stale", "released", "failed"}
TurnRecords == [state : TurnStates, on : Objects \cup {NoInstance}, snapshot : Snapshots,
                known : Snapshots]

\* Every variable in its range; the bounds are apart.
Shapes ==
    /\ files \in [Worktrees -> Nat \ {0}] /\ skills \in [catalog : Nat, last : Nat]
    /\ inst \in [Objects -> Instances] /\ turn \in [Turns -> TurnRecords]
    /\ noticed \subseteq Worktrees /\ map \subseteq Created

\* activeLeases counts the turns that hold a lease.
LeasesCounted == \A i \in Objects : inst[i].leases = Cardinality(Holders(i))

\* The bounds of the model, and the order of the map is one of its own.
Bounds ==
    /\ files \in [Worktrees -> 1..(MaxChanges + 1)] /\ older \subseteq map \X map
    /\ timer \in BOOLEAN

\* An object that was not created is as objects begin.
NewOnesAreBlank == \A i \in Objects : inst[i].tree = NoInstance => inst[i] = NoObject

\* A turn that asked has an instance, and knows of no change that is not there.
HasInstance(t) == turn[t].state # "none" =>
    /\ turn[t].on \in Created
    /\ turn[t].known.text <= Known(inst[turn[t].on].tree)
    /\ turn[t].known.skills <= skills.catalog

\* And so every turn.
TurnsHaveInstances == \A t \in Turns : HasInstance(t)

\* What an instance has read is not newer than what there is; a reload begins before the
\* revision it has now.
Grows(i) ==
    /\ inst[i].snapshot.text <= files[inst[i].tree]
    /\ inst[i].snapshot.skills <= skills.catalog
    /\ inst[i].reload.at = "read" =>
         /\ inst[i].snapshot.text <= inst[i].reload.text
         /\ inst[i].reload.text <= files[inst[i].tree]
    /\ inst[i].reload.at # "idle" => inst[i].reload.rev <= inst[i].rev

\* And so every instance that was created.
VersionsGrow ==
    /\ skills.last <= skills.catalog /\ skills.catalog >= 1
    /\ \A i \in Created : Grows(i)

\* A view that is not dirty has every change whose event arrived; so has a reload that began
\* at the present revision.
Current(i) ==
    /\ Loaded(i) /\ ~inst[i].dirty =>
          /\ inst[i].snapshot.text >= Known(inst[i].tree)
          /\ inst[i].snapshot.skills >= skills.last
    /\ inst[i].reload.at = "read" /\ inst[i].reload.rev = inst[i].rev =>
          inst[i].reload.text >= Known(inst[i].tree)

\* And so every instance of the map; one that was evicted is told of nothing.
ViewsAreCurrent == \A i \in map : Current(i)

\* A turn that waits for a reload, or goes on with a view, has what it knew of or will get it.
Served(t) == turn[t].on \in map =>
    LET i == turn[t].on IN
    /\ turn[t].state = "ready" => /\ inst[i].snapshot.text >= turn[t].known.text
                                  /\ inst[i].snapshot.skills >= turn[t].known.skills
    /\ turn[t].state \in {"again", "second"} /\ inst[i].reload.at = "read" =>
          inst[i].reload.text >= turn[t].known.text
    /\ turn[t].state = "leased" => /\ turn[t].snapshot.text >= turn[t].known.text
                                   /\ turn[t].snapshot.skills >= turn[t].known.skills

\* And so every turn.
TurnsAreServed == \A t \in Turns : Served(t)

\* The inductive invariant of the views; it does not need the leases to be counted.
ViewsInv ==
    /\ Shapes /\ NewOnesAreBlank /\ TurnsHaveInstances /\ VersionsGrow
    /\ ViewsAreCurrent /\ TurnsAreServed /\ OneInstancePerWorktree

\* The inductive invariant.
WorkspaceInv == ViewsInv /\ LeasesCounted /\ Bounds

USE DEF Objects
-----------------------------------------------------------------------------
\* Nothing is cached.
LEMMA InitViews == ASSUME WorkspaceInstancesAssumption, Init PROVE ViewsInv
<1>1. Shapes
  BY DEF Shapes, Init, Instances, NoObject, NoSnapshot, NotReloading, TurnRecords, TurnStates,
     Snapshots, Reloads, Created, WorkspaceInstancesAssumption
<1>2. \A i \in Objects : inst[i] = NoObject
  BY DEF Init
<1>3. Created = {}
  BY <1>2 DEF Created, NoObject
<1> QED
  BY <1>1, <1>2, <1>3 DEF Init, ViewsInv, NewOnesAreBlank, TurnsHaveInstances, HasInstance,
     VersionsGrow, ViewsAreCurrent, TurnsAreServed, Served, OneInstancePerWorktree

\* What the types say of the instances that were created.
LEMMA CreatedOnes ==
    ASSUME Shapes
    PROVE  /\ \A i \in Created : i \in Objects /\ inst[i].tree \in Worktrees
           /\ \A i \in map : i \in Created /\ i \in Objects /\ inst[i].tree \in Worktrees
           /\ \A i \in Objects : inst[i] \in Instances
           /\ \A v \in Worktrees : files[v] \in Nat /\ Known(v) \in Nat /\ Known(v) <= files[v]
           /\ skills.catalog \in Nat /\ skills.last \in Nat
  BY DEF Shapes, Created, Instances, Known

\* What a step that only marks views and begins reloads does to an instance.
Touched(i) ==
    /\ inst'[i] \in Instances
    /\ inst'[i].tree = inst[i].tree /\ inst'[i].leases = inst[i].leases
    /\ inst'[i].snapshot = inst[i].snapshot
    /\ \/ inst'[i].dirty = inst[i].dirty /\ inst'[i].rev = inst[i].rev
       \/ inst'[i].dirty /\ inst'[i].rev > inst[i].rev
    /\ \/ inst'[i].reload = inst[i].reload
       \/ /\ inst[i].reload.at = "idle" /\ inst'[i].reload.at = "reading"
          /\ inst'[i].reload.rev <= inst'[i].rev
    /\ inst[i].tree = NoInstance => inst'[i] = inst[i]

\* An instance is marked dirty, at a new revision.
Marked(i) == inst'[i].dirty /\ inst'[i].rev > inst[i].rev

\* markAllDirty() marks the instances of the map and touches the others at most.
LEMMA DirtiedOnes ==
    ASSUME Shapes, inst' = Dirtied(map), NEW i \in Objects
    PROVE  Touched(i) /\ (i \in map => Marked(i))
<1>1. CASE i \in map
  <2>1. inst'[i] = [inst[i] EXCEPT !.dirty = TRUE, !.rev = @ + 1]
    BY <1>1 DEF Dirtied
  <2>2. inst[i] \in Instances /\ inst[i].tree # NoInstance
    BY <1>1 DEF Shapes, Created
  <2>3. inst[i].rev \in Nat /\ inst[i].rev + 1 \in Nat /\ inst[i].rev + 1 > inst[i].rev
    BY <2>2 DEF Instances
  <2>4. inst'[i] \in Instances
    BY <2>1, <2>2, <2>3 DEF Instances
  <2>5. /\ inst'[i].tree = inst[i].tree /\ inst'[i].leases = inst[i].leases
        /\ inst'[i].snapshot = inst[i].snapshot /\ inst'[i].reload = inst[i].reload
        /\ inst'[i].dirty /\ inst'[i].rev = inst[i].rev + 1
    BY <2>1, <2>2 DEF Instances
  <2> QED
    BY <2>2, <2>3, <2>4, <2>5 DEF Touched, Marked
<1>2. CASE i \notin map
  BY <1>2 DEF Dirtied, Touched, Shapes
<1> QED
  BY <1>1, <1>2

\* Instances that are only touched stay current, when all of the map are marked that a change
\* became known for.
LEMMA TouchKeeps ==
    ASSUME ViewsInv, \A i \in Objects : Touched(i), DOMAIN inst' = Objects,
           inst' = [i \in Objects |-> inst'[i]],
           files' = files, map' = map, noticed' \subseteq noticed,
           skills' \in [catalog : Nat, last : Nat], skills'.catalog = skills.catalog,
           skills'.last \in {skills.last, skills.catalog},
           \A v \in Worktrees : Known(v)' \in Int /\ Known(v)' >= Known(v),
           \A i \in map : (\/ Known(inst[i].tree)' # Known(inst[i].tree)
                           \/ skills'.last # skills.last) => Marked(i)
    PROVE  /\ files' \in [Worktrees -> Nat \ {0}] /\ skills' \in [catalog : Nat, last : Nat]
           /\ inst' \in [Objects -> Instances]
           /\ noticed' \subseteq Worktrees /\ map' \subseteq Created'
           /\ NewOnesAreBlank' /\ VersionsGrow' /\ ViewsAreCurrent' /\ OneInstancePerWorktree'
           /\ Created' = Created
           /\ \A t \in Turns : turn'[t] = turn[t] => HasInstance(t)' /\ Served(t)'
<1>0. Shapes
  BY DEF ViewsInv
<1>a. Created' = Created
  BY DEF Created, Touched
<1>1. /\ files' \in [Worktrees -> Nat \ {0}] /\ skills' \in [catalog : Nat, last : Nat]
      /\ inst' \in [Objects -> Instances]
      /\ noticed' \subseteq Worktrees /\ map' \subseteq Created'
  BY <1>0, <1>a DEF Shapes, Touched
<1>2. NewOnesAreBlank' /\ OneInstancePerWorktree'
  BY <1>0, CreatedOnes DEF ViewsInv, NewOnesAreBlank, OneInstancePerWorktree, Touched
<1>3. VersionsGrow'
  <2>1. skills'.last <= skills'.catalog /\ skills'.catalog >= 1
    BY <1>0, CreatedOnes DEF ViewsInv, VersionsGrow, Grows
  <2>2. ASSUME NEW i \in Created
        PROVE  /\ inst'[i].snapshot.text <= files'[inst'[i].tree]
               /\ inst'[i].snapshot.skills <= skills'.catalog
               /\ inst'[i].reload.at = "read" =>
                    /\ inst'[i].snapshot.text <= inst'[i].reload.text
                    /\ inst'[i].reload.text <= files'[inst'[i].tree]
               /\ inst'[i].reload.at # "idle" => inst'[i].reload.rev <= inst'[i].rev
    <3>1. /\ i \in Objects /\ inst[i] \in Instances /\ Touched(i)
      BY <2>2, <1>0, CreatedOnes
    <3>2. /\ inst[i].snapshot.text <= files[inst[i].tree]
          /\ inst[i].snapshot.skills <= skills.catalog
          /\ inst[i].reload.at = "read" =>
               /\ inst[i].snapshot.text <= inst[i].reload.text
               /\ inst[i].reload.text <= files[inst[i].tree]
          /\ inst[i].reload.at # "idle" => inst[i].reload.rev <= inst[i].rev
      BY <2>2 DEF ViewsInv, VersionsGrow, Grows
    <3> QED
      BY <3>1, <3>2 DEF Touched, Instances, Snapshots, Reloads
  <2> QED
    BY <2>1, <2>2, <1>a DEF VersionsGrow, Grows
<1>4. ViewsAreCurrent'
  <2>1. SUFFICES ASSUME NEW i \in map
                 PROVE  (/\ Loaded(i) /\ ~inst[i].dirty =>
                              /\ inst[i].snapshot.text >= Known(inst[i].tree)
                              /\ inst[i].snapshot.skills >= skills.last
                         /\ inst[i].reload.at = "read" /\ inst[i].reload.rev = inst[i].rev =>
                              inst[i].reload.text >= Known(inst[i].tree))'
    BY DEF ViewsAreCurrent, Current
  <2>2. i \in Created /\ i \in Objects /\ inst[i].tree \in Worktrees /\ inst[i] \in Instances
    BY <1>0, CreatedOnes
  <2>3. Touched(i) /\ inst'[i].tree = inst[i].tree /\ (Loaded(i)' => Loaded(i))
    BY <2>2 DEF Touched, Loaded, NoSnapshot
  <2>4. CASE Marked(i)
    BY <2>2, <2>3, <2>4 DEF Marked, Touched, ViewsInv, VersionsGrow, Grows, Instances, Reloads
  <2>5. CASE ~Marked(i)
    <3>1. Known(inst[i].tree)' = Known(inst[i].tree) /\ skills'.last = skills.last
      BY <2>5
    <3> QED
      BY <2>2, <2>3, <2>5, <3>1 DEF Marked, Touched, ViewsInv, ViewsAreCurrent, Current,
         Instances, Reloads
  <2> QED
    BY <2>4, <2>5
<1>5. ASSUME NEW t \in Turns, turn'[t] = turn[t]
      PROVE  HasInstance(t)' /\ Served(t)'
  <2>1. HasInstance(t) /\ Served(t) /\ turn[t] \in TurnRecords
    BY <1>0 DEF ViewsInv, TurnsHaveInstances, TurnsAreServed, Shapes
  <2>2. HasInstance(t)'
    <3>1. SUFFICES ASSUME turn[t].state # "none"
          PROVE /\ turn[t].on \in Created
                /\ (turn[t].known.text <= Known(inst[turn[t].on].tree))'
                /\ turn[t].known.skills <= skills.catalog
      BY <1>5, <1>a DEF HasInstance
    <3>2. turn[t].on \in Created /\ inst[turn[t].on].tree \in Worktrees /\ turn[t].on \in Objects
      BY <3>1, <2>1, <1>0, CreatedOnes DEF HasInstance
    <3> QED
      <4>1. Touched(turn[t].on) /\ inst'[turn[t].on].tree = inst[turn[t].on].tree
        BY <3>2 DEF Touched
      <4>2. turn[t].known.text \in Nat /\ turn[t].known.text <= Known(inst[turn[t].on].tree)
        BY <2>1, <3>1 DEF HasInstance, TurnRecords, Snapshots
      <4>3. PICK v \in Worktrees : v = inst[turn[t].on].tree
        BY <3>2
      <4>4. Known(v) \in Int /\ Known(v)' \in Int /\ Known(v)' >= Known(v)
        BY <1>0, CreatedOnes
      <4>5. (Known(inst[turn[t].on].tree))' = Known(v)'
        BY <1>5, <4>1, <4>3 DEF Known
      <4> QED
        BY <1>5, <2>1, <3>1, <3>2, <4>2, <4>3, <4>4, <4>5 DEF HasInstance
  <2>3. Served(t)'
    <3>1. SUFFICES ASSUME turn[t].on \in map
                   PROVE  Served(t)'
      BY <1>5 DEF Served
    <3>2. turn[t].on \in Objects /\ Touched(turn[t].on)
      BY <3>1, <1>0, CreatedOnes
    <3> QED
      BY <1>5, <2>1, <3>1, <3>2 DEF Served, Touched
  <2> QED
    BY <2>2, <2>3
<1> QED
  BY <1>1, <1>2, <1>3, <1>4, <1>5, <1>a

\* A change of the instructions is not known before its event.
LEMMA ChangeKeeps ==
    ASSUME WorkspaceInstancesAssumption, ViewsInv, NEW w \in Worktrees, Change(w) PROVE ViewsInv'
<1> USE DEF ViewsInv, Change
<1>1. \A v \in Worktrees : /\ files'[v] >= files[v] /\ files'[v] \in Nat /\ files[v] \in Nat
                             /\ Known(v)' = Known(v) /\ Known(v) \in Int
  BY DEF Shapes, Known
<1>2. Shapes'
  BY DEF Shapes, Created
<1>3. NewOnesAreBlank' /\ OneInstancePerWorktree' /\ Created' = Created
  BY DEF NewOnesAreBlank, OneInstancePerWorktree, Created
<1>4. \A i \in Created : inst[i].tree \in Worktrees /\ inst[i] \in Instances
  BY DEF Created, Shapes, Instances
<1>5. TurnsHaveInstances'
  BY <1>1, <1>3, <1>4 DEF TurnsHaveInstances, HasInstance
<1>6. VersionsGrow'
  BY <1>1, <1>3, <1>4 DEF VersionsGrow, Grows, Instances, Snapshots, Reloads
<1>7. ViewsAreCurrent'
  BY <1>1, <1>3, <1>4 DEF ViewsAreCurrent, Current, Shapes, Loaded
<1>8. TurnsAreServed'
  BY DEF TurnsAreServed, Served
<1> QED
  BY <1>2, <1>3, <1>5, <1>6, <1>7, <1>8

\* The event marks every instance that the change became known for.
LEMMA WatchedKeeps ==
    ASSUME WorkspaceInstancesAssumption, ViewsInv, NEW w \in Worktrees, Watched(w) PROVE ViewsInv'
<1>0. Shapes
  BY DEF ViewsInv
<1>1. \A v \in Worktrees : /\ Known(v)' \in Int /\ Known(v)' >= Known(v)
                           /\ v # w => Known(v)' = Known(v)
  BY <1>0, CreatedOnes DEF Watched, Known
<1>2. CASE \E i \in map : inst[i].tree = w
  <2>1. inst' = Dirtied(map)
    BY <1>2 DEF Watched
  <2>2. \A i \in Objects : Touched(i) /\ (i \in map => Marked(i))
    BY <1>0, <2>1, DirtiedOnes
  <2>3. \A i \in map : Marked(i)
    BY <1>0, <2>2, CreatedOnes
  <2>4. DOMAIN inst' = Objects /\ inst' = [i \in Objects |-> inst'[i]]
    BY <2>1 DEF Dirtied
  <2>5. /\ files' \in [Worktrees -> Nat \ {0}] /\ skills' \in [catalog : Nat, last : Nat]
        /\ inst' \in [Objects -> Instances]
        /\ noticed' \subseteq Worktrees /\ map' \subseteq Created'
        /\ NewOnesAreBlank' /\ VersionsGrow' /\ ViewsAreCurrent' /\ OneInstancePerWorktree'
        /\ Created' = Created
        /\ \A t \in Turns : turn'[t] = turn[t] => HasInstance(t)' /\ Served(t)'
    BY <1>0, <1>1, <2>2, <2>3, <2>4, TouchKeeps DEF Watched, Shapes
  <2> QED
    BY <1>0, <2>5 DEF ViewsInv, Watched, Shapes, TurnsHaveInstances, TurnsAreServed
<1>3. CASE ~\E i \in map : inst[i].tree = w
  <2>1. inst' = inst
    BY <1>3 DEF Watched
  <2>2. \A i \in Objects : Touched(i)
    BY <1>0, <2>1, CreatedOnes DEF Touched
  <2>4. DOMAIN inst' = Objects /\ inst' = [i \in Objects |-> inst'[i]]
    BY <2>1, <1>0 DEF Shapes
  <2>3. \A i \in map : Known(inst[i].tree)' = Known(inst[i].tree) /\ skills' = skills
    BY <1>0, <1>1, <1>3, CreatedOnes DEF Watched
  <2>5. /\ files' \in [Worktrees -> Nat \ {0}] /\ skills' \in [catalog : Nat, last : Nat]
        /\ inst' \in [Objects -> Instances]
        /\ noticed' \subseteq Worktrees /\ map' \subseteq Created'
        /\ NewOnesAreBlank' /\ VersionsGrow' /\ ViewsAreCurrent' /\ OneInstancePerWorktree'
        /\ Created' = Created
        /\ \A t \in Turns : turn'[t] = turn[t] => HasInstance(t)' /\ Served(t)'
    BY <1>0, <1>1, <2>2, <2>3, <2>4, TouchKeeps DEF Watched, Shapes
  <2> QED
    BY <1>0, <2>5 DEF ViewsInv, Watched, Shapes, TurnsHaveInstances, TurnsAreServed
<1> QED
  BY <1>2, <1>3

\* A change of the skills is found out later.
LEMMA ChangeSkillsKeeps ==
    ASSUME WorkspaceInstancesAssumption, ViewsInv, ChangeSkills PROVE ViewsInv'
<1>0. Shapes
  BY DEF ViewsInv
<1>1. /\ skills'.last = skills.last /\ skills'.catalog = skills.catalog + 1
      /\ skills' \in [catalog : Nat, last : Nat]
  BY <1>0 DEF ChangeSkills, Shapes
<1>2. Created' = Created /\ \A v \in Worktrees : Known(v)' = Known(v)
  BY DEF ChangeSkills, Created, Known
<1>3. Shapes' /\ NewOnesAreBlank' /\ OneInstancePerWorktree' /\ TurnsAreServed'
  BY <1>0, <1>1, <1>2 DEF ChangeSkills, Shapes, ViewsInv, NewOnesAreBlank,
     OneInstancePerWorktree,
     TurnsAreServed, Served
<1>4. VersionsGrow'
  BY <1>0, <1>1, <1>2, CreatedOnes DEF ChangeSkills, ViewsInv, VersionsGrow, Grows, Instances,
     Snapshots
<1>5. ViewsAreCurrent'
  BY <1>0, <1>1, <1>2, CreatedOnes DEF ChangeSkills, ViewsInv, ViewsAreCurrent, Current,
     Loaded, Known
<1>6. TurnsHaveInstances'
  BY <1>0, <1>1, <1>2, CreatedOnes DEF ChangeSkills, ViewsInv, TurnsHaveInstances, HasInstance,
     Shapes, TurnRecords, Snapshots, Known
<1> QED
  BY <1>3, <1>4, <1>5, <1>6 DEF ViewsInv

\* What the steps say of one object of os, where inst has it.
SameBut(o, i) ==
    /\ o \in Instances
    /\ o.tree = inst[i].tree /\ o.leases = inst[i].leases /\ o.snapshot = inst[i].snapshot
    /\ o.reload = inst[i].reload
    /\ \/ o.dirty = inst[i].dirty /\ o.rev = inst[i].rev
       \/ o.dirty /\ o.rev > inst[i].rev
    /\ inst[i].tree = NoInstance => o = inst[i]

\* refreshSkillRevision() marks the instances of the map when the skills have changed.
LEMMA RefreshedOnes ==
    ASSUME Shapes
    PROVE  /\ Refreshed(inst) \in [Objects -> Instances]
           /\ \A i \in Objects : SameBut(Refreshed(inst)[i], i)
           /\ \A i \in map : skills.catalog # skills.last =>
                 Refreshed(inst)[i].dirty /\ Refreshed(inst)[i].rev > inst[i].rev
<1> DEFINE os == Refreshed(inst)
<1>1. CASE skills.catalog = skills.last
  <2>1. os = inst
    BY <1>1 DEF Refreshed
  <2> QED
    BY <1>1, <2>1 DEF SameBut, Shapes
<1>2. CASE skills.catalog # skills.last
  <2>0. os = [i \in Objects |-> IF i \in map THEN [inst[i] EXCEPT !.dirty = TRUE, !.rev = @ + 1]
                                ELSE inst[i]]
    BY <1>2 DEF Refreshed
  <2>1. ASSUME NEW i \in Objects
        PROVE  /\ SameBut(os[i], i) /\ os[i] \in Instances
               /\ i \in map => os[i].dirty /\ os[i].rev > inst[i].rev
    <3>1. CASE i \in map
      <4>1. os[i] = [inst[i] EXCEPT !.dirty = TRUE, !.rev = @ + 1]
        BY <2>0, <3>1
      <4>2. inst[i] \in Instances /\ inst[i].tree # NoInstance
        BY <3>1 DEF Shapes, Created
      <4>3. inst[i].rev \in Nat /\ inst[i].rev + 1 \in Nat /\ inst[i].rev + 1 > inst[i].rev
        BY <4>2 DEF Instances
      <4>4. os[i] \in Instances
        BY <4>1, <4>2, <4>3 DEF Instances
      <4>5. /\ os[i].tree = inst[i].tree /\ os[i].leases = inst[i].leases
            /\ os[i].snapshot = inst[i].snapshot /\ os[i].reload = inst[i].reload
            /\ os[i].dirty /\ os[i].rev = inst[i].rev + 1
        BY <4>1, <4>2 DEF Instances
      <4> QED
        BY <4>2, <4>3, <4>4, <4>5 DEF SameBut
    <3>2. CASE i \notin map
      <4>1. os[i] = inst[i] /\ inst[i] \in Instances
        BY <2>0, <3>2 DEF Shapes
      <4> QED
        BY <3>2, <4>1 DEF SameBut
    <3> QED
      BY <3>1, <3>2
  <2>2. os \in [Objects -> Instances]
    BY <2>0, <2>1
  <2> QED
    BY <2>1, <2>2 DEF Shapes, Created
<1> QED
  BY <1>1, <1>2

\* What a reload that begins changes of an object p.
OnlyReloads(o, p) ==
    /\ o.tree = p.tree /\ o.leases = p.leases /\ o.snapshot = p.snapshot
    /\ o.dirty = p.dirty /\ o.rev = p.rev
    /\ \/ o.reload = p.reload
       \/ p.reload.at = "idle" /\ o.reload.at = "reading" /\ o.reload.rev = p.rev

\* A reload that begins does so at the present revision.
LEMMA ReloadingOnes ==
    ASSUME NEW os \in [Objects -> Instances], NEW i \in Objects
    PROVE  /\ Reloading(os, i) \in [Objects -> Instances]
           /\ \A j \in Objects \ {i} : Reloading(os, i)[j] = os[j]
           /\ OnlyReloads(Reloading(os, i)[i], os[i])
<1>0. os[i] \in Instances /\ os[i].rev \in Nat
  BY DEF Instances
<1>1. CASE os[i].reload.at # "idle"
  BY <1>1 DEF Reloading, OnlyReloads
<1>2. CASE os[i].reload.at = "idle"
  <2>1. Reloading(os, i) =
          [os EXCEPT ![i].reload = [at |-> "reading", rev |-> os[i].rev, text |-> 0]]
    BY <1>2 DEF Reloading
  <2>2. [at |-> "reading", rev |-> os[i].rev, text |-> 0] \in Reloads
    BY <1>0 DEF Reloads
  <2>3. [os[i] EXCEPT !.reload = [at |-> "reading", rev |-> os[i].rev,
  text |-> 0]] \in Instances
    BY <1>0, <2>2 DEF Instances
  <2>4. Reloading(os, i)[i] =
          [os[i] EXCEPT !.reload = [at |-> "reading", rev |-> os[i].rev, text |-> 0]]
    BY <2>1
  <2> QED
    BY <1>0, <1>2, <2>1, <2>3, <2>4 DEF Instances, OnlyReloads
<1> QED
  BY <1>1, <1>2

\* The debounce: what is dirty begins to reload.
LEMMA TimerFiresKeeps ==
    ASSUME WorkspaceInstancesAssumption, ViewsInv, TimerFires
    PROVE  ViewsInv' /\ \A i \in Objects : Touched(i)
<1> DEFINE os == Refreshed(inst)
           dirty == {i \in map : os[i].dirty}
<1>0. Shapes
  BY DEF ViewsInv
<1>1. inst' = [i \in Objects |-> IF i \in dirty THEN Reloading(os, i)[i] ELSE os[i]]
  BY DEF TimerFires
<1>2. os \in [Objects -> Instances] /\ \A i \in Objects : SameBut(os[i], i)
  BY <1>0, RefreshedOnes
<1>3. ASSUME NEW i \in Objects
      PROVE  Touched(i) /\ (i \in map /\ skills.catalog # skills.last => Marked(i))
  <2>1. SameBut(os[i], i) /\ os[i] \in Instances /\ inst[i] \in Instances
    BY <1>0, <1>2 DEF Shapes
  <2>2. CASE i \in dirty
    <3>1. inst'[i] = Reloading(os, i)[i] /\ inst[i].tree # NoInstance /\ i \in map
      BY <1>0, <1>1, <2>2 DEF Shapes, Created
    <3>a. os \in [Objects -> Instances]
      BY <1>2
    <3>b. /\ Reloading(os, i) \in [Objects -> Instances]
          /\ OnlyReloads(Reloading(os, i)[i], os[i])
      <4> HIDE DEF os
      <4> QED
        BY <3>a, ReloadingOnes
    <3>2. inst'[i] \in Instances
      BY <3>b, <3>1
    <3>3. /\ inst'[i].tree = os[i].tree /\ inst'[i].leases = os[i].leases
          /\ inst'[i].snapshot = os[i].snapshot
          /\ inst'[i].dirty = os[i].dirty /\ inst'[i].rev = os[i].rev
          /\ \/ inst'[i].reload = os[i].reload
             \/ /\ os[i].reload.at = "idle" /\ inst'[i].reload.at = "reading"
                /\ inst'[i].reload.rev = os[i].rev
      BY <3>b, <3>1 DEF OnlyReloads
    <3>4. os[i].rev \in Nat
      BY <2>1 DEF Instances
    <3> QED
      BY <1>0, <2>1, <3>1, <3>2, <3>3, <3>4, RefreshedOnes DEF Touched, SameBut, Marked
  <2>3. CASE i \notin dirty
    <3>1. inst'[i] = os[i]
      BY <1>1, <2>3
    <3> QED
      BY <1>0, <2>1, <3>1, RefreshedOnes DEF Touched, SameBut, Marked
  <2> QED
    BY <2>2, <2>3
<1>4. DOMAIN inst' = Objects /\ inst' = [i \in Objects |-> inst'[i]]
  BY <1>1
<1>5. /\ skills' \in [catalog : Nat, last : Nat] /\ skills'.catalog = skills.catalog
      /\ skills'.last = skills.catalog
  BY <1>0 DEF TimerFires, Shapes
<1>6. \A v \in Worktrees : Known(v)' = Known(v) /\ Known(v)' \in Int /\ Known(v)' >= Known(v)
  BY <1>0, CreatedOnes DEF TimerFires, Known
<1>7. \A i \in map : (Known(inst[i].tree))' = Known(inst[i].tree)
  BY <1>0, <1>3, CreatedOnes DEF TimerFires, Known, Touched
<1>8. /\ files' \in [Worktrees -> Nat \ {0}] /\ skills' \in [catalog : Nat, last : Nat]
      /\ inst' \in [Objects -> Instances]
      /\ noticed' \subseteq Worktrees /\ map' \subseteq Created'
      /\ NewOnesAreBlank' /\ VersionsGrow' /\ ViewsAreCurrent' /\ OneInstancePerWorktree'
      /\ Created' = Created
      /\ \A t \in Turns : turn'[t] = turn[t] => HasInstance(t)' /\ Served(t)'
  <2>1. files' = files /\ map' = map /\ noticed' = noticed
    BY DEF TimerFires
  <2>2. \A i \in map : i \in Objects
    BY <1>0, CreatedOnes
  <2>3. \A i \in map : (\/ Known(inst[i].tree)' # Known(inst[i].tree)
                        \/ skills'.last # skills.last) => Marked(i)
    BY <1>3, <1>5, <1>7, <2>2
  <2>4. \A i \in Objects : Touched(i)
    BY <1>3
  <2> HIDE DEF os, dirty
  <2> QED
    BY <1>4, <1>5, <1>6, <2>1, <2>3, <2>4, TouchKeeps
<1> QED
  BY <1>0, <1>3, <1>8 DEF ViewsInv, TimerFires, Shapes, TurnsHaveInstances, TurnsAreServed

\* One instance changes its view, and is current again.
LEMMA OneChanges ==
    ASSUME ViewsInv, NEW i \in Created, NEW o \in Instances, o.tree = inst[i].tree,
           inst' = [inst EXCEPT ![i] = o],
           files' = files, skills' = skills, noticed' = noticed, map' \subseteq map,
           Grows(i)', i \in map' => Current(i)'
    PROVE  /\ inst' \in [Objects -> Instances] /\ map' \subseteq Created'
           /\ Created' = Created /\ inst'[i] = o
           /\ NewOnesAreBlank' /\ VersionsGrow' /\ ViewsAreCurrent' /\ OneInstancePerWorktree'
           /\ \A t \in Turns :
                 turn'[t].on = turn[t].on /\ turn'[t].known = turn[t].known
                 /\ turn[t].state # "none" => HasInstance(t)'
           /\ \A t \in Turns : turn'[t] = turn[t] =>
                 HasInstance(t)' /\ (turn[t].on # i => Served(t)')
<1>0. Shapes
  BY DEF ViewsInv
<1>1. /\ i \in Objects /\ inst'[i] = o /\ \A j \in Objects \ {i} : inst'[j] = inst[j]
      /\ inst' \in [Objects -> Instances]
      /\ \A j \in Objects : inst'[j].tree = inst[j].tree
  BY <1>0, CreatedOnes DEF Shapes
<1>2. Created' = Created
  BY <1>1 DEF Created
<1>3. NewOnesAreBlank'
  BY <1>1, <1>2 DEF ViewsInv, NewOnesAreBlank, Created
<1>4. VersionsGrow'
  <2>1. ASSUME NEW j \in Created, j # i PROVE Grows(j)'
    BY <1>0, <1>1, <2>1, CreatedOnes DEF Grows, ViewsInv, VersionsGrow
  <2> QED
    BY <1>2, <2>1 DEF ViewsInv, VersionsGrow
<1>5. ViewsAreCurrent'
  <2>1. ASSUME NEW j \in map', j # i PROVE Current(j)'
    <3>1. j \in Objects /\ inst'[j] = inst[j] /\ Current(j)
      BY <1>0, <1>1, <2>1, CreatedOnes DEF ViewsInv, ViewsAreCurrent
    <3> QED
      BY <3>1 DEF Current, Loaded, Known
  <2> QED
    BY <2>1 DEF ViewsAreCurrent
<1>6. OneInstancePerWorktree'
  BY <1>0, <1>1, CreatedOnes DEF ViewsInv, OneInstancePerWorktree
<1>7. ASSUME NEW t \in Turns, turn'[t].on = turn[t].on, turn'[t].known = turn[t].known,
             turn[t].state # "none"
      PROVE  HasInstance(t)'
  <2>1. HasInstance(t) /\ turn[t].on \in Objects
    BY <1>0, <1>7, CreatedOnes DEF ViewsInv, TurnsHaveInstances, HasInstance
  <2>2. inst'[turn[t].on].tree = inst[turn[t].on].tree
    BY <1>1, <2>1
  <2> QED
    BY <1>2, <1>7, <2>1, <2>2 DEF HasInstance, Known
<1>8. ASSUME NEW t \in Turns, turn'[t] = turn[t]
      PROVE  HasInstance(t)' /\ (turn[t].on # i => Served(t)')
  <2>1. HasInstance(t)'
    BY <1>7, <1>8 DEF HasInstance
  <2>2. Served(t)
    BY DEF ViewsInv, TurnsAreServed
  <2>3. ASSUME turn[t].on # i PROVE Served(t)'
    BY <1>0, <1>1, <1>8, <2>2, <2>3, CreatedOnes DEF Served
  <2> QED
    BY <2>1, <2>3
<1> QED
  BY <1>0, <1>1, <1>2, <1>3, <1>4, <1>5, <1>6, <1>7, <1>8 DEF Shapes

\* The documents are read: a reload that is not overtaken has every change that was known.
LEMMA ReadKeeps ==
    ASSUME WorkspaceInstancesAssumption, ViewsInv, NEW i \in Objects, Read(i) PROVE ViewsInv'
<1>0. Shapes
  BY DEF ViewsInv
<1>1. i \in Created /\ inst[i] \in Instances /\ Grows(i) /\ inst[i].tree \in Worktrees
  BY <1>0, CreatedOnes DEF ViewsInv, NewOnesAreBlank, NoObject, NotReloading, Read, Created,
     VersionsGrow, Shapes
<1> DEFINE o == [inst[i] EXCEPT !.reload = [at |-> "read", rev |-> inst[i].reload.rev,
                                            text |-> files[inst[i].tree]]]
<1>2. files[inst[i].tree] \in Nat /\ inst[i].reload.rev \in Nat /\ inst[i].reload \in Reloads
  BY <1>0, <1>1 DEF Shapes, Instances, Reloads
<1>3. inst' = [inst EXCEPT ![i] = o]
  BY DEF Read
<1>4. /\ o \in Instances /\ o.tree = inst[i].tree /\ o.snapshot = inst[i].snapshot
      /\ o.dirty = inst[i].dirty /\ o.rev = inst[i].rev
      /\ o.leases = inst[i].leases /\ o.reload.at = "read" /\ o.reload.rev = inst[i].reload.rev
      /\ o.reload.text = files[inst[i].tree]
  BY <1>1, <1>2 DEF Instances, Reloads
<1>5. inst'[i] = o
  BY <1>0, <1>3 DEF Shapes
<1> HIDE DEF o
<1>6. Grows(i)'
  BY <1>1, <1>2, <1>4, <1>5 DEF Grows, Read
<1>7. ASSUME i \in map PROVE Current(i)'
  <2>1. Current(i)
    BY <1>7 DEF ViewsInv, ViewsAreCurrent
  <2>2. files[inst[i].tree] >= Known(inst[i].tree)
    BY <1>0, <1>1, CreatedOnes
  <2> QED
    BY <1>4, <1>5, <2>1, <2>2 DEF Read, Current, Loaded, Known
<1>8. /\ inst' \in [Objects -> Instances] /\ map' \subseteq Created'
      /\ Created' = Created /\ inst'[i] = o
      /\ NewOnesAreBlank' /\ VersionsGrow' /\ ViewsAreCurrent' /\ OneInstancePerWorktree'
      /\ \A t \in Turns : turn'[t] = turn[t] =>
            HasInstance(t)' /\ (turn[t].on # i => Served(t)')
  <2>1. /\ files' = files /\ skills' = skills /\ noticed' = noticed /\ map' = map
    BY DEF Read
  <2> QED
    BY <1>1, <1>3, <1>4, <1>6, <1>7, <2>1, OneChanges
<1>9. ASSUME NEW t \in Turns, turn[t].on = i PROVE Served(t)'
  <2>1. Served(t) /\ HasInstance(t) /\ turn[t] \in TurnRecords
    BY <1>0 DEF ViewsInv, TurnsAreServed, TurnsHaveInstances, Shapes
  <2>2. turn[t].state # "none" => turn[t].known.text <= files[inst[i].tree]
    BY <1>0, <1>1, <1>2, <1>9, <2>1, CreatedOnes DEF HasInstance, TurnRecords, Snapshots
  <2> QED
    BY <1>2, <1>4, <1>5, <1>9, <2>1, <2>2 DEF Served, Read, TurnRecords, Snapshots
<1> QED
  BY <1>0, <1>8, <1>9 DEF ViewsInv, Read, Shapes, TurnsHaveInstances, TurnsAreServed

\* A reload that ends: a view that stays dirty is reloaded again for who waited the first
\* time, and the second time the reload began after the turn asked.
LEMMA ReloadEndsKeeps ==
    ASSUME WorkspaceInstancesAssumption, ViewsInv, NEW i \in Objects, ReloadEnds(i) PROVE ViewsInv'
<1>0. Shapes
  BY DEF ViewsInv
<1>1. i \in Created /\ inst[i] \in Instances /\ Grows(i) /\ inst[i].tree \in Worktrees
  BY <1>0, CreatedOnes DEF ViewsInv, NewOnesAreBlank, NoObject, NotReloading, ReloadEnds,
     Created, VersionsGrow, Shapes
<1> DEFINE o == [inst[i] EXCEPT
            !.snapshot = [text |-> inst[i].reload.text, skills |-> skills.catalog],
            !.fingerprint = files[inst[i].tree],
            !.dirty = inst[i].rev # inst[i].reload.rev,
            !.reload = NotReloading]
           late == inst[i].rev # inst[i].reload.rev
<1>2. /\ files[inst[i].tree] \in Nat /\ inst[i].reload.rev \in Nat /\ inst[i].reload \in Reloads
      /\ skills.catalog \in Nat /\ skills.last \in Nat /\ inst[i].reload.text \in Nat
      /\ Known(inst[i].tree) \in Int /\ skills.last <= skills.catalog
      /\ inst[i].snapshot \in Snapshots
  BY <1>0, <1>1, CreatedOnes DEF Shapes, Instances, Reloads, ViewsInv, VersionsGrow
<1>3. inst' = [inst EXCEPT ![i] = o]
  BY DEF ReloadEnds
<1>4. /\ o \in Instances /\ o.tree = inst[i].tree /\ o.leases = inst[i].leases
      /\ o.snapshot.text = inst[i].reload.text /\ o.snapshot.skills = skills.catalog
      /\ o.dirty = late /\ o.rev = inst[i].rev /\ o.reload.at = "idle"
  BY <1>1, <1>2 DEF Instances, Reloads, Snapshots, NotReloading
<1>5. inst'[i] = o
  BY <1>0, <1>3 DEF Shapes
<1> HIDE DEF o
<1>6. Grows(i)'
  <2>1. inst[i].reload.at = "read" /\ files' = files /\ skills' = skills
    BY DEF ReloadEnds
  <2>2. inst[i].reload.text <= files[inst[i].tree]
    BY <1>1, <2>1 DEF Grows
  <2>3. /\ inst'[i].tree = inst[i].tree /\ inst'[i].reload.at = "idle"
        /\ inst'[i].snapshot.text = inst[i].reload.text
        /\ inst'[i].snapshot.skills = skills.catalog
    BY <1>4, <1>5
  <2> QED
    BY <1>2, <2>1, <2>2, <2>3 DEF Grows
<1>7. ASSUME i \in map PROVE Current(i)'
  <2>1. Current(i)
    BY <1>7 DEF ViewsInv, ViewsAreCurrent
  <2> QED
    <3>1. inst[i].reload.at = "read" /\ (Known(inst[i].tree))' = Known(inst[i].tree) /\ skills' = skills
      BY <1>4, <1>5 DEF ReloadEnds, Known
    <3>2. ASSUME ~late PROVE inst[i].reload.text >= Known(inst[i].tree)
      BY <1>2, <2>1, <3>1, <3>2 DEF Current
    <3>3. /\ inst'[i].reload.at = "idle" /\ inst'[i].dirty = late
          /\ inst'[i].snapshot.text = inst[i].reload.text
          /\ inst'[i].snapshot.skills = skills.catalog
      BY <1>4, <1>5
    <3> HIDE DEF late
    <3> QED
      BY <1>2, <3>1, <3>2, <3>3 DEF Current
<1>8. /\ inst' \in [Objects -> Instances] /\ map' \subseteq Created'
      /\ Created' = Created /\ inst'[i] = o
      /\ NewOnesAreBlank' /\ VersionsGrow' /\ ViewsAreCurrent' /\ OneInstancePerWorktree'
      /\ \A t \in Turns :
            turn'[t].on = turn[t].on /\ turn'[t].known = turn[t].known
            /\ turn[t].state # "none" => HasInstance(t)'
      /\ \A t \in Turns : turn'[t] = turn[t] =>
            HasInstance(t)' /\ (turn[t].on # i => Served(t)')
  <2>1. /\ files' = files /\ skills' = skills /\ noticed' = noticed /\ map' = map
    BY DEF ReloadEnds
  <2> QED
    BY <1>1, <1>3, <1>4, <1>6, <1>7, <2>1, OneChanges
<1>9. ASSUME NEW t \in Turns
      PROVE  turn'[t] \in TurnRecords /\ HasInstance(t)' /\ Served(t)'
  <2>1. Served(t) /\ HasInstance(t) /\ turn[t] \in TurnRecords
    BY <1>0 DEF ViewsInv, TurnsAreServed, TurnsHaveInstances, Shapes
  <2>2. turn'[t] = Resumed(i, late)[t] /\ turn' = Resumed(i,
  late) /\ map' = map /\ inst[i].reload.at = "read"
    BY DEF ReloadEnds
  <2>3. CASE turn[t].on # i \/ turn[t].state \notin {"first", "second"}
    <3>1. turn'[t] = turn[t]
      BY <2>2, <2>3 DEF Resumed
    <3>2. CASE turn[t].on # i
      BY <1>8, <2>1, <3>1, <3>2
    <3>3. CASE turn[t].on = i /\ turn[t].state \notin {"first", "second"}
      <4>1. turn[t].state # "none" => turn[t].known.skills <= skills.catalog
        BY <2>1 DEF HasInstance
      <4>2. /\ inst[i].snapshot.text <= inst[i].reload.text
            /\ inst[i].snapshot.skills <= skills.catalog
        BY <1>1, <2>2 DEF Grows
      <4>3. turn[t].known.text \in Nat /\ turn[t].known.skills \in Nat
        BY <2>1 DEF TurnRecords, Snapshots
      <4>4. inst[i].snapshot.text \in Nat /\ inst[i].snapshot.skills \in Nat
        BY <1>2 DEF Snapshots
      <4>5. Served(t)'
        BY <1>2, <1>4, <1>5, <2>1, <2>2, <3>1, <3>3, <4>1, <4>2, <4>3, <4>4 DEF Served
      <4> QED
        BY <1>8, <2>1, <3>1, <4>5
    <3> QED
      BY <2>3, <3>2, <3>3
  <2>4. CASE turn[t].on = i /\ turn[t].state \in {"first", "second"}
    <3>1. /\ turn'[t] = [turn[t] EXCEPT !.state = IF turn[t].state = "first" /\ late THEN "again"
                                                 ELSE "ready"]
      BY <2>2, <2>4 DEF Resumed
    <3>2. /\ turn'[t] \in TurnRecords /\ turn'[t].on = i /\ turn'[t].known = turn[t].known
          /\ turn'[t].state = IF turn[t].state = "first" /\ late THEN "again" ELSE "ready"
      BY <2>1, <2>4, <3>1 DEF TurnRecords, TurnStates
    <3>3. HasInstance(t)'
      BY <1>8, <2>4, <3>2
    <3>4. turn[t].known.text \in Nat /\ turn[t].known.skills \in Nat
      BY <2>1 DEF TurnRecords, Snapshots
    <3>5. /\ turn[t].known.text <= Known(inst[i].tree)
          /\ turn[t].known.skills <= skills.catalog
      BY <2>1, <2>4 DEF HasInstance
    <3>6. ASSUME turn'[t].state = "ready", i \in map
          PROVE  inst[i].reload.text >= turn[t].known.text
      <4>1. CASE turn[t].state = "second"
        BY <2>1, <2>2, <2>4, <3>6, <4>1 DEF Served
      <4>2. CASE turn[t].state = "first"
        <5>1. ~late
          BY <3>2, <3>6, <4>2
        <5>2. Current(i)
          BY <3>6 DEF ViewsInv, ViewsAreCurrent
        <5> QED
          BY <1>2, <2>2, <3>4, <3>5, <5>1, <5>2 DEF Current
      <4> QED
        BY <2>4, <4>1, <4>2
    <3>7. Served(t)'
      BY <1>2, <1>4, <1>5, <2>2, <3>2, <3>4, <3>5, <3>6 DEF Served
    <3> QED
      BY <3>2, <3>3, <3>7
  <2> QED
    BY <2>3, <2>4
<1>10. turn' \in [Turns -> TurnRecords]
  BY <1>9 DEF ReloadEnds, Resumed
<1> QED
  BY <1>0, <1>8, <1>9, <1>10 DEF ViewsInv, ReloadEnds, Shapes, TurnsHaveInstances,
     TurnsAreServed

\* A reload that fails leaves turns with a stale view, which is promised nothing.
LEMMA ReloadFailsKeeps ==
    ASSUME WorkspaceInstancesAssumption, ViewsInv, NEW i \in Objects, ReloadFails(i) PROVE ViewsInv'
<1>0. Shapes
  BY DEF ViewsInv
<1>1. i \in Created /\ inst[i] \in Instances /\ Grows(i) /\ inst[i].tree \in Worktrees
  BY <1>0, CreatedOnes DEF ViewsInv, NewOnesAreBlank, NoObject, NotReloading, ReloadFails,
     Created, VersionsGrow, Shapes
<1> DEFINE o == [inst[i] EXCEPT !.reload = NotReloading]
<1>3. inst' = [inst EXCEPT ![i] = o]
  BY DEF ReloadFails
<1>4. /\ o \in Instances /\ o.tree = inst[i].tree /\ o.leases = inst[i].leases
      /\ o.snapshot = inst[i].snapshot /\ o.dirty = inst[i].dirty /\ o.rev = inst[i].rev
      /\ o.reload.at = "idle"
  BY <1>1 DEF Instances, Reloads, NotReloading
<1>5. inst'[i] = o
  BY <1>0, <1>3 DEF Shapes
<1> HIDE DEF o
<1>6. Grows(i)'
  BY <1>1, <1>4, <1>5 DEF Grows, ReloadFails
<1>7. ASSUME i \in map PROVE Current(i)'
  <2>1. Current(i)
    BY <1>7 DEF ViewsInv, ViewsAreCurrent
  <2> QED
    <3>1. (Known(inst[i].tree))' = Known(inst[i].tree) /\ skills' = skills
      BY <1>4, <1>5 DEF ReloadFails, Known
    <3>2. /\ inst'[i].reload.at = "idle" /\ inst'[i].dirty = inst[i].dirty
          /\ inst'[i].snapshot = inst[i].snapshot
      BY <1>4, <1>5
    <3> QED
      BY <2>1, <3>1, <3>2 DEF Current, Loaded
<1>8. /\ inst' \in [Objects -> Instances] /\ map' \subseteq Created'
      /\ Created' = Created /\ inst'[i] = o
      /\ NewOnesAreBlank' /\ VersionsGrow' /\ ViewsAreCurrent' /\ OneInstancePerWorktree'
      /\ \A t \in Turns :
            turn'[t].on = turn[t].on /\ turn'[t].known = turn[t].known
            /\ turn[t].state # "none" => HasInstance(t)'
      /\ \A t \in Turns : turn'[t] = turn[t] =>
            HasInstance(t)' /\ (turn[t].on # i => Served(t)')
  <2>1. /\ files' = files /\ skills' = skills /\ noticed' = noticed /\ map' = map
    BY DEF ReloadFails
  <2> QED
    BY <1>1, <1>3, <1>4, <1>6, <1>7, <2>1, OneChanges
<1>9. ASSUME NEW t \in Turns
      PROVE  turn'[t] \in TurnRecords /\ HasInstance(t)' /\ Served(t)'
  <2>1. Served(t) /\ HasInstance(t) /\ turn[t] \in TurnRecords
    BY <1>0 DEF ViewsInv, TurnsAreServed, TurnsHaveInstances, Shapes
  <2>3. CASE turn[t].on # i \/ turn[t].state \notin {"first", "second"}
    <3>1. turn'[t] = turn[t] /\ map' = map
      BY <2>3 DEF ReloadFails
    <3>2. CASE turn[t].on # i
      BY <1>8, <2>1, <3>1, <3>2
    <3>3. CASE turn[t].on = i
      BY <1>4, <1>5, <1>8, <2>1, <3>1, <3>3 DEF Served
    <3> QED
      BY <3>2, <3>3
  <2>4. CASE turn[t].on = i /\ turn[t].state \in {"first", "second"}
    <3>1. turn'[t] = [turn[t] EXCEPT !.state = IF Loaded(i) THEN "stale" ELSE "failed"]
      BY <2>4 DEF ReloadFails
    <3>2. /\ turn'[t] \in TurnRecords /\ turn'[t].on = i /\ turn'[t].known = turn[t].known
          /\ turn'[t].state \in {"stale", "failed"}
      BY <2>1, <2>4, <3>1 DEF TurnRecords, TurnStates
    <3> QED
      BY <1>8, <2>4, <3>2 DEF Served
  <2> QED
    BY <2>3, <2>4
<1>10. turn' \in [Turns -> TurnRecords]
  BY <1>9 DEF ReloadFails
<1> QED
  BY <1>0, <1>8, <1>9, <1>10 DEF ViewsInv, ReloadFails, Shapes, TurnsHaveInstances,
     TurnsAreServed

\* A turn asks: for the instance of its worktree, or for a new one.
LEMMA AcquireKeeps ==
    ASSUME WorkspaceInstancesAssumption, ViewsInv, NEW t \in Turns, Acquire(t) PROVE ViewsInv'
<1> DEFINE w == WorktreeOf[t]
           found == {i \in map : inst[i].tree = w}
           new == CHOOSE i \in Objects : inst[i].tree = NoInstance
           start(i) == [state |-> "checking", on |-> i, snapshot |-> NoSnapshot,
                        known |-> [text |-> Known(w), skills |-> 0]]
<1>0. Shapes
  BY DEF ViewsInv
<1>1. w \in Worktrees /\ Known(w) \in Nat /\ files' = files /\ skills' = skills /\ noticed' = noticed
  BY <1>0, CreatedOnes DEF WorkspaceInstancesAssumption, Acquire
<1>2. \A v \in Worktrees : Known(v)' = Known(v)
  BY <1>1 DEF Known
<1>3. ASSUME NEW i \in Objects,
             \/ inst' = inst /\ map' = map
             \/ /\ i \notin Created /\ inst' = [inst EXCEPT ![i].tree = w]
                /\ map' \subseteq map \cup {i},
             turn' = [turn EXCEPT ![t] = start(i)], Created' = Created \cup {i}, inst'[i].tree = w
      PROVE  turn' \in [Turns -> TurnRecords] /\ TurnsHaveInstances' /\ TurnsAreServed'
  <2>1. start(i) \in TurnRecords
    BY <1>1 DEF TurnRecords, TurnStates, Snapshots, NoSnapshot
  <2>2. turn'[t] = start(i) /\ turn' \in [Turns -> TurnRecords]
    BY <1>0, <1>3, <2>1 DEF Shapes
  <2>3. HasInstance(t)'
    BY <1>0, <1>1, <1>2, <1>3, <2>2 DEF HasInstance, Known, Shapes
  <2>4. Served(t)'
    BY <2>2 DEF Served
  <2>5. ASSUME NEW u \in Turns, u # t
        PROVE  HasInstance(u)' /\ Served(u)'
    <3>1. turn'[u] = turn[u] /\ HasInstance(u) /\ Served(u)
      BY <1>0, <1>3, <2>5 DEF Shapes, ViewsInv, TurnsHaveInstances, TurnsAreServed
    <3>2. CASE turn[u].state = "none"
      BY <3>1, <3>2 DEF HasInstance, Served
    <3>3. CASE turn[u].state # "none"
      <4>1. turn[u].on \in Created /\ turn[u].on \in Objects
        BY <3>1, <3>3, <1>0, CreatedOnes DEF HasInstance
      <4>2. inst'[turn[u].on] = inst[turn[u].on] /\ (turn[u].on = i => i \in Created /\ inst' = inst)
        BY <1>0, <1>3, <4>1 DEF Shapes
      <4>3. HasInstance(u)'
        BY <1>1, <1>3, <3>1, <4>1, <4>2 DEF HasInstance, Known
      <4> QED
        BY <1>3, <3>1, <4>1, <4>2, <4>3 DEF Served
    <3> QED
      BY <3>2, <3>3
  <2> QED
    BY <2>2, <2>3, <2>4, <2>5 DEF TurnsHaveInstances, TurnsAreServed
<1>4. CASE \E i \in found : turn' = [turn EXCEPT ![t] = start(i)] /\ UNCHANGED <<map, inst>>
  <2>1. PICK i \in found : turn' = [turn EXCEPT ![t] = start(i)] /\ UNCHANGED <<map, inst>>
    BY <1>4
  <2>2. i \in Objects /\ i \in Created /\ Created' = Created /\ inst'[i].tree = w
    BY <1>0, <2>1, CreatedOnes DEF Created
  <2>3. turn' \in [Turns -> TurnRecords] /\ TurnsHaveInstances' /\ TurnsAreServed'
    <3> HIDE DEF w, found, start
    <3> QED
      BY <1>3, <2>1, <2>2
  <2>4. Shapes' /\ NewOnesAreBlank' /\ OneInstancePerWorktree'
    BY <1>0, <1>1, <2>1, <2>2, <2>3 DEF Shapes, ViewsInv, NewOnesAreBlank,
       OneInstancePerWorktree
  <2>5. VersionsGrow' /\ ViewsAreCurrent'
    BY <1>1, <2>1, <2>2 DEF ViewsInv, VersionsGrow, Grows, ViewsAreCurrent, Current, Loaded,
       Known
  <2> QED
    BY <2>3, <2>4, <2>5 DEF ViewsInv
<1>5. CASE /\ found = {} /\ Created # Objects
           /\ inst' = [inst EXCEPT ![new].tree = w]
           /\ map' = Evicted(map \cup {new}, Latest(new), inst', new)
           /\ turn' = [turn EXCEPT ![t] = start(new)]
  <2>a. new \in Objects /\ new \notin Created
    BY <1>5 DEF Created
  <2>1. PICK n \in Objects : n = new /\ n \notin Created
    BY <2>a
  <2>b. /\ inst' = [inst EXCEPT ![n].tree = w]
        /\ map' = Evicted(map \cup {n}, Latest(n), inst', n)
        /\ turn' = [turn EXCEPT ![t] = start(n)]
    BY <1>5, <2>1
  <2>2. map' \subseteq map \cup {n}
    BY <2>b DEF Evicted
  <2>3. inst[n] = NoObject /\ inst[n] \in Instances
    BY <1>0, <2>1 DEF ViewsInv, NewOnesAreBlank, Created, Shapes
  <2>4. /\ inst'[n] = [NoObject EXCEPT !.tree = w]
        /\ \A j \in Objects \ {n} : inst'[j] = inst[j]
        /\ inst' \in [Objects -> Instances]
    BY <1>0, <1>1, <2>b, <2>1, <2>3 DEF Shapes, Instances
  <2>5. /\ inst'[n].tree = w /\ inst'[n].snapshot = NoSnapshot /\ inst'[n].reload.at = "idle"
    BY <2>4 DEF NoObject, NotReloading
  <2>6. Created' = Created \cup {n} /\ w # NoInstance
    <3>1. w # NoInstance
      BY <1>1 DEF WorkspaceInstancesAssumption
    <3>2. ASSUME NEW j \in Objects
          PROVE  inst'[j].tree # NoInstance <=> j = n \/ inst[j].tree # NoInstance
      BY <2>4, <2>5, <3>1
    <3>3. (Created)' = {j \in Objects : inst'[j].tree # NoInstance}
      BY DEF Created
    <3> HIDE DEF w, found, start
    <3> QED
      BY <2>1, <3>1, <3>2, <3>3 DEF Created
  <2>7. turn' \in [Turns -> TurnRecords] /\ TurnsHaveInstances' /\ TurnsAreServed'
    <3> HIDE DEF w, found, start
    <3> QED
      BY <1>3, <2>b, <2>1, <2>2, <2>5, <2>6
  <2>8. Shapes'
    BY <1>0, <1>1, <2>2, <2>4, <2>6, <2>7 DEF Shapes
  <2>9. NewOnesAreBlank'
    BY <2>4, <2>5, <2>6 DEF ViewsInv, NewOnesAreBlank
  <2>10. OneInstancePerWorktree'
    <3>1. ASSUME NEW i \in map', NEW j \in map', inst'[i].tree = inst'[j].tree PROVE i = j
      <4>1. \A k \in map : k \in Objects /\ k # n /\ inst'[k] = inst[k] /\ inst[k].tree # w
        BY <1>0, <1>5, <2>1, <2>4, CreatedOnes
      <4> QED
        BY <2>2, <2>5, <3>1, <4>1 DEF ViewsInv, OneInstancePerWorktree
    <3> QED
      BY <3>1 DEF OneInstancePerWorktree
  <2>11. VersionsGrow'
    <3>1. Grows(n)'
      BY <1>0, <1>1, <2>5, CreatedOnes DEF Grows, NoSnapshot
    <3>2. ASSUME NEW i \in Created PROVE Grows(i)'
      BY <1>0, <1>1, <2>1, <2>4, CreatedOnes DEF ViewsInv, VersionsGrow, Grows
    <3> QED
      BY <1>1, <2>6, <3>1, <3>2 DEF ViewsInv, VersionsGrow
  <2>12. ViewsAreCurrent'
    <3>1. Current(n)'
      BY <2>5 DEF Current, Loaded
    <3>2. ASSUME NEW i \in map PROVE Current(i)'
      <4>1. inst'[i] = inst[i] /\ Current(i)
        BY <1>0, <2>1, <2>4, CreatedOnes DEF ViewsInv, ViewsAreCurrent
      <4> QED
        BY <1>1, <4>1 DEF Current, Loaded, Known
    <3> QED
      BY <2>2, <3>1, <3>2 DEF ViewsAreCurrent
  <2> QED
    BY <2>7, <2>8, <2>9, <2>10, <2>11, <2>12 DEF ViewsInv
<1> QED
  BY <1>4, <1>5 DEF Acquire

\* A turn goes on with a clean view, which has what it knew of, or begins a reload or joins
\* one.
LEMMA CheckKeeps ==
    ASSUME WorkspaceInstancesAssumption, ViewsInv, NEW t \in Turns, Check(t)
    PROVE  /\ ViewsInv' /\ \A j \in Objects : Touched(j)
           /\ turn'[t].state \in {"ready", "first"} /\ \A u \in Turns \ {t} : turn'[u] = turn[u]
<1> DEFINE os == Refreshed(inst)
           after(state) == [turn EXCEPT ![t] = [@ EXCEPT !.state = state,
                                                      !.known.skills = skills.catalog]]
<1>0. Shapes
  BY DEF ViewsInv
<1>a. turn[t].state = "checking" /\ turn[t].on \in Created /\ turn[t] \in TurnRecords
  BY <1>0 DEF Check, ViewsInv, TurnsHaveInstances, HasInstance, Shapes
<1>b. PICK i \in Objects : i = turn[t].on /\ i \in Created
  BY <1>0, <1>a, CreatedOnes
<1>1. turn[t].state = "checking" /\ i \in Created /\ i \in Objects /\ turn[t] \in TurnRecords
      /\ turn[t].on = i
  BY <1>a, <1>b
<1>2. /\ os \in [Objects -> Instances] /\ \A j \in Objects : SameBut(os[j], j)
      /\ \A j \in map : skills.catalog # skills.last => os[j].dirty /\ os[j].rev > inst[j].rev
  BY <1>0, RefreshedOnes
<1> HIDE DEF os
<1>3. PICK checked :
        /\ \/ checked = os
           \/ checked = [os EXCEPT ![i] = [os[i] EXCEPT !.dirty = TRUE, !.rev = @ + 1]]
        /\ IF Loaded(i) /\ ~checked[i].dirty THEN inst' = checked /\ turn' = after("ready")
           ELSE inst' = Reloading(checked, i) /\ turn' = after("first")
  <2>1. PICK looks \in BOOLEAN :
             LET chk == IF looks /\ inst[i].fingerprint # 0 /\ inst[i].fingerprint # files[inst[i].tree]
                            THEN [os EXCEPT ![i] = [os[i] EXCEPT !.dirty = TRUE, !.rev = @ + 1]]
                            ELSE os
             IN  IF Loaded(i) /\ ~chk[i].dirty
                 THEN inst' = chk /\ turn' = after("ready")
                 ELSE inst' = Reloading(chk, i) /\ turn' = after("first")
    BY <1>1 DEF Check, os
  <2> QED
    BY <2>1
<1>4. /\ checked \in [Objects -> Instances] /\ \A j \in Objects : SameBut(checked[j], j)
      /\ \A j \in map : skills.catalog # skills.last => checked[j].dirty /\ checked[j].rev > inst[j].rev
  <2>1. CASE checked = os
    BY <1>2, <2>1
  <2>2. CASE checked = [os EXCEPT ![i] = [os[i] EXCEPT !.dirty = TRUE, !.rev = @ + 1]]
    <3>1. os[i] \in Instances /\ os[i].rev \in Nat /\ os[i].rev + 1 \in Nat /\ inst[i].rev \in Nat
      BY <1>0, <1>1, <1>2 DEF Instances, Shapes
    <3>a. checked = [os EXCEPT ![i] = [os[i] EXCEPT !.dirty = TRUE, !.rev = os[i].rev + 1]]
      BY <1>1, <1>2, <2>2
    <3>2. /\ checked[i] = [os[i] EXCEPT !.dirty = TRUE, !.rev = os[i].rev + 1]
          /\ \A j \in Objects \ {i} : checked[j] = os[j]
      BY <1>1, <1>2, <3>a
    <3>3. [os[i] EXCEPT !.dirty = TRUE, !.rev = os[i].rev + 1] \in Instances
      BY <3>1 DEF Instances
    <3>4. /\ checked[i].tree = os[i].tree /\ checked[i].leases = os[i].leases
          /\ checked[i].snapshot = os[i].snapshot /\ checked[i].reload = os[i].reload
          /\ checked[i].dirty /\ checked[i].rev = os[i].rev + 1
      BY <3>1, <3>2 DEF Instances
    <3>5. SameBut(checked[i], i)
      <4>1. SameBut(os[i], i) /\ inst[i].tree # NoInstance
        BY <1>1, <1>2 DEF Created
      <4>2. os[i].rev + 1 > os[i].rev /\ (os[i].rev > inst[i].rev => os[i].rev + 1 > inst[i].rev)
        BY <3>1
      <4>3. checked[i] \in Instances
        BY <3>2, <3>3
      <4> QED
        BY <3>4, <4>1, <4>2, <4>3 DEF SameBut
    <3>6. checked \in [Objects -> Instances]
      BY <1>2, <2>2, <3>2, <3>3
    <3>7. \A j \in Objects : SameBut(checked[j], j)
      BY <1>2, <3>2, <3>5
    <3>8. ASSUME NEW j \in map, skills.catalog # skills.last
          PROVE  checked[j].dirty /\ checked[j].rev > inst[j].rev
      <4>1. os[j].dirty /\ os[j].rev > inst[j].rev /\ j \in Objects
        BY <1>0, <1>2, <3>8, CreatedOnes
      <4>2. CASE j = i
        <5>1. os[i].rev + 1 > inst[i].rev
          BY <3>1, <4>1, <4>2
        <5> QED
          BY <3>4, <4>2, <5>1
      <4>3. CASE j # i
        BY <3>2, <4>1, <4>3
      <4> QED
        BY <4>2, <4>3
    <3> QED
      BY <3>6, <3>7, <3>8
  <2> QED
    BY <1>3, <2>1, <2>2
<1>5. /\ inst' \in [Objects -> Instances]
      /\ \A j \in Objects : inst'[j].dirty = checked[j].dirty /\ inst'[j].rev = checked[j].rev
                            /\ inst'[j].snapshot = checked[j].snapshot
                            /\ Touched(j)
  <2>1. CASE inst' = checked
    BY <1>4, <2>1 DEF SameBut, Touched
  <2>2. CASE inst' = Reloading(checked, i)
    <3>1. /\ inst' \in [Objects -> Instances]
          /\ \A j \in Objects \ {i} : inst'[j] = checked[j]
          /\ /\ inst'[i].tree = checked[i].tree /\ inst'[i].leases = checked[i].leases
             /\ inst'[i].snapshot = checked[i].snapshot
             /\ inst'[i].dirty = checked[i].dirty /\ inst'[i].rev = checked[i].rev
             /\ \/ inst'[i].reload = checked[i].reload
                \/ /\ checked[i].reload.at = "idle" /\ inst'[i].reload.at = "reading"
                   /\ inst'[i].reload.rev = checked[i].rev
      <4>1. checked \in [Objects -> Instances] /\ i \in Objects
        BY <1>1, <1>4
      <4>2. /\ Reloading(checked, i) \in [Objects -> Instances]
            /\ \A j \in Objects \ {i} : Reloading(checked, i)[j] = checked[j]
            /\ OnlyReloads(Reloading(checked, i)[i], checked[i])
        BY <4>1, ReloadingOnes
      <4> QED
        BY <2>2, <4>2 DEF OnlyReloads
    <3>2. ASSUME NEW j \in Objects, j # i
          PROVE  inst'[j].dirty = checked[j].dirty /\ inst'[j].rev = checked[j].rev
                            /\ inst'[j].snapshot = checked[j].snapshot /\ Touched(j)
      BY <1>4, <3>1, <3>2 DEF SameBut, Touched
    <3>3. Touched(i)
      <4>1. SameBut(checked[i], i) /\ inst'[i] \in Instances /\ inst'[i].rev \in Nat
            /\ inst[i].tree # NoInstance
        BY <1>1, <1>4, <3>1 DEF Instances, Created
      <4> QED
        BY <3>1, <4>1 DEF SameBut, Touched
    <3> QED
      BY <3>1, <3>2, <3>3
  <2> QED
    BY <1>3, <2>1, <2>2
<1>6. /\ files' = files /\ map' = map /\ noticed' = noticed
      /\ skills' \in [catalog : Nat, last : Nat] /\ skills'.catalog = skills.catalog
      /\ skills'.last = skills.catalog
  BY <1>0 DEF Check, Shapes
<1>7. \A v \in Worktrees : Known(v)' = Known(v) /\ Known(v)' \in Int /\ Known(v)' >= Known(v)
  BY <1>0, <1>6, CreatedOnes DEF Known
<1>8. \A j \in map : (Known(inst[j].tree))' = Known(inst[j].tree)
  BY <1>0, <1>5, <1>6, CreatedOnes DEF Known, Touched
<1>9. /\ files' \in [Worktrees -> Nat \ {0}] /\ skills' \in [catalog : Nat, last : Nat]
      /\ inst' \in [Objects -> Instances]
      /\ noticed' \subseteq Worktrees /\ map' \subseteq Created'
      /\ NewOnesAreBlank' /\ VersionsGrow' /\ ViewsAreCurrent' /\ OneInstancePerWorktree'
      /\ Created' = Created
      /\ \A u \in Turns : turn'[u] = turn[u] => HasInstance(u)' /\ Served(u)'
  <2>1. \A j \in Objects : Touched(j)
    BY <1>5
  <2>2. \A j \in map : (\/ Known(inst[j].tree)' # Known(inst[j].tree)
                        \/ skills'.last # skills.last) => Marked(j)
    BY <1>0, <1>4, <1>5, <1>6, <1>8, CreatedOnes DEF Marked
  <2>3. DOMAIN inst' = Objects /\ inst' = [j \in Objects |-> inst'[j]]
    BY <1>5
  <2> QED
    BY <1>6, <1>7, <2>1, <2>2, <2>3, TouchKeeps
<1>10. turn' = after("ready") \/ turn' = after("first")
  BY <1>3
<1>11. PICK state \in {"ready", "first"} : turn' = after(state)
  BY <1>10
<1>12. /\ turn'[t] = [turn[t] EXCEPT !.state = state, !.known.skills = skills.catalog]
       /\ \A u \in Turns \ {t} : turn'[u] = turn[u]
       /\ turn'[t] \in TurnRecords /\ turn' \in [Turns -> TurnRecords]
  <2>1. [turn[t] EXCEPT !.state = state, !.known.skills = skills.catalog] \in TurnRecords
    BY <1>0, <1>1, CreatedOnes DEF TurnRecords, TurnStates, Snapshots
  <2> QED
    BY <1>0, <1>11, <2>1 DEF Shapes
<1>13. /\ turn'[t].on = i /\ turn'[t].state = state /\ turn'[t].known.text = turn[t].known.text
       /\ turn'[t].known.skills = skills.catalog
  BY <1>1, <1>12 DEF TurnRecords, Snapshots
<1>14. turn[t].known.text <= Known(inst[i].tree) /\ turn[t].known.text \in Nat
  BY <1>1 DEF ViewsInv, TurnsHaveInstances, HasInstance, TurnRecords, Snapshots
<1>15. HasInstance(t)'
  <2>1. inst'[i].tree = inst[i].tree
    BY <1>1, <1>5 DEF Touched
  <2>2. (Known(inst[turn[t].on].tree))' = Known(inst[i].tree)
    BY <1>6, <1>13, <2>1 DEF Known
  <2> QED
    BY <1>0, <1>1, <1>6, <1>9, <1>13, <1>14, <2>2, CreatedOnes DEF HasInstance
<1>16. Served(t)'
  <2>1. CASE turn' = after("first")
    BY <1>0, <1>1, <2>1 DEF Served, Shapes, TurnRecords
  <2>2. CASE turn' = after("ready") /\ i \in map
    <3>0. Loaded(i) /\ ~checked[i].dirty
      <4>1. turn'[t].state = "ready"
        BY <1>0, <1>1, <2>2 DEF Shapes, TurnRecords
      <4>2. (after("first"))[t].state = "first"
        BY <1>0, <1>1 DEF Shapes, TurnRecords
      <4> QED
        BY <1>3, <4>1, <4>2
    <3>1. Loaded(i)' /\ ~inst'[i].dirty /\ Current(i)' /\ inst'[i] \in Instances
      BY <1>1, <1>4, <1>5, <1>6, <1>9, <2>2, <3>0 DEF Loaded, SameBut, ViewsAreCurrent
    <3>2. /\ inst'[i].snapshot.text >= (Known(inst[i].tree))'
          /\ inst'[i].snapshot.skills >= skills'.last
      BY <3>1 DEF Current
    <3>3. (Known(inst[i].tree))' = Known(inst[i].tree) /\ Known(inst[i].tree) \in Nat
      BY <1>0, <1>8, <2>2, CreatedOnes
    <3>4. inst'[i].snapshot.text \in Nat
      BY <3>1 DEF Instances, Snapshots
    <3>5. inst'[i].snapshot.text >= turn[t].known.text
      BY <1>14, <3>2, <3>3, <3>4
    <3>6. turn'[t].state = "ready"
      BY <1>0, <1>1, <2>2 DEF Shapes, TurnRecords
    <3> QED
      BY <1>6, <1>13, <3>2, <3>5, <3>6 DEF Served
  <2>3. CASE i \notin map
    BY <1>6, <1>13, <2>3 DEF Served
  <2> QED
    BY <1>10, <2>1, <2>2, <2>3
<1>17. TurnsHaveInstances' /\ TurnsAreServed'
  BY <1>9, <1>12, <1>15, <1>16 DEF TurnsHaveInstances, TurnsAreServed
<1> QED
  BY <1>5, <1>9, <1>12, <1>13, <1>17 DEF ViewsInv, Shapes

\* A turn whose check fails goes on with what there is, which is promised nothing.
LEMMA CheckFailsKeeps ==
    ASSUME WorkspaceInstancesAssumption, ViewsInv, NEW t \in Turns, CheckFails(t)
    PROVE  /\ ViewsInv' /\ inst' = inst
           /\ turn[t].state = "checking" /\ turn'[t].state \in {"stale", "failed"}
           /\ \A u \in Turns \ {t} : turn'[u] = turn[u]
<1>0. Shapes /\ turn[t] \in TurnRecords
  BY DEF ViewsInv, Shapes
<1>1. /\ files' = files /\ skills' = skills /\ noticed' = noticed /\ map' = map /\ inst' = inst
      /\ turn[t].state = "checking"
  BY DEF CheckFails
<1>2. PICK place \in {"stale", "failed"} : turn' = [turn EXCEPT ![t].state = place]
  BY DEF CheckFails
<1>3. /\ turn'[t] \in TurnRecords /\ turn'[t].state = place
      /\ turn'[t].on = turn[t].on /\ turn'[t].known = turn[t].known
      /\ turn' \in [Turns -> TurnRecords] /\ \A u \in Turns \ {t} : turn'[u] = turn[u]
  BY <1>0, <1>2 DEF Shapes, TurnRecords, TurnStates
<1>4. Shapes' /\ NewOnesAreBlank' /\ VersionsGrow' /\ ViewsAreCurrent' /\ OneInstancePerWorktree'
  BY <1>0, <1>1, <1>3 DEF ViewsInv, Shapes, Created, NewOnesAreBlank, VersionsGrow, Grows,
     ViewsAreCurrent, Current, Loaded, Known, OneInstancePerWorktree
<1>5. ASSUME NEW u \in Turns PROVE HasInstance(u)' /\ Served(u)'
  <2>1. HasInstance(u) /\ Served(u)
    BY DEF ViewsInv, TurnsHaveInstances, TurnsAreServed
  <2>2. CASE u = t
    BY <1>1, <1>3, <2>1, <2>2 DEF HasInstance, Served, Created, Known
  <2>3. CASE u # t
    BY <1>1, <1>3, <2>1, <2>3 DEF HasInstance, Served, Created, Known
  <2> QED
    BY <2>2, <2>3
<1> QED
  BY <1>1, <1>2, <1>3, <1>4, <1>5 DEF ViewsInv, TurnsHaveInstances, TurnsAreServed

\* The second reload begins after the turn asked.
LEMMA ReloadAgainKeeps ==
    ASSUME WorkspaceInstancesAssumption, ViewsInv, NEW t \in Turns, ReloadAgain(t)
    PROVE  ViewsInv' /\ \A j \in Objects : Touched(j)
<1>0. Shapes
  BY DEF ViewsInv
<1>1. PICK i \in Objects : i = turn[t].on /\ i \in Created
  BY <1>0, CreatedOnes DEF ReloadAgain, ViewsInv, TurnsHaveInstances, HasInstance
<1>2. turn[t].state = "again" /\ turn[t] \in TurnRecords /\ inst \in [Objects -> Instances]
  BY <1>0 DEF ReloadAgain, Shapes
<1>3. inst' = Reloading(inst, i)
  BY <1>1 DEF ReloadAgain
<1>4. /\ inst' \in [Objects -> Instances] /\ \A j \in Objects \ {i} : inst'[j] = inst[j]
      /\ OnlyReloads(inst'[i], inst[i])
  BY <1>1, <1>2, <1>3, ReloadingOnes
<1>5. ASSUME NEW j \in Objects PROVE Touched(j)
  <2>1. inst[j] \in Instances /\ inst'[j] \in Instances /\ inst[i].rev \in Nat
    BY <1>1, <1>2, <1>4 DEF Instances
  <2>2. CASE j = i
    BY <1>1, <1>4, <2>1, <2>2 DEF OnlyReloads, Touched, Created
  <2>3. CASE j # i
    BY <1>4, <2>1, <2>3 DEF Touched
  <2> QED
    BY <2>2, <2>3
<1>6. /\ files' = files /\ skills' = skills /\ noticed' = noticed /\ map' = map
  BY DEF ReloadAgain
<1>7. \A v \in Worktrees : Known(v)' = Known(v) /\ Known(v)' \in Int /\ Known(v)' >= Known(v)
  BY <1>0, <1>6, CreatedOnes DEF Known
<1>8. \A j \in map : (Known(inst[j].tree))' = Known(inst[j].tree)
  BY <1>0, <1>5, <1>6, CreatedOnes DEF Known, Touched
<1>9. /\ files' \in [Worktrees -> Nat \ {0}] /\ skills' \in [catalog : Nat, last : Nat]
      /\ inst' \in [Objects -> Instances]
      /\ noticed' \subseteq Worktrees /\ map' \subseteq Created'
      /\ NewOnesAreBlank' /\ VersionsGrow' /\ ViewsAreCurrent' /\ OneInstancePerWorktree'
      /\ Created' = Created
      /\ \A u \in Turns : turn'[u] = turn[u] => HasInstance(u)' /\ Served(u)'
  <2>1. skills \in [catalog : Nat, last : Nat]
    BY <1>0 DEF Shapes
  <2>2. DOMAIN inst' = Objects /\ inst' = [j \in Objects |-> inst'[j]]
    BY <1>4
  <2> QED
    BY <1>5, <1>6, <1>7, <1>8, <2>1, <2>2, TouchKeeps
<1>10. /\ turn' = [turn EXCEPT ![t] = [turn[t] EXCEPT !.state = "second"]]
       /\ [turn[t] EXCEPT !.state = "second"] \in TurnRecords
  BY <1>2 DEF ReloadAgain, TurnRecords, TurnStates
<1>11. /\ turn'[t].state = "second" /\ turn'[t].on = i /\ turn'[t].known = turn[t].known
       /\ turn' \in [Turns -> TurnRecords] /\ \A u \in Turns \ {t} : turn'[u] = turn[u]
  BY <1>0, <1>1, <1>2, <1>10 DEF Shapes, TurnRecords
<1>12. HasInstance(t)'
  <2>1. (Known(inst[turn[t].on].tree))' = Known(inst[i].tree)
    BY <1>1, <1>5, <1>6, <1>11 DEF Known, Touched
  <2> QED
    BY <1>1, <1>2, <1>6, <1>9, <1>11, <2>1 DEF HasInstance, ViewsInv, TurnsHaveInstances
<1>13. Served(t)'
  <2>1. Served(t)
    BY DEF ViewsInv, TurnsAreServed
  <2> QED
    BY <1>1, <1>2, <1>4, <1>6, <1>11, <2>1 DEF Served, OnlyReloads
<1> QED
  BY <1>5, <1>9, <1>11, <1>12, <1>13 DEF ViewsInv, Shapes, TurnsHaveInstances, TurnsAreServed

\* A lease is taken or given back: only the number of the leases of an instance changes.
LEMMA LeasesChange ==
    ASSUME ViewsInv, NEW t \in Turns, NEW i \in Created, turn[t].on = i, NEW n \in Nat,
           inst' = [inst EXCEPT ![i].leases = n], map' \subseteq map,
           files' = files, skills' = skills, noticed' = noticed,
           turn[t].state # "none", NEW r \in TurnRecords, turn' = [turn EXCEPT ![t] = r],
           r.on = i, r.known = turn[t].known, r.state \notin {"ready", "again", "second"},
           r.state = "leased" /\ i \in map => /\ r.snapshot.text >= r.known.text
                                              /\ r.snapshot.skills >= r.known.skills
    PROVE  ViewsInv'
<1>0. Shapes
  BY DEF ViewsInv
<1> DEFINE o == [inst[i] EXCEPT !.leases = n]
<1>1. i \in Objects /\ inst[i] \in Instances /\ Grows(i) /\ inst[i].tree \in Worktrees
  BY <1>0, CreatedOnes DEF ViewsInv, VersionsGrow
<1>2. /\ o \in Instances /\ o.tree = inst[i].tree /\ o.snapshot = inst[i].snapshot
      /\ o.dirty = inst[i].dirty /\ o.rev = inst[i].rev /\ o.reload = inst[i].reload
  BY <1>1 DEF Instances
<1>3. inst' = [inst EXCEPT ![i] = o] /\ inst'[i] = o
  BY <1>0, <1>1 DEF Shapes
<1> HIDE DEF o
<1>4. Grows(i)'
  BY <1>1, <1>2, <1>3 DEF Grows
<1>5. ASSUME i \in map' PROVE Current(i)'
  BY <1>2, <1>3, <1>5 DEF ViewsInv, ViewsAreCurrent, Current, Loaded, Known
<1>6. /\ inst' \in [Objects -> Instances] /\ map' \subseteq Created'
      /\ Created' = Created
      /\ NewOnesAreBlank' /\ VersionsGrow' /\ ViewsAreCurrent' /\ OneInstancePerWorktree'
      /\ \A u \in Turns :
            turn'[u].on = turn[u].on /\ turn'[u].known = turn[u].known
            /\ turn[u].state # "none" => HasInstance(u)'
      /\ \A u \in Turns : turn'[u] = turn[u] =>
            HasInstance(u)' /\ (turn[u].on # i => Served(u)')
  BY <1>1, <1>2, <1>3, <1>4, <1>5, OneChanges
<1>7. /\ turn'[t] = r /\ \A u \in Turns \ {t} : turn'[u] = turn[u]
      /\ turn' \in [Turns -> TurnRecords]
  BY <1>0 DEF Shapes
<1>8. HasInstance(t)' /\ Served(t)'
  BY <1>6, <1>7 DEF Served
<1>9. ASSUME NEW u \in Turns, u # t PROVE HasInstance(u)' /\ Served(u)'
  <2>1. turn'[u] = turn[u] /\ Served(u)
    BY <1>7, <1>9 DEF ViewsInv, TurnsAreServed
  <2>2. CASE turn[u].on = i
    BY <1>2, <1>3, <1>6, <2>1, <2>2 DEF Served
  <2>3. CASE turn[u].on # i
    BY <1>6, <2>1, <2>3
  <2> QED
    BY <2>2, <2>3
<1> QED
  BY <1>0, <1>6, <1>7, <1>8, <1>9 DEF ViewsInv, Shapes, TurnsHaveInstances, TurnsAreServed

\* A lease fixes the snapshot.
LEMMA LeaseKeeps ==
    ASSUME WorkspaceInstancesAssumption, ViewsInv, NEW t \in Turns, Lease(t)
    PROVE  /\ ViewsInv' /\ turn[t].on \in Created
           /\ turn'[t].on = turn[t].on /\ turn'[t].state \in {"leased", "leased stale"}
           /\ \A u \in Turns \ {t} : turn'[u] = turn[u]
           /\ \A j \in Objects : inst'[j].leases =
                 IF j = turn[t].on THEN inst[j].leases + 1 ELSE inst[j].leases
<1>0. Shapes
  BY DEF ViewsInv
<1>1. PICK i \in Objects : i = turn[t].on /\ i \in Created
  BY <1>0, CreatedOnes DEF Lease, ViewsInv, TurnsHaveInstances, HasInstance
<1>2. /\ turn[t].state \in {"ready", "stale"} /\ turn[t] \in TurnRecords
      /\ inst[i] \in Instances /\ inst[i].snapshot \in Snapshots /\ inst[i].leases + 1 \in Nat
  BY <1>0, <1>1 DEF Lease, Shapes, Instances
<1> DEFINE r == [turn[t] EXCEPT !.snapshot = inst[i].snapshot,
                         !.state = IF turn[t].state = "ready" THEN "leased" ELSE "leased stale"]
<1>3. /\ inst' = [inst EXCEPT ![i].leases = inst[i].leases + 1] /\ turn' = [turn EXCEPT ![t] = r]
      /\ files' = files /\ skills' = skills /\ noticed' = noticed /\ map' = map
  <2>1. inst' = [inst EXCEPT ![i].leases = inst[i].leases + 1]
    BY <1>0, <1>1 DEF Lease, Shapes
  <2>2. turn' = [turn EXCEPT ![t] = r]
    <3>1. turn' = [turn EXCEPT ![t] = [turn[t] EXCEPT
                        !.snapshot = inst[i].snapshot,
                        !.state = IF turn[t].state = "ready" THEN "leased" ELSE "leased stale"]]
      BY <1>0, <1>1 DEF Lease, Shapes
    <3> QED
      BY <3>1
  <2> QED
    BY <2>1, <2>2 DEF Lease
<1>4. /\ r \in TurnRecords /\ r.on = i /\ r.known = turn[t].known /\ r.snapshot = inst[i].snapshot
      /\ r.state = (IF turn[t].state = "ready" THEN "leased" ELSE "leased stale")
  BY <1>1, <1>2 DEF TurnRecords, TurnStates
<1> HIDE DEF r
<1>5. r.state = "leased" /\ i \in map => /\ r.snapshot.text >= r.known.text
                                         /\ r.snapshot.skills >= r.known.skills
  BY <1>1, <1>4 DEF ViewsInv, TurnsAreServed, Served
<1>6. turn[t].on = i /\ turn[t].state # "none" /\ r.state \notin {"ready", "again", "second"}
  BY <1>1, <1>2, <1>4
<1>7. ViewsInv'
  BY <1>1, <1>2, <1>3, <1>4, <1>5, <1>6, LeasesChange
<1>8. turn'[t] = r /\ \A u \in Turns \ {t} : turn'[u] = turn[u]
  BY <1>0, <1>3 DEF Shapes
<1>9. \A j \in Objects : inst'[j].leases = IF j = i THEN inst[j].leases + 1 ELSE inst[j].leases
  BY <1>0, <1>2, <1>3 DEF Shapes, Instances
<1> QED
  BY <1>1, <1>4, <1>7, <1>8, <1>9

\* A lease is given back, and what is too many may be evicted.
LEMMA ReleaseKeeps ==
    ASSUME WorkspaceInstancesAssumption, ViewsInv, NEW t \in Turns, Release(t),
           inst[turn[t].on].leases # 0
    PROVE  /\ ViewsInv' /\ turn[t].on \in Created
           /\ turn'[t].on = turn[t].on /\ turn'[t].state = "released"
           /\ \A u \in Turns \ {t} : turn'[u] = turn[u]
           /\ \A j \in Objects : inst'[j].leases =
                 IF j = turn[t].on THEN inst[j].leases - 1 ELSE inst[j].leases
<1>0. Shapes
  BY DEF ViewsInv
<1>1. PICK i \in Objects : i = turn[t].on /\ i \in Created
  BY <1>0, CreatedOnes DEF Release, ViewsInv, TurnsHaveInstances, HasInstance
<1>2. /\ turn[t].state \in {"leased", "leased stale"} /\ turn[t] \in TurnRecords
      /\ inst[i] \in Instances /\ inst[i].leases - 1 \in Nat
  <2>1. /\ turn[t].state \in {"leased", "leased stale"} /\ turn[t] \in TurnRecords
        /\ inst[i] \in Instances /\ inst[i].leases # 0
    BY <1>0, <1>1 DEF Release, Shapes
  <2>2. inst[i].leases \in Nat
    BY <2>1 DEF Instances
  <2>3. inst[i].leases - 1 \in Nat
    <3>1. PICK n \in Nat : n = inst[i].leases
      BY <2>2
    <3>2. n # 0
      BY <2>1, <3>1
    <3>3. n - 1 \in Nat
      BY <3>2
    <3> QED
      BY <3>1, <3>3
  <2> QED
    BY <2>1, <2>3
<1> DEFINE r == [turn[t] EXCEPT !.state = "released"]
<1>3. /\ inst' = [inst EXCEPT ![i].leases = inst[i].leases - 1] /\ turn' = [turn EXCEPT ![t] = r]
      /\ files' = files /\ skills' = skills /\ noticed' = noticed
  BY <1>0, <1>1 DEF Release, Shapes
<1>4. r \in TurnRecords /\ r.on = i /\ r.known = turn[t].known /\ r.state = "released"
  BY <1>1, <1>2 DEF TurnRecords, TurnStates
<1>5. map' \subseteq map
  BY DEF Release, Evicted
<1> HIDE DEF r
<1>6. turn[t].on = i /\ turn[t].state # "none"
  BY <1>1, <1>2
<1>7. ViewsInv'
  BY <1>1, <1>2, <1>3, <1>4, <1>5, <1>6, LeasesChange
<1>8. turn'[t] = r /\ \A u \in Turns \ {t} : turn'[u] = turn[u]
  BY <1>0, <1>3 DEF Shapes
<1>9. \A j \in Objects : inst'[j].leases = IF j = i THEN inst[j].leases - 1 ELSE inst[j].leases
  BY <1>0, <1>2, <1>3 DEF Shapes, Instances
<1> QED
  BY <1>1, <1>4, <1>7, <1>8, <1>9

\* An instance that is idle goes; no turn asks for it.
LEMMA SweepIdleKeeps ==
    ASSUME WorkspaceInstancesAssumption, ViewsInv, SweepIdle PROVE ViewsInv'
<1>1. /\ map' \subseteq map
      /\ UNCHANGED <<files, skills, noticed, inst, turn>>
  BY DEF SweepIdle
<1>2. Created' = Created /\ \A v : Known(v)' = Known(v)
  BY <1>1 DEF Created, Known
<1>3. Shapes' /\ NewOnesAreBlank' /\ OneInstancePerWorktree' /\ VersionsGrow' /\ TurnsHaveInstances'
  BY <1>1, <1>2 DEF ViewsInv, Shapes, NewOnesAreBlank, OneInstancePerWorktree, VersionsGrow,
     Grows,
     TurnsHaveInstances, HasInstance, Known
<1>4. ViewsAreCurrent' /\ TurnsAreServed'
  BY <1>1, <1>2 DEF ViewsInv, ViewsAreCurrent, Current, Loaded, Known, TurnsAreServed, Served
<1> QED
  BY <1>3, <1>4 DEF ViewsInv

-----------------------------------------------------------------------------
\* Turn t holds a lease.
Holds(t) == turn[t].state \in {"leased", "leased stale"}

\* Leases stay counted when no turn changes whether it holds one.
LEMMA LeasesKept ==
    ASSUME LeasesCounted, \A i \in Objects : inst'[i].leases = inst[i].leases,
           \A t \in Turns : /\ Holds(t)' <=> Holds(t)
                            /\ Holds(t) => turn'[t].on = turn[t].on
    PROVE  LeasesCounted'
<1>1. ASSUME NEW i \in Objects PROVE Holders(i)' = Holders(i)
  BY DEF Holders, Holds
<1> QED
  BY <1>1 DEF LeasesCounted

\* Every step keeps the views, and the leases counted: with them release() has a lease to
\* give back.
LEMMA LeasesStayCounted ==
    ASSUME WorkspaceInstancesAssumption, ViewsInv, LeasesCounted, [Next]_vars
    PROVE  ViewsInv' /\ LeasesCounted'
<1>0. Shapes
  BY DEF ViewsInv
<1>1. CASE UNCHANGED vars
  <2>1. LeasesCounted'
    BY <1>1 DEF vars, LeasesCounted, Holders
  <2>2. ViewsInv'
    BY <1>1 DEF vars, ViewsInv, Shapes, Created, NewOnesAreBlank, TurnsHaveInstances,
       HasInstance,
       VersionsGrow, Grows, ViewsAreCurrent, Current, TurnsAreServed, Served, Loaded, Known,
       OneInstancePerWorktree
  <2> QED
    BY <2>1, <2>2
<1>2. ASSUME NEW w \in Worktrees, Change(w) PROVE ViewsInv' /\ LeasesCounted'
  BY <1>2, ChangeKeeps DEF Change, LeasesCounted, Holders
<1>3. ASSUME NEW w \in Worktrees, Watched(w) PROVE ViewsInv' /\ LeasesCounted'
  <2>1. \A i \in Objects : inst'[i].leases = inst[i].leases
    BY <1>0, <1>3, DirtiedOnes DEF Watched, Touched
  <2>2. turn' = turn
    BY <1>3 DEF Watched
  <2> QED
    BY <1>3, <2>1, <2>2, WatchedKeeps, LeasesKept DEF Holds
<1>4. CASE ChangeSkills
  BY <1>4, ChangeSkillsKeeps DEF ChangeSkills, LeasesCounted, Holders
<1>5. CASE TimerFires
  <2>1. turn' = turn
    BY <1>5 DEF TimerFires
  <2> QED
    BY <1>5, <2>1, TimerFiresKeeps, LeasesKept DEF Touched, Holds
<1>6. CASE SweepIdle
  BY <1>6, SweepIdleKeeps DEF SweepIdle, LeasesCounted, Holders
<1>7. ASSUME NEW i \in Objects, Read(i) PROVE ViewsInv' /\ LeasesCounted'
  <2>1. \A j \in Objects : inst'[j].leases = inst[j].leases
    BY <1>0, <1>7 DEF Read, Shapes, Instances
  <2>2. turn' = turn
    BY <1>7 DEF Read
  <2> QED
    BY <1>7, <2>1, <2>2, ReadKeeps, LeasesKept DEF Holds
<1>8. ASSUME NEW i \in Objects, ReloadEnds(i) PROVE ViewsInv' /\ LeasesCounted'
  <2>1. \A j \in Objects : inst'[j].leases = inst[j].leases
    BY <1>0, <1>8 DEF ReloadEnds, Shapes, Instances
  <2>2. \A t \in Turns : turn[t] \in TurnRecords
    BY <1>0 DEF Shapes
  <2>3. \A t \in Turns : turn'[t].on = turn[t].on /\ (Holds(t)' <=> Holds(t))
    BY <1>8, <2>2 DEF ReloadEnds, Resumed, Holds, TurnRecords
  <2> QED
    BY <1>8, <2>1, <2>3, ReloadEndsKeeps, LeasesKept
<1>9. ASSUME NEW i \in Objects, ReloadFails(i) PROVE ViewsInv' /\ LeasesCounted'
  <2>1. \A j \in Objects : inst'[j].leases = inst[j].leases
    BY <1>0, <1>9 DEF ReloadFails, Shapes, Instances
  <2>2. \A t \in Turns : turn[t] \in TurnRecords
    BY <1>0 DEF Shapes
  <2>3. \A t \in Turns : turn'[t].on = turn[t].on /\ (Holds(t)' <=> Holds(t))
    BY <1>9, <2>2 DEF ReloadFails, Holds, TurnRecords
  <2> QED
    BY <1>9, <2>1, <2>3, ReloadFailsKeeps, LeasesKept
<1>10. ASSUME NEW t \in Turns, Acquire(t) PROVE ViewsInv' /\ LeasesCounted'
  <2>1. \A j \in Objects : inst'[j].leases = inst[j].leases
    <3>1. inst' = inst \/ \E n : inst' = [inst EXCEPT ![n].tree = WorktreeOf[t]]
      BY <1>10 DEF Acquire
    <3>2. CASE inst' = inst
      BY <3>2
    <3>3. ASSUME NEW n, inst' = [inst EXCEPT ![n].tree = WorktreeOf[t]]
          PROVE  \A j \in Objects : inst'[j].leases = inst[j].leases
      BY <1>0, <3>3 DEF Shapes, Instances
    <3> QED
      BY <3>1, <3>2, <3>3
  <2>2. /\ \A u \in Turns \ {t} : turn'[u] = turn[u]
        /\ turn[t].state = "none" /\ turn'[t].state = "checking"
    BY <1>0, <1>10 DEF Acquire, Shapes
  <2> QED
    BY <1>10, <2>1, <2>2, AcquireKeeps, LeasesKept DEF Holds
<1>11. ASSUME NEW t \in Turns, Check(t) PROVE ViewsInv' /\ LeasesCounted'
  <2>1. \A j \in Objects : inst'[j].leases = inst[j].leases
    BY <1>11, CheckKeeps DEF Touched
  <2>2. \A u \in Turns : (Holds(u)' <=> Holds(u)) /\ (Holds(u) => turn'[u].on = turn[u].on)
    BY <1>11, CheckKeeps DEF Check, Holds
  <2> QED
    BY <1>11, <2>1, <2>2, CheckKeeps, LeasesKept
<1>12. ASSUME NEW t \in Turns, ReloadAgain(t) PROVE ViewsInv' /\ LeasesCounted'
  <2>1. \A j \in Objects : inst'[j].leases = inst[j].leases
    BY <1>12, ReloadAgainKeeps DEF Touched
  <2>2. \A u \in Turns : (Holds(u)' <=> Holds(u)) /\ (Holds(u) => turn'[u].on = turn[u].on)
    BY <1>0, <1>12 DEF ReloadAgain, Holds, Shapes, TurnRecords
  <2> QED
    BY <1>12, <2>1, <2>2, ReloadAgainKeeps, LeasesKept
<1>13. ASSUME NEW t \in Turns, Lease(t) PROVE ViewsInv' /\ LeasesCounted'
  <2>1. PICK i \in Objects : i = turn[t].on
    BY <1>0, <1>13, LeaseKeeps, CreatedOnes
  <2>2. /\ ViewsInv' /\ turn'[t].on = i /\ Holds(t)' /\ ~Holds(t)
        /\ \A u \in Turns \ {t} : turn'[u] = turn[u]
        /\ \A j \in Objects :
              inst'[j].leases = IF j = i THEN inst[j].leases + 1 ELSE inst[j].leases
    BY <1>13, <2>1, LeaseKeeps DEF Lease, Holds
  <2>3. t \notin Holders(i) /\ Holders(i)' = Holders(i) \cup {t}
    BY <1>13, <2>1, <2>2 DEF Holders, Holds
  <2>4. \A j \in Objects \ {i} : Holders(j)' = Holders(j)
    BY <2>1, <2>2 DEF Holders, Holds
  <2>5. IsFiniteSet(Holders(i))
    BY FS_Subset DEF Holders, WorkspaceInstancesAssumption
  <2>6. Cardinality(Holders(i) \cup {t}) = Cardinality(Holders(i)) + 1
    BY <2>3, <2>5, FS_AddElement
  <2>7. inst'[i].leases = Cardinality(Holders(i)')
    BY <2>2, <2>3, <2>6 DEF LeasesCounted
  <2> QED
    BY <2>2, <2>4, <2>7 DEF LeasesCounted
<1>14. ASSUME NEW t \in Turns, Release(t) PROVE ViewsInv' /\ LeasesCounted'
  <2>1. PICK i \in Objects : i = turn[t].on
    BY <1>0, <1>14, CreatedOnes DEF Release, ViewsInv, TurnsHaveInstances, HasInstance
  <2>2. t \in Holders(i) /\ IsFiniteSet(Holders(i))
    BY <1>14, <2>1, FS_Subset DEF Holders, WorkspaceInstancesAssumption, Release
  <2>3. /\ Cardinality(Holders(i) \ {t}) = Cardinality(Holders(i)) - 1
        /\ Cardinality(Holders(i)) \in Nat
    BY <2>2, FS_RemoveElement, FS_CardinalityType
  <2>4. Cardinality(Holders(i)) # 0
    BY <2>2, FS_EmptySet
  <2>5. /\ ViewsInv' /\ turn'[t].on = i /\ ~Holds(t)'
        /\ \A u \in Turns \ {t} : turn'[u] = turn[u]
        /\ \A j \in Objects :
              inst'[j].leases = IF j = i THEN inst[j].leases - 1 ELSE inst[j].leases
    BY <1>14, <2>1, <2>4, ReleaseKeeps DEF Holds, LeasesCounted
  <2>6. Holders(i)' = Holders(i) \ {t}
    BY <2>1, <2>2, <2>5 DEF Holders, Holds
  <2>7. \A j \in Objects \ {i} : Holders(j)' = Holders(j)
    BY <2>1, <2>5 DEF Holders, Holds
  <2>8. inst'[i].leases = Cardinality(Holders(i)')
    BY <2>3, <2>5, <2>6 DEF LeasesCounted
  <2> QED
    BY <2>5, <2>7, <2>8 DEF LeasesCounted
<1>15. ASSUME NEW t \in Turns, CheckFails(t) PROVE ViewsInv' /\ LeasesCounted'
  <2>1. \A u \in Turns : (Holds(u)' <=> Holds(u)) /\ (Holds(u) => turn'[u].on = turn[u].on)
    BY <1>15, CheckFailsKeeps DEF Holds
  <2> QED
    BY <1>15, <2>1, CheckFailsKeeps, LeasesKept
<1> QED
  BY <1>1, <1>2, <1>3, <1>4, <1>5, <1>6, <1>7, <1>8, <1>9, <1>10, <1>11, <1>12, <1>13,
     <1>14, <1>15 DEF Next

\* Every step keeps the bounds.
LEMMA BoundsStay ==
    ASSUME WorkspaceInstancesAssumption, Bounds, [Next]_vars PROVE Bounds'
<1> USE DEF Bounds
<1>1. ASSUME NEW w \in Worktrees, Change(w) PROVE Bounds'
  <2>1. files[w] \in 1..MaxChanges
    BY <1>1 DEF Change, WorkspaceInstancesAssumption
  <2>2. files[w] + 1 \in 1..(MaxChanges + 1)
    BY <2>1 DEF WorkspaceInstancesAssumption
  <2> QED
    BY <1>1, <2>2 DEF Change
<1>2. ASSUME NEW t \in Turns, Acquire(t) PROVE older' \subseteq map' \X map'
  <2>1. ASSUME NEW i \in map PROVE Latest(i) \subseteq map \X map
    BY DEF Latest
  <2> QED
    BY <1>2, <2>1 DEF Acquire, Among
<1>3. ASSUME NEW t \in Turns, Acquire(t) PROVE Bounds'
  BY <1>2, <1>3 DEF Acquire
<1>4. ASSUME NEW w \in Worktrees, Watched(w) PROVE Bounds'
  BY <1>4 DEF Watched
<1>5. CASE ChangeSkills \/ TimerFires
  BY <1>5 DEF ChangeSkills, TimerFires
<1>6. CASE SweepIdle
  BY <1>6 DEF SweepIdle, Among
<1>7. ASSUME NEW i \in Objects, Read(i) \/ ReloadEnds(i) \/ ReloadFails(i) PROVE Bounds'
  BY <1>7 DEF Read, ReloadEnds, ReloadFails
<1>8. ASSUME NEW t \in Turns, Check(t) \/ CheckFails(t) \/ ReloadAgain(t) \/ Lease(t)
      PROVE  Bounds'
  BY <1>8 DEF Check, CheckFails, ReloadAgain, Lease
<1>9. ASSUME NEW t \in Turns, Release(t) PROVE Bounds'
  BY <1>9 DEF Release, Among
<1>10. CASE UNCHANGED vars
  BY <1>10 DEF vars
<1> QED
  BY <1>1, <1>3, <1>4, <1>5, <1>6, <1>7, <1>8, <1>9, <1>10 DEF Next

\* The inductive invariant has the invariant: what is not dirty is as new as what is known,
\* and what is not known is to come.
LEMMA WorkspacesFromViews ==
    ASSUME WorkspaceInstancesAssumption, ViewsInv, Bounds PROVE WorkspacesInv
<1>0. Shapes
  BY DEF ViewsInv
<1>1. TypeOK
  BY <1>0, CreatedOnes DEF TypeOK, Bounds, Shapes, Instances, TurnRecords
<1>2. KnownChangesAreUsed
  BY DEF KnownChangesAreUsed, ViewsInv, TurnsAreServed, Served
<1>3. StaleIsDirty
  <2>1. SUFFICES ASSUME NEW i \in map, Loaded(i), ~inst[i].dirty, inst[i].tree \notin noticed
                 PROVE  inst[i].snapshot.text = files[inst[i].tree]
    BY <1>0, CreatedOnes DEF StaleIsDirty
  <2>2. Current(i) /\ Grows(i) /\ inst[i] \in Instances /\ files[inst[i].tree] \in Nat
    BY <1>0, CreatedOnes DEF ViewsInv, ViewsAreCurrent, VersionsGrow
  <2>3. inst[i].snapshot.text >= files[inst[i].tree]
    BY <2>1, <2>2 DEF Current, Known
  <2> QED
    BY <2>2, <2>3 DEF Grows, Instances, Snapshots
<1> QED
  BY <1>1, <1>2, <1>3 DEF WorkspacesInv, ViewsInv

\* Nothing is cached, and nobody holds a lease.
LEMMA InitWorkspaces ==
    ASSUME WorkspaceInstancesAssumption, Init PROVE WorkspaceInv
<1>1. ASSUME NEW i \in Objects PROVE inst[i].leases = 0 /\ Holders(i) = {}
  BY DEF Init, Holders, NoObject
<1>2. LeasesCounted
  BY <1>1, FS_EmptySet DEF LeasesCounted
<1>3. Bounds
  <2>1. 1 \in 1..(MaxChanges + 1)
    BY DEF WorkspaceInstancesAssumption
  <2> QED
    BY <2>1 DEF Init, Bounds
<1> QED
  BY <1>2, <1>3, InitViews DEF WorkspaceInv

\* Every step keeps the invariant.
LEMMA NextKeepsWorkspaces ==
    ASSUME WorkspaceInstancesAssumption, WorkspaceInv, [Next]_vars PROVE WorkspaceInv'
  BY LeasesStayCounted, BoundsStay DEF WorkspaceInv

\* However changes, events, reloads, leases and evictions interleave, a turn uses the changes
\* that were known when it asked, a stale view is known to be or its event is to come, and a
\* worktree has one instance.
THEOREM WorkspacesAreKept ==
    ASSUME WorkspaceInstancesAssumption PROVE Spec => []WorkspacesInv
<1>1. Init => WorkspaceInv
  BY InitWorkspaces
<1>2. WorkspaceInv /\ [Next]_vars => WorkspaceInv'
  BY NextKeepsWorkspaces
<1>3. WorkspaceInv => WorkspacesInv
  BY WorkspacesFromViews DEF WorkspaceInv
<1> QED
  BY <1>1, <1>2, <1>3, PTL DEF Spec
=============================================================================
