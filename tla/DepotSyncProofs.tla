--------------------------- MODULE DepotSyncProofs ---------------------------
(***************************************************************************)
(* Proofs about DepotSync, for any number of passes, manifests and faults: *)
(* the lock row really is mutual exclusion, provided no holder outlives    *)
(* STALE_LOCK_SECS (an older row is stolen from a holder that still        *)
(* works), and under it a marker is only written for the tree that is      *)
(* there and vouches for it until something fails.                         *)
(***************************************************************************)
EXTENDS DepotSync, TLAPS

\* A sync, and the detached release after it, take less time than it takes a
\* lock row to go stale.
HoldsAreShort == MaxHold <= STALE_LOCK_SECS

\* The lock row outlives its holder until its release has run: at most one
\* holder or one pending release stands behind a row, and that row is young.
LockInv ==
  /\ \A t \in Tasks : Holds(t) => locked /\ releases = 0
  /\ OneWriter
  /\ releases \in {0, 1}
  /\ releases = 1 => locked
  /\ Serving => age <= MaxHold

\* Between the end of sync_depot and mark_synced nobody touches the tree.
SyncedInv == \A t \in Tasks : task[t].pc = "synced" => disk = task[t].plan

ConstFacts == STALE_LOCK_SECS \in Nat /\ MaxHold \in Nat /\ MaxManifest \in Nat \ {0}
              /\ MaxFaults \in Nat

LEMMA Constants == ConstFacts
BY StaleAssumption, HoldAssumption, ManifestAssumption, FaultsAssumption DEF ConstFacts

LEMMA TypeInit == Init => TypeOK
<1> SUFFICES ASSUME Init PROVE TypeOK
  OBVIOUS
<1> USE Constants DEF ConstFacts, Init, Manifests, None
<1>1. IdleTask \in TaskRecords
  BY DEF TaskRecords, IdleTask, Pcs
<1>2. task \in [Tasks -> TaskRecords]
  BY <1>1
<1>3. steam \in Manifests /\ age \in 0 .. STALE_LOCK_SECS + 1 /\ faults \in 0 .. MaxFaults
  OBVIOUS
<1> QED BY <1>2, <1>3 DEF TypeOK

\* Every step keeps every variable in its type.
LEMMA TypeStep == TypeOK /\ [Next]_vars => TypeOK'
<1> SUFFICES ASSUME TypeOK, [Next]_vars PROVE TypeOK'
  OBVIOUS
<1> USE Constants DEF ConstFacts, TypeOK, Manifests, None, Torn
<1>t. IdleTask \in TaskRecords
  BY DEF IdleTask, TaskRecords, Pcs
<1>g. ASSUME NEW t \in Tasks, NEW pc \in Pcs
      PROVE  [task EXCEPT ![t].pc = pc] \in [Tasks -> TaskRecords]
  BY DEF TaskRecords
<1>i. ASSUME NEW t \in Tasks
      PROVE  [task EXCEPT ![t] = IdleTask] \in [Tasks -> TaskRecords]
  BY <1>t
<1>1. ASSUME NEW t \in Tasks, GetDetails(t) PROVE TypeOK'
  <2>1. [pc |-> "details", plan |-> steam, snap |-> None] \in TaskRecords
    BY DEF TaskRecords, Pcs
  <2> QED BY <1>1, <2>1 DEF GetDetails, lockVars, treeVars
<1>2. ASSUME NEW t \in Tasks, Snapshot(t) PROVE TypeOK'
  <2>1. task' \in [Tasks -> TaskRecords]
    BY <1>2 DEF Snapshot, TaskRecords, Pcs
  <2> QED BY <1>2, <2>1 DEF Snapshot, lockVars, treeVars
<1>3. ASSUME NEW t \in Tasks, Skip(t) PROVE TypeOK'
  BY <1>3, <1>i DEF Skip, lockVars, treeVars
<1>4. ASSUME NEW t \in Tasks, Dispatch(t) PROVE TypeOK'
  BY <1>4, <1>g DEF Dispatch, Goto, Pcs, lockVars, treeVars
<1>5. ASSUME NEW t \in Tasks, TryAcquire(t) PROVE TypeOK'
  <2>1. age' \in 0 .. STALE_LOCK_SECS + 1 /\ releases' \in Nat
    BY <1>5 DEF TryAcquire
  <2>2. task' \in [Tasks -> TaskRecords]
    BY <1>5, <1>g DEF TryAcquire, Goto, Pcs
  <2> QED BY <1>5, <2>1, <2>2 DEF TryAcquire, treeVars
<1>6. ASSUME NEW t \in Tasks, TrustOther(t) PROVE TypeOK'
  <2>1. releases' \in Nat
    BY <1>6 DEF TrustOther, DropGuard
  <2>2. task' \in [Tasks -> TaskRecords]
    BY <1>6, <1>g DEF TrustOther, Goto, Pcs
  <2> QED BY <1>6, <2>1, <2>2 DEF TrustOther, DropGuard, treeVars
<1>7. ASSUME NEW t \in Tasks, SyncStart(t) PROVE TypeOK'
  BY <1>7, <1>g DEF SyncStart, Goto, Pcs, lockVars
<1>8. ASSUME NEW t \in Tasks, SyncDone(t) PROVE TypeOK'
  <2>1. task[t].plan \in Manifests \cup {None}
    BY DEF TaskRecords
  <2>2. disk' \in Manifests \cup {None, Torn}
    BY <1>8, <2>1 DEF SyncDone
  <2> QED BY <1>8, <1>g, <2>2 DEF SyncDone, Goto, Pcs, lockVars
<1>9. ASSUME NEW t \in Tasks, MarkSynced(t) PROVE TypeOK'
  <2>1. task[t].plan \in Manifests \cup {None}
    BY DEF TaskRecords
  <2>2. releases' \in Nat
    BY <1>9 DEF MarkSynced, DropGuard
  <2>3. task' \in [Tasks -> TaskRecords]
    BY <1>9, <1>g DEF MarkSynced, Goto, Pcs
  <2> QED BY <1>9, <2>1, <2>2, <2>3 DEF MarkSynced, DropGuard
<1>10. ASSUME NEW t \in Tasks, Patch(t) PROVE TypeOK'
  BY <1>10, <1>i DEF Patch, lockVars
<1>11. ASSUME NEW t \in Tasks, Cancel(t) PROVE TypeOK'
  BY <1>11, <1>i DEF Cancel, Fault, DropGuard, lockVars, treeVars
<1>12. ASSUME NEW t \in Tasks, PatchFail(t) PROVE TypeOK'
  BY <1>12, <1>i DEF PatchFail, Fault, lockVars, treeVars
<1>19. ASSUME NEW t \in Tasks, MarkFails(t) PROVE TypeOK'
  <2>1. task' \in [Tasks -> TaskRecords]
    BY <1>19, <1>g DEF MarkFails, Goto, Pcs
  <2> QED BY <1>19, <2>1 DEF MarkFails, Fault, DropGuard, treeVars
<1>13. CASE Release
  <2>1. age' \in 0 .. STALE_LOCK_SECS + 1 /\ releases' \in Nat
    BY <1>13 DEF Release
  <2> QED BY <1>13, <2>1 DEF Release, treeVars
<1>14. CASE Publish
  BY <1>14 DEF Publish, lockVars, treeVars
<1>15. CASE Tick
  BY <1>15 DEF Tick, treeVars
<1>16. CASE Crash
  BY <1>16, <1>t DEF Crash, Fault, treeVars
<1>17. CASE Invalidate
  BY <1>17 DEF Invalidate, Fault, lockVars
<1>18. CASE UNCHANGED vars
  BY <1>18 DEF vars
<1> QED
  BY <1>1, <1>2, <1>3, <1>4, <1>5, <1>6, <1>7, <1>8, <1>9, <1>10, <1>11, <1>12,
     <1>13, <1>14, <1>15, <1>16, <1>17, <1>18, <1>19 DEF Next, TaskStep

(***************************************************************************)
(* Type correctness: every reachable state of the lock row, the marker,    *)
(* the tree and the passes (cache.rs, steam.rs) has its declared type.     *)
(***************************************************************************)
THEOREM TypeCorrect == Spec => []TypeOK
BY TypeInit, TypeStep, PTL DEF Spec

-----------------------------------------------------------------------------
LEMMA LockInit == Init => LockInv /\ SyncedInv
BY Constants DEF ConstFacts, Init, LockInv, SyncedInv, OneWriter, Serving, Holds, IdleTask

\* A pass that leaves its step gives up the lock or did not have it: nobody
\* holds the lock afterwards who did not hold it before.
LEMMA DropGuardStep ==
  ASSUME TypeOK, LockInv, NEW t \in Tasks, Holds(t), DropGuard,
         \A u \in Tasks \ {t} : task'[u] = task[u],
         ~ Holds(t)'
  PROVE  LockInv'
<1> USE Constants DEF ConstFacts, TypeOK
<1>1. locked /\ releases = 0 /\ age <= MaxHold
  BY DEF LockInv, Serving
<1>2. releases' = 1 /\ locked' = locked /\ age' = age
  BY <1>1 DEF DropGuard
<1>3. \A u \in Tasks : ~ Holds(u)'
  <2> SUFFICES ASSUME NEW u \in Tasks \ {t} PROVE ~ Holds(u)'
    OBVIOUS
  <2> QED BY DEF LockInv, OneWriter, Holds
<1> QED BY <1>1, <1>2, <1>3 DEF LockInv, OneWriter, Serving

\* A step that leaves the lock alone and by which no pass starts or stops
\* holding it.
LEMMA QuietStep ==
  ASSUME TypeOK, LockInv, UNCHANGED lockVars,
         \A u \in Tasks : Holds(u)' <=> Holds(u)
  PROVE  LockInv'
BY DEF LockInv, OneWriter, Serving, lockVars

\* The lock invariant is inductive if holds are short.
LEMMA LockStep ==
  ASSUME HoldsAreShort
  PROVE  TypeOK /\ LockInv /\ [Next]_vars => LockInv'
<1> SUFFICES ASSUME TypeOK, LockInv, [Next]_vars PROVE LockInv'
  OBVIOUS
<1> USE Constants DEF ConstFacts, TypeOK
<1>1. ASSUME NEW t \in Tasks, GetDetails(t) \/ Snapshot(t) \/ Skip(t) \/ Dispatch(t)
             \/ SyncStart(t) \/ SyncDone(t) \/ Patch(t) \/ PatchFail(t)
      PROVE  LockInv'
  <2>1. UNCHANGED lockVars
    BY <1>1 DEF GetDetails, Snapshot, Skip, Dispatch, SyncStart, SyncDone, Patch, PatchFail
  <2>2. ASSUME NEW u \in Tasks PROVE Holds(u)' <=> Holds(u)
    <3>1. CASE u = t
      <4>1. CASE GetDetails(t) \/ Snapshot(t) \/ Dispatch(t)
        BY <4>1, <3>1 DEF Holds, GetDetails, Snapshot, Dispatch, Goto, TaskRecords
      <4>2. CASE SyncStart(t) \/ SyncDone(t)
        BY <4>2, <3>1 DEF Holds, SyncStart, SyncDone, Goto, TaskRecords
      <4>3. CASE Skip(t) \/ Patch(t) \/ PatchFail(t)
        BY <4>3, <3>1 DEF Holds, Skip, Patch, PatchFail, IdleTask
      <4> QED BY <1>1, <4>1, <4>2, <4>3
    <3>2. CASE u # t
      <4>1. task'[u] = task[u]
        BY <1>1, <3>2 DEF GetDetails, Snapshot, Skip, Dispatch, SyncStart, SyncDone, Patch,
                          PatchFail, Goto
      <4> QED BY <4>1 DEF Holds
    <3> QED BY <3>1, <3>2
  <2> QED BY <2>1, <2>2, QuietStep
<1>2. ASSUME NEW t \in Tasks, TryAcquire(t) PROVE LockInv'
  <2>1. ~ Serving /\ releases = 0
    BY <1>2 DEF TryAcquire, LockInv, Serving, HoldsAreShort
  <2>2. \A u \in Tasks : Holds(u)' <=> u = t
    BY <1>2, <2>1 DEF TryAcquire, Goto, Holds, Serving
  <2>3. locked' /\ releases' = 0 /\ age' = 0
    BY <1>2, <2>1 DEF TryAcquire
  <2> QED BY <2>2, <2>3 DEF LockInv, OneWriter, Serving
<1>3. ASSUME NEW t \in Tasks, TrustOther(t) \/ MarkSynced(t) \/ MarkFails(t) PROVE LockInv'
  <2>1. Holds(t) /\ DropGuard /\ ~ Holds(t)'
    BY <1>3 DEF TrustOther, MarkSynced, MarkFails, Holds, Goto, TaskRecords
  <2>2. \A u \in Tasks \ {t} : task'[u] = task[u]
    BY <1>3 DEF TrustOther, MarkSynced, MarkFails, Goto
  <2> QED BY <2>1, <2>2, DropGuardStep
<1>4. ASSUME NEW t \in Tasks, Cancel(t) PROVE LockInv'
  <2>1. task' = [task EXCEPT ![t] = IdleTask]
    BY <1>4 DEF Cancel
  <2>2. ~ Holds(t)'
    BY <2>1 DEF Holds, IdleTask
  <2>3. \A u \in Tasks \ {t} : task'[u] = task[u]
    BY <2>1
  <2>4. CASE Holds(t)
    BY <1>4, <2>2, <2>3, <2>4, DropGuardStep DEF Cancel
  <2>5. CASE ~ Holds(t)
    <3>1. UNCHANGED lockVars
      BY <1>4, <2>5 DEF Cancel
    <3>2. \A u \in Tasks : Holds(u)' <=> Holds(u)
      BY <2>2, <2>3, <2>5 DEF Holds
    <3> QED BY <3>1, <3>2, QuietStep
  <2> QED BY <2>4, <2>5
<1>5. CASE Release
  <2>1. releases = 1 /\ releases' = 0 /\ age' = 0
    BY <1>5 DEF Release, LockInv
  <2>2. \A u \in Tasks : ~ Holds(u)'
    BY <1>5, <2>1 DEF Release, LockInv, Holds
  <2> QED BY <2>1, <2>2 DEF LockInv, OneWriter, Serving
<1>6. CASE Tick
  <2>1. \A u \in Tasks : Holds(u)' <=> Holds(u)
    BY <1>6 DEF Tick, Holds
  <2>2. locked' = locked /\ releases' = releases
    BY <1>6 DEF Tick
  <2>3. Serving' => age' <= MaxHold
    BY <1>6, <2>1, <2>2 DEF Tick, Serving
  <2> QED BY <2>1, <2>2, <2>3 DEF LockInv, OneWriter
<1>7. CASE Crash
  <2>1. \A u \in Tasks : ~ Holds(u)'
    BY <1>7 DEF Crash, Holds, IdleTask
  <2>2. releases' = 0
    BY <1>7 DEF Crash
  <2> QED BY <2>1, <2>2 DEF LockInv, OneWriter, Serving
<1>8. CASE Publish \/ Invalidate \/ UNCHANGED vars
  <2>1. UNCHANGED lockVars /\ \A u \in Tasks : Holds(u)' <=> Holds(u)
    BY <1>8 DEF Publish, Invalidate, vars, lockVars, Holds
  <2> QED BY <2>1, QuietStep
<1> QED
  BY <1>1, <1>2, <1>3, <1>4, <1>5, <1>6, <1>7, <1>8 DEF Next, TaskStep

\* What sync_depot left on disk stays until the pass has marked it.
LEMMA SyncedStep == TypeOK /\ LockInv /\ SyncedInv /\ [Next]_vars => SyncedInv'
<1> SUFFICES ASSUME TypeOK, LockInv, SyncedInv, [Next]_vars,
                    NEW u \in Tasks, task'[u].pc = "synced"
             PROVE  disk' = task'[u].plan
  BY DEF SyncedInv
<1> USE DEF TypeOK
<1>1. ASSUME NEW t \in Tasks, SyncDone(t) PROVE disk' = task'[u].plan
  <2>1. Holds(t) /\ task'[t].plan = task[t].plan
    BY <1>1 DEF SyncDone, Holds, Goto, TaskRecords
  <2>2. u = t
    BY <1>1, <2>1 DEF SyncDone, Goto, LockInv, OneWriter, Holds
  <2>3. \A v \in Tasks \ {t} : ~ Writing(v)
    BY <2>1 DEF LockInv, OneWriter, Holds, Writing
  <2> QED BY <1>1, <2>1, <2>2, <2>3 DEF SyncDone
<1>2. ASSUME NEW t \in Tasks, SyncStart(t) PROVE disk' = task'[u].plan
  <2>1. Holds(t)
    BY <1>2 DEF SyncStart, Holds
  <2>2. task[u].pc = "synced" /\ u # t
    BY <1>2 DEF SyncStart, Goto
  <2> QED BY <2>1, <2>2 DEF LockInv, OneWriter, Holds
<1>3. ASSUME NEW t \in Tasks, GetDetails(t) \/ Snapshot(t) \/ Skip(t) \/ Dispatch(t)
             \/ TryAcquire(t) \/ TrustOther(t) \/ MarkSynced(t) \/ MarkFails(t)
             \/ Patch(t) \/ Cancel(t) \/ PatchFail(t)
      PROVE  disk' = task'[u].plan
  <2>1. disk' = disk
    BY <1>3 DEF GetDetails, Snapshot, Skip, Dispatch, TryAcquire, TrustOther, MarkSynced, MarkFails,
                Patch, Cancel, PatchFail, treeVars
  <2>2. task'[u] = task[u]
    <3>1. CASE u = t
      <4>1. CASE GetDetails(t) \/ Snapshot(t) \/ Dispatch(t) \/ TryAcquire(t)
                 \/ TrustOther(t) \/ MarkSynced(t) \/ MarkFails(t)
        BY <4>1, <3>1 DEF GetDetails, Snapshot, Dispatch, TryAcquire, TrustOther, MarkSynced,
                          MarkFails, Goto, TaskRecords
      <4>2. CASE Skip(t) \/ Patch(t) \/ Cancel(t) \/ PatchFail(t)
        BY <4>2, <3>1 DEF Skip, Patch, Cancel, PatchFail, IdleTask
      <4> QED BY <1>3, <4>1, <4>2
    <3>2. CASE u # t
      BY <1>3, <3>2 DEF GetDetails, Snapshot, Skip, Dispatch, TryAcquire, TrustOther,
                        MarkSynced, MarkFails, Patch, Cancel, PatchFail, Goto
    <3> QED BY <3>1, <3>2
  <2> QED BY <2>1, <2>2 DEF SyncedInv
<1>4. CASE Release \/ Publish \/ Tick \/ Invalidate \/ UNCHANGED vars
  BY <1>4 DEF Release, Publish, Tick, Invalidate, vars, treeVars, SyncedInv
<1>5. CASE Crash
  BY <1>5 DEF Crash, IdleTask
<1> QED
  BY <1>1, <1>2, <1>3, <1>4, <1>5 DEF Next, TaskStep

LEMMA Inductive ==
  ASSUME HoldsAreShort
  PROVE  Spec => [](TypeOK /\ LockInv /\ SyncedInv)
<1>1. Init => TypeOK /\ LockInv /\ SyncedInv
  BY TypeInit, LockInit
<1>2. TypeOK /\ LockInv /\ SyncedInv /\ [Next]_vars => (TypeOK /\ LockInv /\ SyncedInv)'
  BY TypeStep, LockStep, SyncedStep
<1> QED BY <1>1, <1>2, PTL DEF Spec

(***************************************************************************)
(* The cross-process lock (cache.rs try_acquire / release / LockGuard)     *)
(* excludes a second holder, through detached releases, cancelled passes,  *)
(* crashes and stolen stale rows, for any number of passes, as long as no  *)
(* hold outlives STALE_LOCK_SECS.                                          *)
(***************************************************************************)
THEOREM MutualExclusion ==
  ASSUME HoldsAreShort
  PROVE  Spec => []OneWriter
<1>1. LockInv => OneWriter
  BY DEF LockInv
<1> QED BY <1>1, Inductive, PTL

(***************************************************************************)
(* mark_synced only ever records the manifest that is on disk, under the   *)
(* same proviso.                                                           *)
(***************************************************************************)
THEOREM MarkersTruthful ==
  ASSUME HoldsAreShort
  PROVE  Spec => MarkerTruthfulWhenWritten
<1>1. TypeOK /\ SyncedInv /\ [Next]_vars
        => [row' # row /\ row' # None => disk = row']_vars
  <2> SUFFICES ASSUME TypeOK, SyncedInv, Next, row' # row, row' # None
               PROVE  disk = row'
    OBVIOUS
  <2>1. ASSUME NEW t \in Tasks, MarkSynced(t) PROVE disk = row'
    BY <2>1 DEF MarkSynced, SyncedInv
  <2>2. ASSUME NEW t \in Tasks, ~ MarkSynced(t),
             TaskStep(t) \/ MarkFails(t) \/ Cancel(t) \/ PatchFail(t)
        PROVE  row' = row
    BY <2>2 DEF TaskStep, GetDetails, Snapshot, Skip, Dispatch, TryAcquire, TrustOther,
                SyncStart, SyncDone, MarkFails, Patch, Cancel, PatchFail, treeVars
  <2>3. Release \/ Publish \/ Tick \/ Crash => row' = row
    BY DEF Release, Publish, Tick, Crash, treeVars
  <2>4. Invalidate => row' = None
    BY DEF Invalidate
  <2> QED BY <2>1, <2>2, <2>3, <2>4 DEF Next
<1> QED BY <1>1, Inductive, PTL DEF Spec, MarkerTruthfulWhenWritten

-----------------------------------------------------------------------------
(***************************************************************************)
(* The passes take turns.                                                  *)
(***************************************************************************)
\* A pass under way has a plan.
PlanInv == \A t \in Tasks : task[t].pc # "idle" => task[t].plan \in Manifests

LEMMA PlanStep == TypeOK /\ PlanInv /\ [Next]_vars => PlanInv'
<1> SUFFICES ASSUME TypeOK, PlanInv, [Next]_vars, NEW u \in Tasks, task'[u].pc # "idle"
             PROVE  task'[u].plan \in Manifests
  BY DEF PlanInv
<1>r. task \in [Tasks -> TaskRecords] /\ steam \in Manifests
  BY DEF TypeOK
<1>1. ASSUME NEW t \in Tasks, GetDetails(t) PROVE task'[u].plan \in Manifests
  BY <1>1, <1>r DEF GetDetails, PlanInv
<1>2. ASSUME NEW t \in Tasks, Skip(t) \/ Patch(t) \/ Cancel(t) \/ PatchFail(t)
      PROVE  task'[u].plan \in Manifests
  BY <1>2, <1>r DEF Skip, Patch, Cancel, PatchFail, IdleTask, PlanInv
<1>3. ASSUME NEW t \in Tasks, \/ Snapshot(t) \/ Dispatch(t) \/ TryAcquire(t) \/ TrustOther(t)
                              \/ SyncStart(t) \/ SyncDone(t) \/ MarkSynced(t) \/ MarkFails(t)
      PROVE  task'[u].plan \in Manifests
  <2>1. task[t].pc # "idle"
    BY <1>3 DEF Snapshot, Dispatch, TryAcquire, TrustOther, SyncStart, SyncDone, MarkSynced,
                  MarkFails
  <2>2. task'[u].plan = task[u].plan /\ (u # t => task'[u] = task[u])
    BY <1>3, <1>r DEF Snapshot, Dispatch, TryAcquire, TrustOther, SyncStart, SyncDone, MarkSynced,
                      MarkFails, Goto, TaskRecords
  <2> QED BY <2>1, <2>2 DEF PlanInv
<1>4. CASE Release \/ Publish \/ Tick \/ Invalidate \/ UNCHANGED vars
  BY <1>4 DEF Release, Publish, Tick, Invalidate, vars, PlanInv
<1>5. CASE Crash
  BY <1>5 DEF Crash, IdleTask
<1> QED BY <1>1, <1>2, <1>3, <1>4, <1>5 DEF Next, TaskStep

Turn == {<<t, task[t].plan>> : t \in {u \in Tasks : Holds(u)}}

\* Whose turn it is, before and after a step.
LEMMA TurnOf ==
  ASSUME LockInv, NEW t \in Tasks, Holds(t) PROVE Turn = {<<t, task[t].plan>>}
BY DEF LockInv, OneWriter, Turn

LEMMA TurnKept ==
  ASSUME \A u \in Tasks : /\ Holds(u)' <=> Holds(u)
                          /\ Holds(u) => task'[u].plan = task[u].plan
  PROVE  Turn' = Turn
BY DEF Turn

LEMMA TurnOver == ASSUME \A u \in Tasks : ~ Holds(u)' PROVE Turn' = {}
BY DEF Turn

\* Each step is one of SerialSync, seen through the lock, or none.
LEMMA SerialStep ==
  ASSUME TypeOK, LockInv, LockInv', SyncedInv, PlanInv, [Next]_vars, HoldsAreShort
  PROVE  [SerialSync!Next]_(SerialSync!vars)
<1> DEFINE Goal == [SerialSync!Next]_(SerialSync!vars)
<1>r. task \in [Tasks -> TaskRecords]
  BY DEF TypeOK
<1>s. ASSUME Turn' = Turn, UNCHANGED <<disk, row>> PROVE Goal
  BY <1>s DEF Turn, SerialSync!vars
<1>e. ASSUME Turn' = {}, UNCHANGED <<disk, row>> PROVE Goal
  BY <1>e DEF Turn, SerialSync!Next, SerialSync!End
<1>p. ASSUME NEW t \in Tasks, Holds(t) PROVE task[t].plan \in Manifests
  BY <1>p DEF PlanInv, Holds
\* A pass that drops its guard ends the turn: it was the only one.
<1>d. ASSUME NEW t \in Tasks, Holds(t), \A u \in Tasks \ {t} : task'[u] = task[u], ~ Holds(t)'
      PROVE  Turn' = {}
  <2>1. \A u \in Tasks : ~ Holds(u)'
    BY <1>d DEF LockInv, OneWriter, Holds
  <2> QED BY <2>1, TurnOver
<1>1. ASSUME NEW t \in Tasks, \/ GetDetails(t) \/ Snapshot(t) \/ Skip(t) \/ Dispatch(t)
                              \/ Patch(t) \/ PatchFail(t)
      PROVE  Goal
  <2>1. UNCHANGED <<disk, row>>
    BY <1>1 DEF GetDetails, Snapshot, Skip, Dispatch, Patch, PatchFail, treeVars
  <2>2. ~ Holds(t) /\ ~ Holds(t)' /\ \A u \in Tasks \ {t} : task'[u] = task[u]
    BY <1>1, <1>r DEF GetDetails, Snapshot, Skip, Dispatch, Patch, PatchFail, Goto, Holds, IdleTask,
                      TaskRecords
  <2>3. Turn' = Turn
    BY <2>2, TurnKept DEF Holds
  <2> QED BY <1>s, <2>1, <2>3
<1>2. ASSUME NEW t \in Tasks, TryAcquire(t) PROVE Goal
  <2>1. Holds(t)' /\ task'[t].plan = task[t].plan /\ UNCHANGED <<disk, row>>
    BY <1>2, <1>r DEF TryAcquire, Goto, Holds, TaskRecords, treeVars
  <2>2. \A u \in Tasks : ~ Holds(u)
    BY <1>2, Constants DEF ConstFacts, TryAcquire, LockInv, Serving, HoldsAreShort, TypeOK
  <2>3. Turn = {}
    BY <2>2 DEF Turn
  <2>4. Turn' = {<<t, task[t].plan>>}
    BY <2>1 DEF LockInv, OneWriter, Turn
  <2>5. task[t].plan \in Manifests
    BY <1>2 DEF TryAcquire, PlanInv
  <2> QED BY <2>1, <2>3, <2>4, <2>5 DEF Turn, SerialSync!Next, SerialSync!Begin
<1>3. ASSUME NEW t \in Tasks, TrustOther(t) \/ MarkFails(t) PROVE Goal
  <2>1. /\ Holds(t) /\ ~ Holds(t)' /\ UNCHANGED <<disk, row>>
        /\ \A u \in Tasks \ {t} : task'[u] = task[u]
    BY <1>3, <1>r DEF TrustOther, MarkFails, Goto, Holds, TaskRecords, treeVars
  <2> QED BY <1>d, <1>e, <2>1
<1>4. ASSUME NEW t \in Tasks, SyncStart(t) \/ SyncDone(t) PROVE Goal
  <2>1. /\ Holds(t) /\ Holds(t)' /\ row' = row /\ task'[t].plan = task[t].plan
        /\ \A u \in Tasks \ {t} : task'[u] = task[u]
    BY <1>4, <1>r DEF SyncStart, SyncDone, Goto, Holds, TaskRecords
  <2>2. disk' \in {task[t].plan, Torn}
    BY <1>4 DEF SyncStart, SyncDone
  <2>3. Turn' = Turn
    BY <2>1, TurnKept DEF Holds
  <2>4. Turn = {<<t, task[t].plan>>}
    BY <2>1, TurnOf
  <2> QED BY <1>p, <2>1, <2>2, <2>3, <2>4 DEF Turn, SerialSync!Next, SerialSync!Write
<1>5. ASSUME NEW t \in Tasks, MarkSynced(t) PROVE Goal
  <2>1. /\ Holds(t) /\ ~ Holds(t)' /\ disk' = disk /\ row' = task[t].plan
        /\ \A u \in Tasks \ {t} : task'[u] = task[u]
    BY <1>5, <1>r DEF MarkSynced, Goto, Holds, TaskRecords
  <2>2. disk = task[t].plan
    BY <1>5 DEF MarkSynced, SyncedInv
  <2>3. Turn = {<<t, task[t].plan>>}
    BY <2>1, TurnOf
  <2>4. Turn' = {}
    BY <1>d, <2>1
  <2> QED BY <1>p, <2>1, <2>2, <2>3, <2>4 DEF Turn, SerialSync!Next, SerialSync!Mark
<1>6. ASSUME NEW t \in Tasks, Cancel(t) PROVE Goal
  <2>1. /\ ~ Holds(t)' /\ UNCHANGED <<disk, row>>
        /\ \A u \in Tasks \ {t} : task'[u] = task[u]
    BY <1>6, <1>r DEF Cancel, Holds, IdleTask, treeVars
  <2>2. CASE Holds(t)
    BY <1>d, <1>e, <2>1, <2>2
  <2>3. CASE ~ Holds(t)
    <3>1. Turn' = Turn
      BY <2>1, <2>3, TurnKept DEF Holds
    <3> QED BY <1>s, <2>1, <3>1
  <2> QED BY <2>2, <2>3
<1>7. CASE Release \/ Publish \/ Tick \/ UNCHANGED vars
  <2>1. UNCHANGED <<disk, row, task>>
    BY <1>7 DEF Release, Publish, Tick, vars, treeVars
  <2> QED BY <1>s, <2>1 DEF Turn, Holds
<1>8. CASE Crash
  <2>1. UNCHANGED <<disk, row>> /\ \A u \in Tasks : ~ Holds(u)'
    BY <1>8 DEF Crash, Holds, IdleTask, treeVars
  <2> QED BY <1>e, <2>1, TurnOver
<1>9. CASE Invalidate
  <2>1. disk' = disk /\ row' = None /\ task' = task
    BY <1>9 DEF Invalidate
  <2>2. Turn' = Turn
    BY <2>1 DEF Turn, Holds
  <2> QED BY <2>1, <2>2 DEF Turn, SerialSync!Next, SerialSync!Forget
<1> QED
  BY <1>1, <1>2, <1>3, <1>4, <1>5, <1>6, <1>7, <1>8, <1>9 DEF Next, TaskStep

(***************************************************************************)
(* The lock row serialises the passes: with detached releases, cancelled   *)
(* passes, crashes, stolen rows and plans that are out of date by the time *)
(* the lock is had, what happens to the tree and its marker is what passes *)
(* that take turns do.  As long as no hold outlives STALE_LOCK_SECS.       *)
(***************************************************************************)
THEOREM ImplementsSerialSync ==
  ASSUME HoldsAreShort
  PROVE  Spec => PassesTakeTurns
<1>1. Init => SerialSync!Init
  BY DEF Init, Holds, IdleTask, SerialSync!Init
<1>2. Init => PlanInv
  BY DEF Init, PlanInv, IdleTask
<1>3. TypeOK /\ LockInv /\ LockInv' /\ SyncedInv /\ PlanInv /\ [Next]_vars
        => [SerialSync!Next]_(SerialSync!vars)
  BY SerialStep
<1> QED
  BY <1>1, <1>2, <1>3, PlanStep, Inductive, PTL DEF Spec, PassesTakeTurns, SerialSync!Spec

-----------------------------------------------------------------------------
(***************************************************************************)
(* The tree between the passes, as long as nothing failed: whoever tears   *)
(* it goes on to mark it, and whoever undoes the patch goes on to redo it. *)
(***************************************************************************)
TreeInv ==
  faults = 0 =>
    /\ (\A t \in Tasks : task[t].pc \notin {"syncing", "synced"}) => disk = row
    /\ row # None /\ ~ patched => \E t \in Tasks : task[t].pc \in {"syncing", "synced", "patch"}

\* A step that leaves the tree alone, and every pass that works on it.
LEMMA TreeIdle ==
  ASSUME TreeInv, UNCHANGED <<row, disk, patched, faults>>,
         \A u \in Tasks : task[u].pc \in {"syncing", "synced", "patch"} => task'[u].pc = task[u].pc
  PROVE  TreeInv'
BY DEF TreeInv

LEMMA TreeStep == TypeOK /\ LockInv /\ SyncedInv /\ TreeInv /\ [Next]_vars => TreeInv'
<1> SUFFICES ASSUME TypeOK, LockInv, SyncedInv, TreeInv, [Next]_vars PROVE TreeInv'
  OBVIOUS
<1>f. ASSUME Fault PROVE TreeInv'
  <2>1. faults' # 0
    BY <1>f, Constants DEF Fault, TypeOK, ConstFacts
  <2> QED BY <2>1 DEF TreeInv
<1>r. task \in [Tasks -> TaskRecords]
  BY DEF TypeOK
<1>1. ASSUME NEW t \in Tasks, GetDetails(t) \/ Snapshot(t) \/ Skip(t) \/ Dispatch(t) \/ TryAcquire(t)
             \/ TrustOther(t)
      PROVE  TreeInv'
  <2>1. UNCHANGED <<row, disk, patched, faults>>
    BY <1>1 DEF GetDetails, Snapshot, Skip, Dispatch, TryAcquire, TrustOther, treeVars
  <2>2. task[t].pc \notin {"syncing", "synced", "patch"}
    BY <1>1 DEF GetDetails, Snapshot, Skip, Dispatch, TryAcquire, TrustOther
  <2>3. \A u \in Tasks \ {t} : task'[u] = task[u]
    BY <1>1, <1>r DEF GetDetails, Snapshot, Skip, Dispatch, TryAcquire, TrustOther, Goto
  <2> QED BY <2>1, <2>2, <2>3, TreeIdle
<1>2. ASSUME NEW t \in Tasks, SyncStart(t) PROVE TreeInv'
  <2>1. task'[t].pc = "syncing"
    BY <1>2, <1>r DEF SyncStart, Goto, TaskRecords
  <2> QED BY <2>1 DEF TreeInv
<1>3. ASSUME NEW t \in Tasks, SyncDone(t) PROVE TreeInv'
  <2>1. task'[t].pc = "synced"
    BY <1>3, <1>r DEF SyncDone, Goto, TaskRecords
  <2> QED BY <2>1 DEF TreeInv
<1>4. ASSUME NEW t \in Tasks, MarkSynced(t) PROVE TreeInv'
  <2>1. task'[t].pc = "patch"
    BY <1>4, <1>r DEF MarkSynced, Goto, TaskRecords
  <2>2. row' = disk'
    BY <1>4 DEF MarkSynced, SyncedInv
  <2> QED BY <2>1, <2>2 DEF TreeInv
<1>5. ASSUME NEW t \in Tasks, Patch(t) PROVE TreeInv'
  <2>1. patched' /\ UNCHANGED <<row, disk, faults>> /\ task[t].pc = "patch"
    BY <1>5 DEF Patch
  <2>2. \A u \in Tasks \ {t} : task'[u] = task[u]
    BY <1>5, <1>r DEF Patch
  <2> QED BY <2>1, <2>2 DEF TreeInv
<1>6. ASSUME NEW t \in Tasks, MarkFails(t) \/ Cancel(t) \/ PatchFail(t) PROVE TreeInv'
  BY <1>6, <1>f DEF MarkFails, Cancel, PatchFail
<1>7. CASE Crash \/ Invalidate
  BY <1>7, <1>f DEF Crash, Invalidate
<1>8. CASE Release \/ Publish \/ Tick \/ UNCHANGED vars
  <2>1. UNCHANGED <<row, disk, patched, faults, task>>
    BY <1>8 DEF Release, Publish, Tick, vars, treeVars
  <2> QED BY <2>1, TreeIdle
<1> QED
  BY <1>1, <1>2, <1>3, <1>4, <1>5, <1>6, <1>7, <1>8 DEF Next, TaskStep

(***************************************************************************)
(* The resolve-time skip is safe while nothing fails: between the passes a *)
(* marker of the current manifest stands for a whole, patched tree,        *)
(* whatever plans, old and new, were carried out in whatever order.        *)
(***************************************************************************)
THEOREM TrustJustified ==
  ASSUME HoldsAreShort
  PROVE  Spec => []TrustedTreeIntact
<1>1. Init => TreeInv
  BY DEF Init, TreeInv
<1>2. TypeOK /\ TreeInv => TrustedTreeIntact
  <2> SUFFICES ASSUME TypeOK, TreeInv, faults = 0, row = steam,
                      \A t \in Tasks : task[t].pc \notin {"syncing", "synced", "patch"}
               PROVE  disk = row /\ patched
    BY DEF TrustedTreeIntact
  <2>1. row # None
    BY ManifestAssumption DEF TypeOK, Manifests, None
  <2>2. patched \in BOOLEAN
    BY DEF TypeOK
  <2> QED BY <2>1, <2>2 DEF TreeInv
<1> QED BY <1>1, <1>2, TreeStep, Inductive, PTL DEF Spec
=============================================================================
