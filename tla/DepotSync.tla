------------------------------ MODULE DepotSync ------------------------------
(***************************************************************************)
(* How one depot or workshop mod (one sync_key) is brought up to date by   *)
(* overlapping sync passes: the resolve-time skip, the cross-process lock  *)
(* row, the re-check under the lock, the download, the "synced" marker and *)
(* the metadata patch that follows (crates/steam-sync: cache.rs, steam.rs, *)
(* workshop.rs).  Keys are independent rows, so one key is modelled.       *)
(*                                                                         *)
(* A task is one pass's work on the key.  Passes overlap: startup, timer,  *)
(* SyncContent RPC and a source's first resolve each start one.            *)
(***************************************************************************)
EXTENDS Naturals

CONSTANTS
  Tasks,             \* passes that may work on the key at the same time
  STALE_LOCK_SECS,   \* age above which a lock row may be stolen, in ticks
  MaxHold,           \* bound: ticks from acquiring the lock to its release
  MaxManifest,       \* bound: manifests Steam publishes
  MaxFaults          \* bound: crashes, cancelled tasks, failures, invalidations

ASSUME StaleAssumption == STALE_LOCK_SECS \in Nat
ASSUME HoldAssumption == MaxHold \in Nat
ASSUME ManifestAssumption == MaxManifest \in Nat \ {0}
ASSUME FaultsAssumption == MaxFaults \in Nat

Manifests == 1 .. MaxManifest
None == 0                       \* no row, no plan, no directory
Torn == MaxManifest + 1         \* a tree that matches no manifest

VARIABLES
  steam,       \* manifest_id Steam currently serves for the item
  row,         \* `synced` table: manifest_id of the key's marker, or None
  disk,        \* what the directory holds: None, a whole manifest, or Torn
  patched,     \* meta.cpp / mod.cpp on disk carry the patch
  locked,      \* the key's row exists in the `locks` table
  age,         \* seconds since its acquired_at, counted up to STALE + 1
  releases,    \* detached release tasks of dropped guards, still to run
  faults,      \* faults so far
  task         \* per task: its step, the manifest it plans and its snapshot

vars == <<steam, row, disk, patched, locked, age, releases, faults, task>>
lockVars == <<locked, age, releases>>
treeVars == <<row, disk, patched>>

-----------------------------------------------------------------------------
\* "idle"; "details": knows Steam's manifest; "snapped": has the snapshot of
\* the synced table; "queued": dispatched, polling for the lock; "held": has
\* the lock; "syncing": inside sync_depot; "synced": sync_depot succeeded;
\* "patch": guard dropped, patch_mod_metadata still to run.
Pcs == {"idle", "details", "snapped", "queued", "held", "syncing", "synced", "patch"}
TaskRecords == [pc : Pcs, plan : Manifests \cup {None}, snap : Manifests \cup {None}]
IdleTask == [pc |-> "idle", plan |-> None, snap |-> None]

Holds(t) == task[t].pc \in {"held", "syncing", "synced"}
Writing(t) == task[t].pc = "syncing"

TypeOK ==
  /\ steam \in Manifests
  /\ row \in Manifests \cup {None}
  /\ disk \in Manifests \cup {None, Torn}
  /\ patched \in BOOLEAN
  /\ locked \in BOOLEAN
  /\ age \in 0 .. STALE_LOCK_SECS + 1
  /\ releases \in Nat
  /\ faults \in 0 .. MaxFaults
  /\ task \in [Tasks -> TaskRecords]

Init ==
  /\ steam = 1
  /\ row = None
  /\ disk = None
  /\ patched = FALSE
  /\ locked = FALSE
  /\ age = 0
  /\ releases = 0
  /\ faults = 0
  /\ task = [t \in Tasks |-> IdleTask]

Goto(t, pc) == task' = [task EXCEPT ![t].pc = pc]

\* Dropping a LockGuard only spawns the DELETE; it runs on its own later.
DropGuard == releases' = releases + 1 /\ UNCHANGED <<locked, age>>

Fault == faults < MaxFaults /\ faults' = faults + 1

-----------------------------------------------------------------------------
(***************************************************************************)
(* resolve_workshop_items: fetch details, take one snapshot of the synced  *)
(* table, then decide item by item (with CM calls in between).             *)
(***************************************************************************)
GetDetails(t) ==
  /\ task[t].pc = "idle"
  /\ task' = [task EXCEPT ![t] = [pc |-> "details", plan |-> steam, snap |-> None]]
  /\ UNCHANGED <<steam, faults, lockVars, treeVars>>

Snapshot(t) ==
  /\ task[t].pc = "details"
  /\ task' = [task EXCEPT ![t].pc = "snapped", ![t].snap = row]
  /\ UNCHANGED <<steam, faults, lockVars, treeVars>>

Trusts(t) == disk # None /\ task[t].snap = task[t].plan

Skip(t) ==
  /\ task[t].pc = "snapped"
  /\ Trusts(t)
  /\ task' = [task EXCEPT ![t] = IdleTask]
  /\ UNCHANGED <<steam, faults, lockVars, treeVars>>

Dispatch(t) ==
  /\ task[t].pc = "snapped"
  /\ ~ Trusts(t)
  /\ Goto(t, "queued")
  /\ UNCHANGED <<steam, faults, lockVars, treeVars>>

(***************************************************************************)
(* download_one_depot, the lock and the marker.                            *)
(***************************************************************************)
\* Mutant of TryAcquire: a row that is exactly STALE_LOCK_SECS old is stolen.
TryAcquireEarly(t) ==
  /\ task[t].pc = "queued"
  /\ ~ locked \/ age >= STALE_LOCK_SECS
  /\ locked' = TRUE
  /\ age' = 0
  /\ Goto(t, "held")
  /\ UNCHANGED <<steam, releases, faults, treeVars>>

\* Mutant of TryAcquire: only the INSERT, stale rows are never stolen.
TryAcquireNoSteal(t) ==
  /\ task[t].pc = "queued"
  /\ ~ locked
  /\ locked' = TRUE
  /\ age' = 0
  /\ Goto(t, "held")
  /\ UNCHANGED <<steam, releases, faults, treeVars>>

\* try_acquire: the INSERT, or the stale check and steal in one transaction.
\* A poll that gets neither sleeps and tries again.
TryAcquire(t) ==
  /\ task[t].pc = "queued"
  /\ ~ locked \/ age > STALE_LOCK_SECS
  /\ locked' = TRUE
  /\ age' = 0
  /\ Goto(t, "held")
  /\ UNCHANGED <<steam, releases, faults, treeVars>>

\* is_synced under the lock: somebody finished this very manifest meanwhile.
TrustOther(t) ==
  /\ task[t].pc = "held"
  /\ disk # None /\ row = task[t].plan
  /\ DropGuard
  /\ Goto(t, "patch")
  /\ UNCHANGED <<steam, faults, treeVars>>

\* sync_depot verifies what is there and rewrites what differs from the plan,
\* the patched metadata files included.
SyncStart(t) ==
  /\ task[t].pc = "held"
  /\ ~ (disk # None /\ row = task[t].plan)
  /\ disk' = IF disk = task[t].plan THEN disk ELSE Torn
  /\ patched' = FALSE
  /\ Goto(t, "syncing")
  /\ UNCHANGED <<steam, row, faults, lockVars>>

\* Success: every chunk of the plan is in place, unless another task was
\* writing the same files at the same time.
SyncDone(t) ==
  /\ task[t].pc = "syncing"
  /\ disk' \in {task[t].plan} \cup
                (IF \E u \in Tasks \ {t} : Writing(u) THEN {Torn} ELSE {})
  /\ Goto(t, "synced")
  /\ UNCHANGED <<steam, row, patched, faults, lockVars>>

\* Mutant of MarkSynced: the marker names what Steam serves by now.
MarkSyncedLatest(t) ==
  /\ task[t].pc = "synced"
  /\ row' = steam
  /\ DropGuard
  /\ Goto(t, "patch")
  /\ UNCHANGED <<steam, disk, patched, faults>>

\* finalize_synced_tree, mark_synced, and the guard goes out of scope.
MarkSynced(t) ==
  /\ task[t].pc = "synced"
  /\ row' = task[t].plan
  /\ DropGuard
  /\ Goto(t, "patch")
  /\ UNCHANGED <<steam, disk, patched, faults>>

\* mark_synced only logs a write that failed; the item counts as done.
MarkFails(t) ==
  /\ task[t].pc = "synced"
  /\ Fault
  /\ DropGuard
  /\ Goto(t, "patch")
  /\ UNCHANGED <<steam, treeVars>>

\* Mutant of Patch: a mod that is already on disk is taken as patched.
PatchSkipped(t) ==
  /\ task[t].pc = "patch"
  /\ patched' = patched
  /\ task' = [task EXCEPT ![t] = IdleTask]
  /\ UNCHANGED <<steam, row, disk, faults, lockVars>>

\* patch_mod_metadata runs after download_one_depot returned, without the lock.
Patch(t) ==
  /\ task[t].pc = "patch"
  /\ patched' = TRUE
  /\ task' = [task EXCEPT ![t] = IdleTask]
  /\ UNCHANGED <<steam, row, disk, faults, lockVars>>

\* LockGuard's detached release: DELETE by key, whoever holds the row by now.
Release ==
  /\ releases > 0
  /\ releases' = releases - 1
  /\ locked' = FALSE
  /\ age' = 0
  /\ UNCHANGED <<steam, faults, task, treeVars>>

-----------------------------------------------------------------------------
(***************************************************************************)
(* The environment and the faults.                                         *)
(***************************************************************************)
\* Steam publishes an update of the item.
Publish ==
  /\ steam < MaxManifest
  /\ steam' = steam + 1
  /\ UNCHANGED <<faults, task, lockVars, treeVars>>

\* Time passes for the lock row.  MaxHold is how long the holder of a row, and
\* the detached release after it, may take; a row nobody serves only ages.
Serving == (\E t \in Tasks : Holds(t)) \/ releases > 0

Tick ==
  /\ locked
  /\ age <= STALE_LOCK_SECS
  /\ Serving => age < MaxHold
  /\ age' = age + 1
  /\ UNCHANGED <<steam, locked, releases, faults, task, treeVars>>

\* A step failed, or sync_content returned early and dropped the JoinSet,
\* which cancels every other download of the pass.
Cancel(t) ==
  /\ task[t].pc \in {"details", "snapped", "queued", "held", "syncing", "synced"}
  /\ Fault
  /\ IF Holds(t) THEN DropGuard ELSE UNCHANGED lockVars
  /\ task' = [task EXCEPT ![t] = IdleTask]
  /\ UNCHANGED <<steam, treeVars>>

\* patch_mod_metadata fails (a file it cannot read or write).
PatchFail(t) ==
  /\ task[t].pc = "patch"
  /\ Fault
  /\ task' = [task EXCEPT ![t] = IdleTask]
  /\ UNCHANGED <<steam, lockVars, treeVars>>

\* The process dies or exits (a confirmed Steam login exits it on purpose).
\* Tables and files survive; tasks, guards and pending releases do not.
Crash ==
  /\ Fault
  /\ task' = [t \in Tasks |-> IdleTask]
  /\ releases' = 0
  /\ UNCHANGED <<steam, locked, age, treeVars>>

\* InvalidateMod: delete the marker, without taking the lock.
Invalidate ==
  /\ Fault
  /\ row' = None
  /\ UNCHANGED <<steam, disk, patched, task, lockVars>>

TaskStep(t) ==
  \/ GetDetails(t) \/ Snapshot(t) \/ Skip(t) \/ Dispatch(t) \/ TryAcquire(t)
  \/ TrustOther(t) \/ SyncStart(t) \/ SyncDone(t) \/ MarkSynced(t) \/ Patch(t)

Next ==
  \/ \E t \in Tasks : TaskStep(t) \/ MarkFails(t) \/ Cancel(t) \/ PatchFail(t)
  \/ Release \/ Publish \/ Tick \/ Crash \/ Invalidate

Spec == Init /\ [][Next]_vars

\* The timer keeps starting passes and every task keeps running; acquire_lock
\* polls, so a task that could take the lock again and again gets it once.
Fairness ==
  /\ \A t \in Tasks :
       /\ WF_vars(TaskStep(t))
       /\ SF_vars(TryAcquire(t))
  /\ WF_vars(Release)
  /\ WF_vars(Tick)

FairSpec == Spec /\ Fairness

-----------------------------------------------------------------------------
(***************************************************************************)
(* download_one_depot: "Hold the cross-process lock for the rest of this   *)
(* function so only one instance ever verifies/downloads a given           *)
(* depot/mod's files at a time."                                           *)
(***************************************************************************)
OneWriter == \A t, u \in Tasks : Holds(t) /\ Holds(u) => t = u

(***************************************************************************)
(* mark_synced is never speculative: whenever a marker is written, the     *)
(* tree on disk is, at that moment, exactly the manifest it names.         *)
(***************************************************************************)
MarkerTruthfulWhenWritten ==
  [][row' # row /\ row' # None => disk = row']_vars

(***************************************************************************)
(* Passes that overlap, steal stale locks, are cancelled or crash          *)
(* implement the abstract SerialSync: what they do to the tree and the     *)
(* marker is what passes that take turns would do, each only for the       *)
(* manifest it planned before it had the lock.                             *)
(***************************************************************************)
SerialSync == INSTANCE SerialSync
  WITH turn <- {<<t, task[t].plan>> : t \in {u \in Tasks : Holds(u)}},
       tree <- disk,
       marker <- row

PassesTakeTurns == SerialSync!Spec

(***************************************************************************)
(* What the resolve-time skip relies on (is_synced's comment: "nothing     *)
(* changed since the last verified sync"; sync_mods': each download        *)
(* "handles its own post-processing"): while no pass works on the item, a  *)
(* marker that equals Steam's current manifest vouches for the whole tree, *)
(* patched metadata included, whatever older plans passed over it.  Where  *)
(* nothing failed: a pass that is cancelled over a newer marker leaves a   *)
(* trusted tree that is half its own, and one that ends between marker and *)
(* patch leaves a trusted mod that is never patched.                       *)
(***************************************************************************)
TrustedTreeIntact ==
  /\ faults = 0 /\ row = steam
  /\ \A t \in Tasks : ~ Holds(t) /\ task[t].pc \notin {"syncing", "synced", "patch"}
  => disk = row /\ patched

(***************************************************************************)
(* Once Steam stops publishing and the faults are over, the passes bring   *)
(* the marker to the latest manifest and keep it there, although a crashed *)
(* holder's lock row has to go stale first and a pass with an older plan   *)
(* may overwrite a newer one's work on the way.                            *)
(***************************************************************************)
Converges == <>[](row = steam)
=============================================================================
