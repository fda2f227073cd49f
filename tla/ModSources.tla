----------------------------- MODULE ModSources -----------------------------
(***************************************************************************)
(* One Steam-backed ModSource from registration to deletion.               *)
(*                                                                         *)
(* The registry creates and deletes the object, sync-daemon's reconciler   *)
(* (services/sync-daemon/src/reconcile.rs) resolves it through Steam into  *)
(* two tables of the sync state (crates/steam-sync/src/cache.rs), sync     *)
(* passes download what the tables list, and RefreshSource calls resolve   *)
(* it again beside the reconciler.                                         *)
(***************************************************************************)
EXTENDS FiniteSets, Naturals

CONSTANTS
  Mods,          \* workshop mods the source may resolve to
  Refreshers,    \* RefreshSource calls that may be in flight
  Passes,        \* sync_content passes that may be in flight
  MaxEdits,      \* bound: times the collection changes on Steam
  MaxFaults      \* bound: failed calls and crashes of sync-daemon

ASSUME ModsAssumption == Mods # {}
ASSUME BoundsAssumption == MaxEdits \in Nat /\ MaxFaults \in Nat

VARIABLES
  steam,         \* the members Steam answers for: private or removed ones are left out
  obj,           \* the ModSource object
  cache,         \* the reconciler's watch cache of it
  event,         \* the watch has an update of it to deliver
  rec,           \* the reconcile in progress: its step and its copy
  reg,           \* per registrar: the step of its register_source_impl
  known,         \* the sources table has the source
  rows,          \* its rows in source_mods
  tree,          \* mods whose download is complete (their synced row is there)
  pass,          \* per sync pass: its step and the mods it downloads
  edits, faults

vars == <<steam, obj, cache, event, rec, reg, known, rows, tree, pass, edits, faults>>
objects == <<obj, cache, event>>
tables == <<known, rows>>
content == <<tree, pass>>
bounds == <<edits, faults>>

-----------------------------------------------------------------------------
Reconciler == "reconciler"
Registrars == Refreshers \cup {Reconciler}

\* `size` stands for size_bytes: the resolved mods that are on disk.
Statuses == [phase : {"Pending", "Synced", "Failed"}, mods : SUBSET Mods, size : SUBSET Mods]
NoStatus == [phase |-> "Pending", mods |-> {}, size |-> {}]

\* A source's name is a fresh UUID: it is created once.
Objects == [live : {"none", "present", "deleting", "gone"}, fin : BOOLEAN, status : Statuses]
Unmade == [live |-> "none", fin |-> FALSE, status |-> NoStatus]

RecPcs == {"idle", "addFinalizer", "register", "setStatus", "deleteSource", "deleteRows",
           "removeFinalizer"}
RegPcs == {"idle", "resolve", "upsert", "setMods"}
PassPcs == {"idle", "spawned", "desired", "download"}

\* Types, and the reconcile waits in "register" exactly while its call runs.
TypeOK ==
  /\ steam \in SUBSET Mods
  /\ obj \in Objects /\ cache \in Objects
  /\ event \in BOOLEAN
  /\ rec \in [pc : RecPcs, was : Statuses, status : Statuses]
  /\ reg \in [Registrars -> [pc : RegPcs, got : SUBSET Mods]]
  /\ known \in BOOLEAN /\ rows \in SUBSET Mods
  /\ tree \in SUBSET Mods
  /\ pass \in [Passes -> [pc : PassPcs, want : SUBSET Mods]]
  /\ edits \in 0 .. MaxEdits /\ faults \in 0 .. MaxFaults
  /\ (rec.pc = "register") <=> (reg[Reconciler].pc # "idle")

IdleReg == [pc |-> "idle", got |-> {}]
IdlePass == [pc |-> "idle", want |-> {}]
IdleRec == [pc |-> "idle", was |-> NoStatus, status |-> NoStatus]

Init ==
  /\ steam \in SUBSET Mods
  /\ obj = Unmade /\ cache = Unmade
  /\ event = FALSE
  /\ rec = IdleRec
  /\ reg = [r \in Registrars |-> IdleReg]
  /\ known = FALSE /\ rows = {}
  /\ tree = {}
  /\ pass = [p \in Passes |-> IdlePass]
  /\ edits = 0 /\ faults = 0

Fault == faults < MaxFaults /\ faults' = faults + 1

-----------------------------------------------------------------------------
(***************************************************************************)
(* The object: registry RPCs, Steam, the watch.                            *)
(***************************************************************************)
\* The collection is edited, or a member becomes private or visible again.
Edit ==
  /\ edits < MaxEdits
  /\ \E s \in SUBSET Mods \ {steam} : steam' = s
  /\ edits' = edits + 1
  /\ UNCHANGED <<objects, rec, reg, tables, content, faults>>

AddModSource ==
  /\ obj.live = "none"
  /\ obj' = [obj EXCEPT !.live = "present"]
  /\ event' = TRUE
  /\ UNCHANGED <<steam, cache, rec, reg, tables, content, bounds>>

DeleteModSource ==
  /\ obj.live = "present"
  /\ obj' = [obj EXCEPT !.live = IF obj.fin THEN "deleting" ELSE "gone"]
  /\ event' = TRUE
  /\ UNCHANGED <<steam, cache, rec, reg, tables, content, bounds>>

\* Any write bumps the object's resourceVersion, an identical one too.
Watch ==
  /\ event
  /\ event' = FALSE
  /\ cache' = obj
  /\ UNCHANGED <<steam, obj, rec, reg, tables, content, bounds>>

-----------------------------------------------------------------------------
(***************************************************************************)
(* register_source_impl, run by the reconciler and by every RefreshSource: *)
(* the collection is resolved on Steam first, then the two tables are      *)
(* written one after the other.                                            *)
(***************************************************************************)
RegStep(r, from, to) == reg[r].pc = from /\ reg' = [reg EXCEPT ![r].pc = to]

Resolve(r) ==
  /\ reg[r].pc = "resolve"
  /\ reg' = [reg EXCEPT ![r] = [pc |-> "upsert", got |-> steam]]
  /\ UNCHANGED <<steam, objects, rec, tables, content, bounds>>

UpsertSource(r) ==
  /\ RegStep(r, "upsert", "setMods")
  /\ known' = TRUE
  /\ UNCHANGED <<steam, objects, rec, rows, content, bounds>>

\* Mutant of SetSourceMods: rows that left the collection stay.
SetSourceModsAdding(r) ==
  /\ reg[r].pc = "setMods"
  /\ reg' = [reg EXCEPT ![r] = IdleReg]
  /\ rows' = rows \cup reg[r].got
  /\ rec' = IF r = Reconciler
              THEN [rec EXCEPT !.pc = "setStatus",
                               !.status = [phase |-> "Synced", mods |-> reg[r].got,
                                           size |-> reg[r].got \cap tree]]
              ELSE rec
  /\ UNCHANGED <<steam, objects, known, content, bounds>>

\* One transaction replaces the membership.  The reconciler goes on with the
\* status it will report, the sizes read from the synced table.
SetSourceMods(r) ==
  /\ reg[r].pc = "setMods"
  /\ reg' = [reg EXCEPT ![r] = IdleReg]
  /\ rows' = reg[r].got
  /\ rec' = IF r = Reconciler
              THEN [rec EXCEPT !.pc = "setStatus",
                               !.status = [phase |-> "Synced", mods |-> reg[r].got,
                                           size |-> reg[r].got \cap tree]]
              ELSE rec
  /\ UNCHANGED <<steam, objects, known, content, bounds>>

\* Steam or the database refuses: an RPC fails, the reconciler reports Failed.
RegisterFails(r) ==
  /\ reg[r].pc # "idle"
  /\ Fault
  /\ reg' = [reg EXCEPT ![r] = IdleReg]
  /\ rec' = IF r = Reconciler
              THEN [rec EXCEPT !.pc = "setStatus", !.status = [NoStatus EXCEPT !.phase = "Failed"]]
              ELSE rec
  /\ UNCHANGED <<steam, objects, tables, content, edits>>

\* RefreshSource, from UpdateServer, StartServer or SyncModSource: the
\* candidate ids are read back from the sources table.
RefreshSource(r) ==
  /\ reg[r].pc = "idle"
  /\ known
  /\ reg' = [reg EXCEPT ![r].pc = "resolve"]
  /\ UNCHANGED <<steam, objects, rec, tables, content, bounds>>

-----------------------------------------------------------------------------
(***************************************************************************)
(* The reconciler.                                                         *)
(***************************************************************************)
FirstStep(o) ==
  CASE o.live = "deleting" /\ o.fin -> "deleteSource"
    [] o.live = "present" /\ ~ o.fin -> "addFinalizer"
    [] o.live = "present" /\ o.fin -> "register"
    [] OTHER -> "idle"

\* An update, the requeue after drift_requeue, FAST_REQUEUE or an error: while
\* the object exists a reconcile may start at any time.
ReconcileStart ==
  /\ rec.pc = "idle"
  /\ FirstStep(cache) # "idle"
  /\ rec' = [IdleRec EXCEPT !.pc = FirstStep(cache), !.was = cache.status]
  /\ reg' = IF FirstStep(cache) = "register"
              THEN [reg EXCEPT ![Reconciler].pc = "resolve"] ELSE reg
  /\ UNCHANGED <<steam, objects, tables, content, bounds>>

RecStep(from, to) == rec.pc = from /\ rec' = [rec EXCEPT !.pc = to]
RecEnd(from) == rec.pc = from /\ rec' = IdleRec

AddFinalizer ==
  /\ RecEnd("addFinalizer")
  /\ IF obj.live = "present" /\ ~ obj.fin
       THEN obj' = [obj EXCEPT !.fin = TRUE] /\ event' = TRUE
       ELSE UNCHANGED <<obj, event>>
  /\ UNCHANGED <<steam, cache, reg, tables, content, bounds>>

\* tokio::spawn(sync_content()): the pass is not counted until it runs.
Spawn(p) == pass[p].pc = "idle" /\ pass' = [pass EXCEPT ![p].pc = "spawned"]
AllBusy == \A p \in Passes : pass[p].pc # "idle"

\* Mutant of SetStatus: every recheck writes the status, changed or not.
SetStatusAlways ==
  /\ RecEnd("setStatus")
  /\ IF obj.live = "gone" THEN UNCHANGED <<obj, event>>
     ELSE obj' = [obj EXCEPT !.status = rec.status] /\ event' = TRUE
  /\ \/ rec.status.phase = "Synced" /\ rec.was.phase # "Synced" /\ \E p \in Passes : Spawn(p)
     \/ UNCHANGED pass
  /\ UNCHANGED <<steam, cache, reg, tables, tree, bounds>>

\* A status the reconcile's copy already has is not written again.  The first
\* time it is Synced a pass is spawned (when every pass slot of the model is
\* taken, the passes in flight stand for it).
SetStatus ==
  /\ RecEnd("setStatus")
  /\ IF rec.status = rec.was \/ obj.live = "gone" THEN UNCHANGED <<obj, event>>
     ELSE obj' = [obj EXCEPT !.status = rec.status] /\ event' = TRUE
  /\ IF /\ rec.status.phase = "Synced" /\ rec.was.phase # "Synced"
        /\ obj.live # "gone" /\ ~ AllBusy
       THEN \E p \in Passes : Spawn(p)
       ELSE UNCHANGED pass
  /\ UNCHANGED <<steam, cache, reg, tables, tree, bounds>>

\* cleanup: delete_source is two statements under one lock, no transaction.
DeleteSource ==
  /\ RecStep("deleteSource", "deleteRows")
  /\ known' = FALSE
  /\ UNCHANGED <<steam, objects, reg, rows, content, bounds>>

\* Mutant of DeleteRows: the membership rows are left for later.
DeleteRowsForgotten ==
  /\ RecStep("deleteRows", "removeFinalizer")
  /\ UNCHANGED <<steam, objects, reg, tables, content, bounds>>

DeleteRows ==
  /\ RecStep("deleteRows", "removeFinalizer")
  /\ rows' = {}
  /\ UNCHANGED <<steam, objects, reg, known, content, bounds>>

RemoveFinalizer ==
  /\ RecEnd("removeFinalizer")
  /\ IF obj.live = "deleting"
       THEN obj' = [obj EXCEPT !.live = "gone", !.fin = FALSE] /\ event' = TRUE
       ELSE UNCHANGED <<obj, event>>
  /\ UNCHANGED <<steam, cache, reg, tables, content, bounds>>

\* A call of the reconcile fails, or the URL or preset cannot be read before
\* anything is registered: error_policy leaves it to the requeue.
ReconcileError ==
  /\ rec.pc # "idle"
  /\ rec.pc = "register" => reg[Reconciler].pc = "resolve"
  /\ Fault
  /\ rec' = IdleRec
  /\ reg' = [reg EXCEPT ![Reconciler] = IdleReg]
  /\ UNCHANGED <<steam, objects, tables, content, edits>>

\* Everything in flight in sync-daemon is lost; it lists the objects afresh and
\* starts with a sync pass.
Restart ==
  /\ Fault
  /\ rec' = IdleRec
  /\ reg' = [r \in Registrars |-> IdleReg]
  /\ cache' = obj /\ event' = FALSE
  /\ \E p \in Passes : pass' = [q \in Passes |-> [IdlePass EXCEPT !.pc = IF q = p THEN "spawned" ELSE "idle"]]
  /\ UNCHANGED <<steam, obj, tables, tree, edits>>

-----------------------------------------------------------------------------
(***************************************************************************)
(* sync_content.                                                           *)
(***************************************************************************)
\* The timer, or the SyncContent RPC.
PassSpawn(p) ==
  /\ Spawn(p)
  /\ UNCHANGED <<steam, objects, rec, reg, tables, tree, bounds>>

PassStep(p, from, to) == pass[p].pc = from /\ pass' = [pass EXCEPT ![p].pc = to]

\* SyncingGuard::enter, then the server depots.
PassEnter(p) ==
  /\ PassStep(p, "spawned", "desired")
  /\ UNCHANGED <<steam, objects, rec, reg, tables, tree, bounds>>

\* desired_mod_ids.
PassDesired(p) ==
  /\ pass[p].pc = "desired"
  /\ pass' = [pass EXCEPT ![p] = [pc |-> "download", want |-> rows]]
  /\ UNCHANGED <<steam, objects, rec, reg, tables, tree, bounds>>

PassDownload(p, m) ==
  /\ pass[p].pc = "download"
  /\ m \in pass[p].want \ tree
  /\ tree' = tree \cup {m}
  /\ UNCHANGED <<steam, objects, rec, reg, tables, pass, bounds>>

PassEnd(p) ==
  /\ pass[p].pc = "download"
  /\ pass[p].want \subseteq tree
  /\ pass' = [pass EXCEPT ![p] = IdlePass]
  /\ UNCHANGED <<steam, objects, rec, reg, tables, tree, bounds>>

PassFails(p) ==
  /\ pass[p].pc \notin {"idle", "spawned"}
  /\ Fault
  /\ pass' = [pass EXCEPT ![p] = IdlePass]
  /\ UNCHANGED <<steam, objects, rec, reg, tables, tree, edits>>

syncing == \E p \in Passes : pass[p].pc \notin {"idle", "spawned"}

-----------------------------------------------------------------------------
Registration(r) == Resolve(r) \/ UpsertSource(r) \/ SetSourceMods(r)
Reconciling ==
  \/ ReconcileStart \/ AddFinalizer \/ SetStatus
  \/ DeleteSource \/ DeleteRows \/ RemoveFinalizer
Passing(p) ==
  \/ PassEnter(p) \/ PassDesired(p)
  \/ (\E m \in Mods : PassDownload(p, m)) \/ PassEnd(p)

Next ==
  \/ Edit \/ AddModSource \/ DeleteModSource \/ Watch
  \/ Reconciling \/ ReconcileError \/ Restart
  \/ \E r \in Registrars : Registration(r) \/ RegisterFails(r)
  \/ \E r \in Refreshers : RefreshSource(r)
  \/ \E p \in Passes : PassSpawn(p) \/ Passing(p) \/ PassFails(p)

Spec == Init /\ [][Next]_vars

\* The watch delivers, the reconciler and every call go on, the timer fires
\* (content_sync_interval_secs > 0) and a pass goes on.
Fairness ==
  /\ WF_vars(Watch)
  /\ WF_vars(Reconciling)
  /\ \A r \in Registrars : WF_vars(Registration(r))
  /\ \A p \in Passes : WF_vars(PassSpawn(p)) /\ WF_vars(Passing(p))

FairSpec == Spec /\ Fairness

-----------------------------------------------------------------------------
(***************************************************************************)
(* A source that is not deleted ends up as Steam has it: the tables list   *)
(* the collection's members, the status reports them as Synced with their  *)
(* size on disk, and the tree holds them - although refreshes with older   *)
(* answers, failures, restarts and edits came in between.                  *)
(***************************************************************************)
SourceConverges ==
  <>[](obj.live = "present") =>
    <>[](/\ rows = steam /\ steam \subseteq tree
         /\ obj.status = [phase |-> "Synced", mods |-> steam, size |-> steam])

(***************************************************************************)
(* set_status skips an unchanged status because a no-op write "creates a   *)
(* self-sustaining reconcile loop": the object's updates come to an end.   *)
(***************************************************************************)
StatusSettles == <>[](~ event)

(***************************************************************************)
(* cleanup runs behind the finalizer: provided no RefreshSource is in      *)
(* flight, a deleted source leaves neither its row nor its membership,     *)
(* wherever a failure or a restart interrupts the two DELETEs.  (With one  *)
(* in flight it does not hold: the refresh writes both rows back.)         *)
(***************************************************************************)
DeletedForgotten ==
  [](\A r \in Refreshers : reg[r].pc = "idle") =>
    [](obj.live = "gone" => ~ known /\ rows = {})
=============================================================================
