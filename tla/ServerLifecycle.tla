--------------------------- MODULE ServerLifecycle ---------------------------
(***************************************************************************)
(* One ArmaServer from creation to deletion: the gateway's RPCs write its  *)
(* spec and status (services/gateway/src/service.rs), the controller's     *)
(* reconciler turns them into a Deployment and headless clients            *)
(* (services/controller/src/reconcile.rs).                                 *)
(*                                                                         *)
(* Neither side reads the other's latest word.  A reconcile works on the   *)
(* copy of the object its watch cache held when it began, across many API  *)
(* calls; an RPC is several unconditional patches in a row; any of these   *)
(* calls may fail.                                                         *)
(***************************************************************************)
EXTENDS Naturals

CONSTANTS
  Calls,         \* StartServer / UpdateServer calls that may be in flight
  Recreates,     \* whether CreateServer is called for a server that exists
  MaxMods,       \* bound: mod source selections ever made
  MaxFaults      \* bound: failed API calls, failed refreshes, controller crashes

ASSUME RecreatesAssumption == Recreates \in BOOLEAN
ASSUME ModsAssumption == MaxMods \in Nat \ {0}
ASSUME FaultsAssumption == MaxFaults \in Nat

VARIABLES
  obj,           \* the ArmaServer object in the API server
  cache,         \* the reconciler's watch cache of it
  due,           \* a reconcile of the object is scheduled
  rec,           \* the reconcile in progress and the copy it works on
  deploy,        \* the launcher Deployment: "none", "down" (0 replicas) or "up"
  hcs,           \* the server's HeadlessClient objects: "none", "present", or
                 \* "deleting" when every one left has a deletionTimestamp
  call,          \* per call: its step
  made,          \* mod source selections made so far; each is fresh
  faults

vars == <<obj, cache, due, rec, deploy, hcs, call, made, faults>>
cluster == <<deploy, hcs>>

-----------------------------------------------------------------------------
Phases == {"Stopped", "Pending", "Running", "Failed"}
Selections == 0 .. MaxMods

\* `live`: "deleting" once it has a deletionTimestamp; `fin`: the reconciler's
\* finalizer is on it; `mods`: its mod_source_ids, named by their number.
Objects == [live : {"gone", "present", "deleting"}, fin : BOOLEAN,
            desired : {"Running", "Stopped"}, mods : Selections, phase : Phases]
Gone == [live |-> "gone", fin |-> FALSE, desired |-> "Stopped", mods |-> 0,
         phase |-> "Stopped"]

\* The next API call of the reconcile, in the order `apply` and `cleanup` make
\* them.
RecPcs == {"idle", "addFinalizer", "toPending",
           "scaleDown", "deleteHcs", "setStopped",
           "gate", "render", "ensureDeployment", "ensureHcs", "setRunning", "setFailed",
           "deleteDeployment", "cleanupHcs", "removeFinalizer"}

TypeOK ==
  /\ obj \in Objects
  /\ cache \in Objects
  /\ due \in BOOLEAN
  /\ rec \in [pc : RecPcs, obj : Objects]
  /\ deploy \in [state : {"none", "down", "up"}, mods : Selections]
  /\ hcs \in {"none", "present", "deleting"}
  /\ call \in [Calls -> {"idle", "resync"}]
  /\ made \in Selections
  /\ faults \in 0 .. MaxFaults

Init ==
  /\ obj = Gone
  /\ cache = Gone
  /\ due = FALSE
  /\ rec = [pc |-> "idle", obj |-> Gone]
  /\ deploy = [state |-> "none", mods |-> 0]
  /\ hcs = "none"
  /\ call = [c \in Calls |-> "idle"]
  /\ made = 0
  /\ faults = 0

Fault == faults < MaxFaults /\ faults' = faults + 1
Exists == obj.live # "gone"

-----------------------------------------------------------------------------
(***************************************************************************)
(* kube-runtime: the watch, and the controller's queue of one object.      *)
(***************************************************************************)
\* The watch delivers the object as it is by now; a relist delivers one again.
Watch ==
  /\ cache' = obj
  /\ due' = TRUE
  /\ UNCHANGED <<obj, rec, cluster, call, made, faults>>

\* What a reconcile of the cached object `o` does first: the finalizer
\* wrapper's choice, then apply's.  Running is left alone.
FirstStep(o) ==
  CASE o.live = "gone" -> "idle"
    [] o.live = "deleting" -> IF o.fin THEN "deleteDeployment" ELSE "idle"
    [] o.live = "present" /\ ~ o.fin -> "addFinalizer"
    [] OTHER ->
         IF o.phase = "Stopped" THEN IF o.desired = "Running" THEN "toPending" ELSE "idle"
         ELSE IF o.desired = "Stopped" THEN "scaleDown"
         ELSE CASE o.phase = "Pending" -> "gate"
                [] o.phase = "Running" -> "idle"
                [] o.phase = "Failed" -> "toPending"

\* `Action::await_change` leaves the object unscheduled.  Running's slow requeue
\* only repeats a reconcile that does nothing, so it is left out.
ReconcileStart ==
  /\ due
  /\ rec.pc = "idle"
  /\ rec' = [pc |-> FirstStep(cache), obj |-> cache]
  /\ due' = FALSE
  /\ UNCHANGED <<obj, cache, cluster, call, made, faults>>

Step(from, to) == rec.pc = from /\ rec' = [rec EXCEPT !.pc = to]
Requeue == due' = TRUE
AwaitChange == UNCHANGED due

\* An API call of the reconcile fails: error_policy requeues.
ReconcileError ==
  /\ rec.pc # "idle"
  /\ Fault
  /\ rec' = [rec EXCEPT !.pc = "idle"]
  /\ Requeue
  /\ UNCHANGED <<obj, cache, cluster, call, made>>

\* The controller restarts: it lists the objects afresh.
ControllerRestart ==
  /\ Fault
  /\ rec' = [rec EXCEPT !.pc = "idle"]
  /\ cache' = obj
  /\ Requeue
  /\ UNCHANGED <<obj, cluster, call, made>>

-----------------------------------------------------------------------------
(***************************************************************************)
(* apply, one action per API call.                                         *)
(***************************************************************************)
\* A conditional patch: it fails on an object that is gone or has it already.
AddFinalizer ==
  /\ Step("addFinalizer", "idle")
  /\ \/ /\ obj.live = "present" /\ ~ obj.fin
        /\ obj' = [obj EXCEPT !.fin = TRUE]
        /\ AwaitChange
     \/ /\ obj.live # "present" \/ obj.fin
        /\ UNCHANGED obj
        /\ Requeue
  /\ UNCHANGED <<cache, cluster, call, made, faults>>

\* set_status is an unconditional merge patch.
SetStatus(phase) == obj' = [obj EXCEPT !.phase = phase]

\* Stopped with desired Running (after a best-effort SyncContent), or Failed.
ToPending ==
  /\ Step("toPending", "idle")
  /\ SetStatus("Pending")
  /\ Requeue
  /\ UNCHANGED <<cache, cluster, call, made, faults>>

ScaleDown ==
  /\ Step("scaleDown", "deleteHcs")
  /\ deploy' = IF deploy.state = "up" THEN [deploy EXCEPT !.state = "down"] ELSE deploy
  /\ UNCHANGED <<obj, cache, due, hcs, call, made, faults>>

\* Mutant of DeleteHcs: the headless clients stay.
DeleteHcsForgotten ==
  /\ Step("deleteHcs", "setStopped")
  /\ UNCHANGED <<obj, cache, due, cluster, call, made, faults>>

\* delete_all_headless_clients only asks: an object with the finalizer of the
\* second controller stays, marked, until that controller lets it go.  (One that
\* never got the finalizer goes at once: HcsGone right after.)
MarkHcs == hcs' = IF hcs = "present" THEN "deleting" ELSE hcs

DeleteHcs ==
  /\ Step("deleteHcs", "setStopped")
  /\ MarkHcs
  /\ UNCHANGED <<obj, cache, due, deploy, call, made, faults>>

SetStopped ==
  /\ Step("setStopped", "idle")
  /\ SetStatus("Stopped")
  /\ AwaitChange
  /\ UNCHANGED <<cache, cluster, call, made, faults>>

\* Mutant of GateShut: nothing brings the reconcile back.
GateShutAwaiting ==
  /\ Step("gate", "idle")
  /\ AwaitChange
  /\ UNCHANGED <<obj, cache, cluster, call, made, faults>>

\* sync-daemon is syncing, has no game files, cannot be reached, or one of the
\* server's mod sources is not Synced: stay Pending and requeue.
GateShut ==
  /\ Step("gate", "idle")
  /\ Requeue
  /\ UNCHANGED <<obj, cache, cluster, call, made, faults>>

GateOpen ==
  /\ Step("gate", "render")
  /\ UNCHANGED <<obj, cache, due, cluster, call, made, faults>>

\* run_pending: resolve_mod_paths and the configuration, then the Deployment
\* with replicas 1, then the headless clients.
Render ==
  /\ Step("render", "ensureDeployment")
  /\ UNCHANGED <<obj, cache, due, cluster, call, made, faults>>

EnsureDeployment ==
  /\ Step("ensureDeployment", "ensureHcs")
  /\ deploy' = [state |-> "up", mods |-> rec.obj.mods]
  /\ UNCHANGED <<obj, cache, due, hcs, call, made, faults>>

\* spec.headless_clients may be 0, or other than at the last pass: excess clients
\* are marked, missing ones created.  A client under deletion is listed, so it
\* counts as there and is not created again.
EnsureHcs ==
  /\ Step("ensureHcs", "setRunning")
  /\ hcs' \in CASE hcs = "none" -> {"none", "present"}
               [] hcs = "present" -> {"present", "deleting"}
               [] hcs = "deleting" -> {"present", "deleting"}
  /\ UNCHANGED <<obj, cache, due, deploy, call, made, faults>>

\* Any failure inside run_pending is reported as Failed.
PendingFails ==
  /\ rec.pc \in {"render", "ensureDeployment", "ensureHcs"}
  /\ Fault
  /\ rec' = [rec EXCEPT !.pc = "setFailed"]
  /\ UNCHANGED <<obj, cache, due, cluster, call, made>>

\* Mutant of SetRunning: the copy the reconcile works on replaces the object.
SetRunningReplaced ==
  /\ Step("setRunning", "idle")
  /\ obj' = [rec.obj EXCEPT !.phase = "Running", !.live = obj.live]
  /\ Requeue
  /\ UNCHANGED <<cache, cluster, call, made, faults>>

SetRunning ==
  /\ Step("setRunning", "idle")
  /\ SetStatus("Running")
  /\ Requeue
  /\ UNCHANGED <<cache, cluster, call, made, faults>>

SetFailed ==
  /\ Step("setFailed", "idle")
  /\ SetStatus("Failed")
  /\ Requeue
  /\ UNCHANGED <<cache, cluster, call, made, faults>>

\* cleanup, then the wrapper takes the finalizer off and the object goes.
DeleteDeployment ==
  /\ Step("deleteDeployment", "cleanupHcs")
  /\ deploy' = [deploy EXCEPT !.state = "none"]
  /\ UNCHANGED <<obj, cache, due, hcs, call, made, faults>>

\* Nothing waits for the marked clients to go.
CleanupHcs ==
  /\ Step("cleanupHcs", "removeFinalizer")
  /\ MarkHcs
  /\ UNCHANGED <<obj, cache, due, deploy, call, made, faults>>

RemoveFinalizer ==
  /\ Step("removeFinalizer", "idle")
  /\ \/ /\ obj.live = "deleting" /\ obj.fin
        /\ obj' = Gone
        /\ AwaitChange
     \/ /\ obj.live # "deleting" \/ ~ obj.fin
        /\ UNCHANGED obj
        /\ Requeue
  /\ UNCHANGED <<cache, cluster, call, made, faults>>

\* The second controller has cleaned up after the last client under deletion
\* (HeadlessClients models how).
HcsGone ==
  /\ hcs = "deleting"
  /\ hcs' = "none"
  /\ UNCHANGED <<obj, cache, due, rec, deploy, call, made, faults>>

-----------------------------------------------------------------------------
(***************************************************************************)
(* The gateway's RPCs.                                                     *)
(***************************************************************************)
\* CreateServer applies the whole spec, with the latest selection or a new one,
\* over an existing object too; only a new one starts without a status (phase
\* Stopped).
CreateServer ==
  /\ Exists => Recreates
  /\ \E n \in {made, made + 1} \cap 1 .. MaxMods :
       /\ made' = n
       /\ obj' = IF Exists
                THEN [obj EXCEPT !.desired = "Running", !.mods = n]
                ELSE [live |-> "present", fin |-> FALSE, desired |-> "Running",
                      mods |-> n, phase |-> "Stopped"]
  /\ UNCHANGED <<cache, due, rec, cluster, call, faults>>

\* Mutant of DeleteServer: the object goes at once, finalizer or not.
DeleteServerForced ==
  /\ obj.live = "present"
  /\ obj' = Gone
  /\ UNCHANGED <<cache, due, rec, cluster, call, made, faults>>

DeleteServer ==
  /\ obj.live = "present"
  /\ obj' = IF obj.fin THEN [obj EXCEPT !.live = "deleting"] ELSE Gone
  /\ UNCHANGED <<cache, due, rec, cluster, call, made, faults>>

StopServer ==
  /\ Exists
  /\ obj' = [obj EXCEPT !.desired = "Stopped"]
  /\ UNCHANGED <<cache, due, rec, cluster, call, made, faults>>

\* The first patch of a StartServer; the port check is before it.
StartServer(c) ==
  /\ call[c] = "idle"
  /\ Exists
  /\ obj' = [obj EXCEPT !.desired = "Running"]
  /\ call' = [call EXCEPT ![c] = "resync"]
  /\ UNCHANGED <<cache, due, rec, cluster, made, faults>>

\* UpdateServer with a selection of mod sources patches it in first; without
\* one it only resyncs.
UpdateServer(c) ==
  /\ call[c] = "idle"
  /\ Exists
  /\ \/ /\ made < MaxMods
        /\ made' = made + 1
        /\ obj' = [obj EXCEPT !.mods = made + 1]
     \/ UNCHANGED <<made, obj>>
  /\ call' = [call EXCEPT ![c] = "resync"]
  /\ UNCHANGED <<cache, due, rec, cluster, faults>>

\* resync_and_repending refreshes every Steam-backed source: one that fails ends
\* the RPC with what it has already patched ...
CallFails(c) ==
  /\ call[c] = "resync"
  /\ Exists => Fault
  /\ ~ Exists => UNCHANGED faults
  /\ call' = [call EXCEPT ![c] = "idle"]
  /\ UNCHANGED <<obj, cache, due, rec, cluster, made>>

\* ... and after the last the phase is set back to Pending, whatever it is by then.
Repend(c) ==
  /\ call[c] = "resync"
  /\ Exists
  /\ SetStatus("Pending")
  /\ call' = [call EXCEPT ![c] = "idle"]
  /\ UNCHANGED <<cache, due, rec, cluster, made, faults>>

Reconciler ==
  \/ ReconcileStart \/ AddFinalizer \/ ToPending
  \/ ScaleDown \/ DeleteHcs \/ SetStopped
  \/ GateShut \/ GateOpen \/ Render \/ EnsureDeployment \/ EnsureHcs
  \/ SetRunning \/ SetFailed
  \/ DeleteDeployment \/ CleanupHcs \/ RemoveFinalizer

CallStep(c) == Repend(c) \/ CallFails(c)

Next ==
  \/ Watch \/ Reconciler \/ HcsGone
  \/ ReconcileError \/ ControllerRestart \/ PendingFails
  \/ CreateServer \/ DeleteServer \/ StopServer
  \/ \E c \in Calls : StartServer(c) \/ UpdateServer(c) \/ CallStep(c)

Spec == Init /\ [][Next]_vars

\* The watch delivers, both controllers' loops run, an RPC goes on.  That a gate
\* tried again and again opens is what sync-daemon is trusted with.
Fairness ==
  /\ WF_vars(cache # obj /\ Watch)
  /\ WF_vars(Reconciler)
  /\ WF_vars(HcsGone)
  /\ SF_vars(GateOpen)
  /\ \A c \in Calls : WF_vars(CallStep(c))

FairSpec == Spec /\ Fairness

-----------------------------------------------------------------------------
Up == deploy.state = "up"
Wanted == obj.live = "present" /\ obj.desired = "Running"

(***************************************************************************)
(* The finalizer is there "so the Deployment is cleaned up before an       *)
(* ArmaServer is actually deleted": however deletion, creation under the   *)
(* same name, reconciles on stale copies and failures interleave, a server *)
(* that is gone leaves no Deployment behind, and no headless client that   *)
(* is not itself under deletion (hc_apply: "by the time this object's      *)
(* owner is truly gone, this object itself should already have its own     *)
(* deletionTimestamp set").  Clients under deletion may outlive the server.*)
(***************************************************************************)
GoneLeavesNothing == obj.live = "gone" => deploy.state = "none" /\ hcs # "present"

(***************************************************************************)
(* Through the finalizer the server implements the abstract Finalizer: the *)
(* Deployment and the headless clients are applied only under it, the last *)
(* of them is deleted only while this very object is being deleted, never  *)
(* by a cleanup that began on a copy of an earlier server of the name, and *)
(* the object goes only when the Deployment is gone and every client is    *)
(* gone or marked.  What a marked client still has is no longer the        *)
(* server's but the client's own finalizer's (HeadlessClients).            *)
(***************************************************************************)
Finalizer == INSTANCE Finalizer
  WITH object <- IF obj.live = "gone" THEN "none" ELSE obj.live,
       guarded <- obj.fin,
       owns <- deploy.state # "none" \/ hcs = "present"

FinalizerKept == Finalizer!Spec

(***************************************************************************)
(* A reconcile that works on a stale copy never takes the running server   *)
(* back to mod sources older than the ones it was last rolled onto.        *)
(***************************************************************************)
NoRollback == [][deploy'.mods >= deploy.mods]_vars

(***************************************************************************)
(* A server that is to be stopped, and is not started again, ends up with  *)
(* no replica and no headless client, whatever the reconciler was in the   *)
(* middle of when StopServer came.  Where nothing failed on the way: a     *)
(* controller that restarts between the Deployment and the status leaves   *)
(* the phase Stopped over a replica, which no reconcile looks at again.    *)
(***************************************************************************)
StopTakesEffect ==
  <>[](Exists /\ obj.desired = "Stopped" /\ faults = 0) => <>[](~ Up /\ hcs = "none")

(***************************************************************************)
(* desired_state is the "should it be up" knob: a server that is to run,   *)
(* and is not stopped or deleted again, ends up with its replica, where    *)
(* nothing failed on the way.                                              *)
(***************************************************************************)
StartTakesEffect == <>[](Wanted /\ faults = 0) => <>[]Up

(***************************************************************************)
(* resync_and_repending "kicks the object back to Pending so the           *)
(* reconciler re-claims and rolls onto the result": a server that is to    *)
(* run ends up on its latest selection of mod sources.                     *)
(***************************************************************************)
UpdateTakesEffect == <>[]Wanted => <>[](deploy.mods = obj.mods)
=============================================================================
