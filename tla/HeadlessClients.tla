--------------------------- MODULE HeadlessClients ---------------------------
(***************************************************************************)
(* The HeadlessClient objects of one ArmaServer.  The server's reconciler  *)
(* creates and deletes them (ensure_headless_clients and                   *)
(* delete_all_headless_clients in services/controller/src/reconcile.rs); a *)
(* second controller, reconcile_hc, gives every object that exists a       *)
(* Deployment and takes it away behind a finalizer.                        *)
(*                                                                         *)
(* The server's own reconcile is abstracted to what it does to these       *)
(* objects: RPCs take effect between its passes (ServerLifecycle has the   *)
(* passes' interleaving with the RPCs).                                    *)
(***************************************************************************)
EXTENDS Naturals

CONSTANTS
  MaxClients,    \* bound: spec.headless_clients
  MaxMods,       \* bound: mod selections of the server, named by their number
  MaxFaults      \* bound: failed API calls and controller crashes

ASSUME ClientsAssumption == MaxClients \in Nat \ {0}
ASSUME BoundsAssumption == MaxMods \in Nat /\ MaxFaults \in Nat

VARIABLES
  srv,           \* the server: its step, its spec and what its pass has to do
  hc,            \* per index: the HeadlessClient object <server>-hc-<index>
  phase,         \* per index: whether its status.phase is Running; no reconcile
                 \* reads it, and under deletion it is not kept track of
  cache,         \* the controller's watch cache of them
  rec,           \* per index: the reconcile in progress
  deploy,        \* per index: the mods of the client's Deployment, or None
  faults

vars == <<srv, hc, phase, cache, rec, deploy, faults>>

-----------------------------------------------------------------------------
Indices == 0 .. MaxClients - 1
Selections == 0 .. MaxMods
None == MaxMods + 1

Objects == [live : {"none", "present", "deleting"}, fin : BOOLEAN]
NoObject == [live |-> "none", fin |-> FALSE]
Phases == {"Running", "other"}     \* other: Pending, Failed or no status

\* "list" and "apply" are a pass on its way to `goal`.
Settled == {"stopped", "running", "gone"}
SrvPcs == Settled \cup {"list", "apply"}
RecPcs == {"idle", "addFinalizer", "getServer", "deploy", "setRunning", "setFailed",
           "deleteDeployment", "removeFinalizer"}

\* `want` is spec.headless_clients; `count` is how many clients the last pass was
\* to leave, from the number it read there.
Servers == [pc : SrvPcs, goal : Settled, want : 0 .. MaxClients, count : 0 .. MaxClients,
            mods : Selections, del : SUBSET Indices, add : SUBSET Indices]

\* Types, and only a pass under way has a plan.
TypeOK ==
  /\ srv \in Servers
  /\ hc \in [Indices -> Objects] /\ cache \in [Indices -> Objects]
  /\ phase \in [Indices -> Phases]
  /\ rec \in [Indices -> [pc : RecPcs, mods : Selections]]
  /\ deploy \in [Indices -> Selections \cup {None}]
  /\ srv.pc # "apply" => srv.del = {} /\ srv.add = {}
  /\ faults \in 0 .. MaxFaults

IdleRec == [pc |-> "idle", mods |-> 0]

Init ==
  /\ srv = [pc |-> "gone", goal |-> "gone", want |-> 0, count |-> 0, mods |-> 0,
            del |-> {}, add |-> {}]
  /\ hc = [i \in Indices |-> NoObject] /\ cache = hc
  /\ phase = [i \in Indices |-> "other"]
  /\ rec = [i \in Indices |-> IdleRec]
  /\ deploy = [i \in Indices |-> None]
  /\ faults = 0

Fault == faults < MaxFaults /\ faults' = faults + 1

-----------------------------------------------------------------------------
(***************************************************************************)
(* The server's side.                                                      *)
(***************************************************************************)
Pass(goal) == srv' = [srv EXCEPT !.pc = "list", !.goal = goal]

StartServer ==
  /\ srv.pc = "stopped"
  /\ Pass("running")
  /\ UNCHANGED <<hc, phase, cache, rec, deploy, faults>>

StopServer ==
  /\ srv.pc = "running"
  /\ Pass("stopped")
  /\ UNCHANGED <<hc, phase, cache, rec, deploy, faults>>

\* The selection it has, or the next one.
ModsChoice == {srv.mods, srv.mods + 1} \cap Selections

\* UpdateServer selects mod sources, or only resyncs; then the phase is Pending
\* and the next pass makes it what desired_state says.
UpdateServer ==
  /\ srv.pc \in {"running", "stopped"}
  /\ \E m \in ModsChoice :
       srv' = [srv EXCEPT !.pc = "list", !.goal = srv.pc, !.mods = m]
  /\ UNCHANGED <<hc, phase, cache, rec, deploy, faults>>

\* No RPC sets the number of clients: an operator edits the object.  The phase
\* stays what it is, so a Running server takes no notice until its next pass.
\* (Only a pass reads the number: an edit at any other moment is one just before
\* the next pass.)
EditClients ==
  /\ srv.pc \in {"list", "running"}
  /\ \E w \in 0 .. MaxClients : srv' = [srv EXCEPT !.want = w]
  /\ UNCHANGED <<hc, phase, cache, rec, deploy, faults>>

DeleteServer ==
  /\ srv.pc \in {"running", "stopped"}
  /\ Pass("gone")
  /\ UNCHANGED <<hc, phase, cache, rec, deploy, faults>>

\* A server of the same name, over one that is there too.  The whole spec is
\* applied, with no headless clients; the phase is left alone, so that nothing
\* follows where it is Running.
CreateServer ==
  /\ srv.pc \in Settled
  /\ \E m \in ModsChoice :
       srv' = [srv EXCEPT !.pc = IF srv.pc = "running" THEN "running" ELSE "list",
                          !.goal = "running", !.want = 0, !.mods = m]
  /\ UNCHANGED <<hc, phase, cache, rec, deploy, faults>>

\* ensure_headless_clients' target; delete_all_headless_clients deletes what
\* an ensure of none would.
Target == IF srv.goal = "running" THEN srv.want ELSE 0
Desired == {i \in Indices : i < Target}

\* list_headless_clients: an object that is being deleted is still listed.
List ==
  /\ srv.pc = "list"
  /\ LET existing == {i \in Indices : hc[i].live # "none"}
     IN  srv' = [srv EXCEPT !.pc = "apply", !.count = Target,
                            !.del = existing \ Desired, !.add = Desired \ existing]
  /\ UNCHANGED <<hc, phase, cache, rec, deploy, faults>>

\* With the finalizer on it the object stays, marked; a 404 is fine.
DeleteClient(i) ==
  /\ srv.pc = "apply" /\ i \in srv.del
  /\ srv' = [srv EXCEPT !.del = @ \ {i}]
  /\ hc' = [hc EXCEPT ![i] = IF hc[i].fin THEN [hc[i] EXCEPT !.live = "deleting"] ELSE NoObject]
  /\ phase' = [phase EXCEPT ![i] = "other"]
  /\ UNCHANGED <<cache, rec, deploy, faults>>

\* The missing ones are created after the excess ones are deleted.
CreateClient(i) ==
  /\ srv.pc = "apply" /\ srv.del = {} /\ i \in srv.add
  /\ srv' = [srv EXCEPT !.add = @ \ {i}]
  /\ hc' = [hc EXCEPT ![i].live = "present"]
  /\ UNCHANGED <<phase, cache, rec, deploy, faults>>

\* The status of the pass is set: Running, Stopped, or the finalizer removed.
PassDone ==
  /\ srv.pc = "apply" /\ srv.del = {} /\ srv.add = {}
  /\ srv' = [srv EXCEPT !.pc = srv.goal, !.want = IF srv.goal = "gone" THEN 0 ELSE srv.want]
  /\ UNCHANGED <<hc, phase, cache, rec, deploy, faults>>

\* A call fails: Failed and Pending again, or error_policy's requeue.
PassFails ==
  /\ srv.pc \in {"list", "apply"}
  /\ Fault
  /\ srv' = [srv EXCEPT !.pc = "list", !.del = {}, !.add = {}]
  /\ UNCHANGED <<hc, phase, cache, rec, deploy>>

-----------------------------------------------------------------------------
(***************************************************************************)
(* reconcile_hc.                                                           *)
(***************************************************************************)
Watch(i) ==
  /\ cache[i] # hc[i]
  /\ cache' = [cache EXCEPT ![i] = hc[i]]
  /\ UNCHANGED <<srv, hc, phase, rec, deploy, faults>>

\* Mutant of FirstStep: the finalizer is not waited for.
FirstStepUnguarded(o) ==
  CASE o.live = "deleting" -> "deleteDeployment"
    [] o.live = "present" -> "getServer"
    [] OTHER -> "idle"

FirstStep(o) ==
  CASE o.live = "deleting" /\ o.fin -> "deleteDeployment"
    [] o.live = "present" /\ ~ o.fin -> "addFinalizer"
    [] o.live = "present" /\ o.fin -> "getServer"
    [] OTHER -> "idle"

Step(i, from, to) == rec[i].pc = from /\ rec' = [rec EXCEPT ![i].pc = to]
End(i, from) == rec[i].pc = from /\ rec' = [rec EXCEPT ![i] = IdleRec]

\* An update, SLOW_REQUEUE or ERROR_REQUEUE: at any time while it exists.
ReconcileHc(i) ==
  /\ FirstStep(cache[i]) # "idle"
  /\ Step(i, "idle", FirstStep(cache[i]))
  /\ UNCHANGED <<srv, hc, phase, cache, deploy, faults>>

AddFinalizer(i) ==
  /\ End(i, "addFinalizer")
  /\ hc' = IF hc[i].live = "present" THEN [hc EXCEPT ![i].fin = TRUE] ELSE hc
  /\ UNCHANGED <<srv, phase, cache, deploy, faults>>

\* Mutant of GetServer: the mods of the Deployment that is there are kept.
GetServerOnce(i) ==
  /\ rec[i].pc = "getServer"
  /\ rec' = [rec EXCEPT ![i] =
       IF srv.pc = "gone" THEN IdleRec
       ELSE [pc |-> "deploy", mods |-> IF deploy[i] = None THEN srv.mods ELSE deploy[i]]]
  /\ UNCHANGED <<srv, hc, phase, cache, deploy, faults>>

\* hc_apply reads the server as it is now, not as its reconciler last saw it;
\* without one it fails.
GetServer(i) ==
  /\ rec[i].pc = "getServer"
  /\ rec' = [rec EXCEPT ![i] =
       IF srv.pc = "gone" THEN IdleRec ELSE [pc |-> "deploy", mods |-> srv.mods]]
  /\ UNCHANGED <<srv, hc, phase, cache, deploy, faults>>

\* Every apply has a fresh content-generation: the pod is replaced each time.
EnsureHcDeployment(i) ==
  /\ rec[i].pc = "deploy"
  /\ rec' = [rec EXCEPT ![i] = [IdleRec EXCEPT !.pc = "setRunning"]]
  /\ deploy' = [deploy EXCEPT ![i] = rec[i].mods]
  /\ UNCHANGED <<srv, hc, phase, cache, faults>>

DeploymentRefused(i) ==
  /\ Step(i, "deploy", "setFailed")
  /\ Fault
  /\ UNCHANGED <<srv, hc, phase, cache, deploy>>

\* An object that is gone by now is a 404: an error, and the end all the same.
SetHcStatus(i) ==
  /\ rec[i].pc \in {"setRunning", "setFailed"}
  /\ rec' = [rec EXCEPT ![i] = IdleRec]
  /\ phase' = IF hc[i].live # "present" THEN phase
              ELSE [phase EXCEPT ![i] = IF rec[i].pc = "setRunning" THEN "Running" ELSE "other"]
  /\ UNCHANGED <<srv, hc, cache, deploy, faults>>

\* Mutant of DeleteHcDeployment: left to the owner reference.
DeleteHcDeploymentSkipped(i) ==
  /\ Step(i, "deleteDeployment", "removeFinalizer")
  /\ UNCHANGED <<srv, hc, phase, cache, deploy, faults>>

DeleteHcDeployment(i) ==
  /\ Step(i, "deleteDeployment", "removeFinalizer")
  /\ deploy' = [deploy EXCEPT ![i] = None]
  /\ UNCHANGED <<srv, hc, phase, cache, faults>>

RemoveFinalizer(i) ==
  /\ End(i, "removeFinalizer")
  /\ IF hc[i].live = "deleting"
       THEN hc' = [hc EXCEPT ![i] = NoObject]
       ELSE UNCHANGED hc
  /\ UNCHANGED <<srv, phase, cache, deploy, faults>>

\* A call fails: hc_error_policy requeues.
HcError(i) ==
  /\ rec[i].pc # "idle"
  /\ Fault
  /\ rec' = [rec EXCEPT ![i] = IdleRec]
  /\ UNCHANGED <<srv, hc, phase, cache, deploy>>

\* Both controllers are one process.
ControllerRestart ==
  /\ Fault
  /\ rec' = [i \in Indices |-> IdleRec]
  /\ cache' = hc
  /\ srv' = IF srv.pc = "apply" THEN [srv EXCEPT !.pc = "list", !.del = {}, !.add = {}] ELSE srv
  /\ UNCHANGED <<hc, phase, deploy>>

-----------------------------------------------------------------------------
ServerPass == List \/ PassDone \/ \E i \in Indices : DeleteClient(i) \/ CreateClient(i)
HcReconcile(i) ==
  \/ ReconcileHc(i) \/ AddFinalizer(i) \/ GetServer(i) \/ EnsureHcDeployment(i)
  \/ SetHcStatus(i) \/ DeleteHcDeployment(i) \/ RemoveFinalizer(i)

Next ==
  \/ StartServer \/ StopServer \/ UpdateServer \/ EditClients \/ DeleteServer \/ CreateServer
  \/ ServerPass \/ PassFails \/ ControllerRestart
  \/ \E i \in Indices : Watch(i) \/ HcReconcile(i) \/ DeploymentRefused(i) \/ HcError(i)

Spec == Init /\ [][Next]_vars

\* The watch delivers, errors and SLOW_REQUEUE reschedule an object that exists,
\* and both reconcilers go on.
FairSpec ==
  /\ Spec
  /\ WF_vars(ServerPass)
  /\ \A i \in Indices : WF_vars(Watch(i)) /\ WF_vars(HcReconcile(i))

-----------------------------------------------------------------------------
(***************************************************************************)
(* The finalizer keeps the object until hc_cleanup has deleted its         *)
(* Deployment: no client process outlives its object, also when the object *)
(* is deleted while hc_apply is under way or before it had its finalizer.  *)
(***************************************************************************)
HcGoneLeavesNothing ==
  \A i \in Indices : hc[i].live = "none" => deploy[i] = None

(***************************************************************************)
(* Every client of the server implements the abstract Finalizer, and one   *)
(* step may move several of them: the Deployment is applied only under the *)
(* finalizer, deleted only while this very object is being deleted, never  *)
(* by an hc_cleanup begun for an earlier object of the index, and the      *)
(* object goes only when the Deployment has gone.                          *)
(***************************************************************************)
Finalizer(i) == INSTANCE Finalizer
  WITH object <- hc[i].live, guarded <- hc[i].fin, owns <- deploy[i] # None

FinalizersKept ==
  /\ \A i \in Indices : Finalizer(i)!Init
  /\ [][\A i \in Indices : [Finalizer(i)!Next]_(Finalizer(i)!vars)]_vars

(***************************************************************************)
(* A server that stays stopped or deleted keeps no headless client: its    *)
(* own objects and their Deployments all go, whatever failed on the way.   *)
(***************************************************************************)
StopRemovesClients ==
  <>[](srv.pc \in {"stopped", "gone"}) =>
    <>[](\A i \in Indices : hc[i].live = "none" /\ deploy[i] = None)

(***************************************************************************)
(* A server that keeps running has no client above the number its last     *)
(* pass read, and every client object it has ends up Running on the        *)
(* server's current mods, although hc_apply is not told of an update and   *)
(* may have read the server before it.  (The number in the spec may be     *)
(* another by then: the edit waits for the next pass.)                     *)
(***************************************************************************)
ClientsFollowServer ==
  <>[](srv.pc = "running") =>
    <>[](\A i \in Indices :
           IF i < srv.count
             THEN hc[i].live # "none" => phase[i] = "Running" /\ deploy[i] = srv.mods
             ELSE hc[i].live = "none" /\ deploy[i] = None)

(***************************************************************************)
(* ensure_headless_clients "creates/deletes owned HeadlessClient objects   *)
(* to match spec.headless_clients": a server that keeps running has all    *)
(* the clients that its last pass found in the spec.                       *)
(***************************************************************************)
ClientsComplete ==
  <>[](srv.pc = "running") =>
    <>[](\A i \in Indices : i < srv.count => hc[i].live = "present")
=============================================================================
