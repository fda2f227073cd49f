------------------------------ MODULE GamePods ------------------------------
(***************************************************************************)
(* The pods of the game servers on their node: the gateway's port check,   *)
(* the CSI node service that gives each pod a snapshot of the content, and *)
(* the launcher that waits for the ports, starts arma3server and forwards  *)
(* the stop signal.                                                        *)
(*                                                                         *)
(* Between the gateway and the pods is the reconciler, whose passes are    *)
(* ServerLifecycle's subject: here a pass is one step that applies the     *)
(* Deployment of a server in phase Pending, or scales a stopped one down.  *)
(* In phase Running it does nothing, whatever the spec says by then.       *)
(*                                                                         *)
(* All pods are hostNetwork pods of one node, so they share its ports.     *)
(* Kubernetes (the ReplicaSet and the kubelet) is external: it creates the *)
(* pod of a Deployment, retries the CSI calls until they succeed, restarts *)
(* a container that ends, and removes a deleted pod: signal, SIGKILL after *)
(* the grace period, unpublish.  A new template waits for the pods of the  *)
(* old one to go (strategy Recreate); the successor of any other deleted   *)
(* pod does not: `kubectl delete pod`, an eviction and Stop followed by    *)
(* Start run the two side by side.                                         *)
(*                                                                         *)
(* The launcher is PID 1 of its container (the image's ENTRYPOINT), which  *)
(* fixes two things: a signal it has no handler for is dropped, not fatal, *)
(* and arma3server dies with it.                                           *)
(***************************************************************************)
EXTENDS Integers, FiniteSets

CONSTANTS Servers,      \* names of ArmaServers
          HcServers,    \* the servers with a headless client
          Ports,        \* game ports a request may name
          MaxRequests,  \* bound: concurrent gateway calls
          MaxPods,      \* bound: pods that exist at the same time
          MaxCalls,     \* bound: gateway calls of a behaviour
          MaxFaults     \* bound: failed CSI calls, crashes, evictions, reboots, rolls of a client

ASSUME PortsAssumption == Ports \subseteq Nat
ASSUME BoundsAssumption == {MaxRequests, MaxPods, MaxCalls, MaxFaults} \subseteq Nat

PORT_RANGE_SIZE == 5

Requests == 1 .. MaxRequests
Pods     == 1 .. MaxPods

VARIABLES
  spec,     \* server -> its port and desired_state
  deploy,   \* server -> its launcher Deployment, and whether it is to be applied again
  req,      \* request -> the call between check_port_conflict and its patch
  pod,      \* pod slot -> the pod, its volume and its container
  claims,   \* pods whose snapshot subvolume exists
  mounts,   \* pods whose target path is a mount point
  blob,     \* the shared blob, which holds the snapshots, is mounted
  orphaned, \* a snapshot is left whose pod is gone: nothing names it any more
  raced,    \* history: some patch followed a list that was no longer true
  rebooted, \* history: the node has restarted
  calls, faults

gateway == <<spec, req, raced, calls>>
volumes == <<claims, mounts, blob, orphaned, rebooted>>
vars    == <<spec, deploy, req, pod, claims, mounts, blob, orphaned, raced, rebooted, calls, faults>>

Absent    == [desired |-> "absent"]
Idle      == [op |-> "none"]
Unused    == [stage |-> "unused"]
ScaledTo0 == [replicas |-> 0]

Specs       == {Absent} \cup [port : Ports, desired : {"Running", "Stopped"}]
Deployments == {ScaledTo0} \cup [replicas : {1}, port : Ports, due : BOOLEAN]

\* A pod: the port it was created with, how the kubelet's last CSI call ended,
\* how far the launcher is, arma3server, and what became of the stop signal.
\* A client is given the port of the server's spec, read when it is rolled out.
NewPod(s, client) ==
  [stage |-> "live", srv |-> s, client |-> client,
   port |-> IF client THEN spec[s].port ELSE deploy[s].port,
   vol |-> "new", ctr |-> "none", arma |-> "none", sig |-> "none"]

VolStages == {"new", "ready", "failed"}
CtrStages == {"none", "wait", "spawn", "spawned", "running", "stopping", "exited"}

Exists(p)  == pod[p].stage # "unused"
Live(p)    == pod[p].stage = "live"
Deleted(p) == pod[p].stage \in {"deleted", "replaced"}
Alive(p)   == Exists(p) /\ pod[p].ctr \notin {"none", "exited"}
PodsOf(s, client) == {p \in Pods : Exists(p) /\ pod[p].srv = s /\ pod[p].client = client}
Deployed(s) == deploy[s].replicas = 1
Fault == faults < MaxFaults /\ faults' = faults + 1

TypeOK ==
  /\ spec \in [Servers -> Specs] /\ deploy \in [Servers -> Deployments]
  /\ req \in [Requests -> {Idle} \cup [op : {"create", "start"}, srv : Servers, port : Ports, stale : BOOLEAN]]
  /\ pod \in [Pods -> {Unused} \cup
                [stage : {"live", "deleted", "replaced"}, srv : Servers, client : BOOLEAN, port : Ports,
                 vol : VolStages, ctr : CtrStages, arma : {"none", "up", "dead"},
                 sig : {"none", "caught", "dropped", "forwarded", "killed"}]]
  /\ claims \subseteq Pods /\ mounts \subseteq Pods
  /\ {blob, orphaned, raced, rebooted} \subseteq BOOLEAN
  /\ calls \in 0..MaxCalls /\ faults \in 0..MaxFaults

----------------------------------------------------------------------------
(* The port range of a server.                                             *)
port_range(port) == port .. (port + PORT_RANGE_SIZE - 1)

port_ranges_overlap(a, b) ==
  /\ a <= b + PORT_RANGE_SIZE - 1
  /\ b <= a + PORT_RANGE_SIZE - 1

Running(s) == spec[s].desired = "Running"

\* No two servers that are to run share a port.
Booked == \A s, t \in Servers :
            s # t /\ Running(s) /\ Running(t)
              => port_range(spec[s].port) \cap port_range(spec[t].port) = {}

(* The reconciler has yet to see whatever was made and started before; the *)
(* content is synced, so the blob is mounted.                              *)
Init ==
  /\ spec \in [Servers -> Specs] /\ Booked
  /\ deploy = [s \in Servers |-> ScaledTo0]
  /\ req = [r \in Requests |-> Idle]
  /\ pod = [p \in Pods |-> Unused]
  /\ claims = {} /\ mounts = {} /\ blob = TRUE
  /\ orphaned = FALSE /\ raced = FALSE /\ rebooted = FALSE
  /\ calls = 0 /\ faults = 0

----------------------------------------------------------------------------
(* check_port_conflict: the names it looks at are all but the excluded one.*)
Conflicts(port, names) ==
  \E s \in names : Running(s) /\ port_ranges_overlap(port, spec[s].port)

(* The gateway.  The check lists the servers; the patch is a later call.   *)
Checked(r, op, s, port) ==
  /\ req[r] = Idle /\ \A q \in 1 .. r - 1 : req[q] # Idle
  /\ calls < MaxCalls
  /\ req' = [req EXCEPT ![r] = [op |-> op, srv |-> s, port |-> port, stale |-> FALSE]]
  /\ calls' = calls + 1
  /\ UNCHANGED <<spec, deploy, pod, volumes, raced, faults>>

CreateServer(r, s, port) ==
  /\ ~Conflicts(port, Servers)
  /\ Checked(r, "create", s, port)

\* Mutant of StartServer: the ports were checked when it was created.
StartUnchecked(r, s) ==
  /\ spec[s].desired # "absent"
  /\ Checked(r, "start", s, spec[s].port)

StartServer(r, s) ==
  /\ spec[s].desired # "absent"
  /\ ~Conflicts(spec[s].port, Servers \ {s})
  /\ Checked(r, "start", s, spec[s].port)

\* StartServer's merge patch names desired_state only, and the phase goes back
\* to Pending, unless that write is lost or a pass under way overwrites it.
\* CreateServer applies the whole spec and leaves the phase of a server that
\* runs already as it is.
PatchServer(r) ==
  /\ req[r] # Idle
  /\ LET s == req[r].srv IN
       spec' = [spec EXCEPT ![s] = [port |-> IF req[r].op = "start" THEN @.port ELSE req[r].port,
                                    desired |-> "Running"]]
  /\ \/ UNCHANGED deploy
     \/ /\ req[r].op = "start" /\ Deployed(req[r].srv)
        /\ deploy' = [deploy EXCEPT ![req[r].srv].due = TRUE]
  /\ raced' = (raced \/ req[r].stale)
  /\ req' = [q \in Requests |-> IF q = r \/ req[q] = Idle THEN Idle
                                ELSE [req[q] EXCEPT !.stale = TRUE]]
  /\ UNCHANGED <<pod, volumes, calls, faults>>

StopServer(s) ==
  /\ calls < MaxCalls /\ Running(s)
  /\ spec' = [spec EXCEPT ![s].desired = "Stopped"]
  /\ calls' = calls + 1
  /\ UNCHANGED <<deploy, req, pod, volumes, raced, faults>>

----------------------------------------------------------------------------
(* The reconciler, and what Kubernetes makes of it: the pods of a template *)
(* that is no longer wanted are deleted.                                   *)
Retire(P, stage) ==
  pod' = [p \in Pods |-> IF p \in P /\ Live(p) THEN [pod[p] EXCEPT !.stage = stage] ELSE pod[p]]

\* The pass of a server that is Pending.  The template never equals the one
\* before it (its content-generation is new), so the pod is always replaced.
Roll(s) ==
  /\ Running(s)
  /\ Deployed(s) => deploy[s].due
  /\ deploy' = [deploy EXCEPT ![s] = [replicas |-> 1, port |-> spec[s].port, due |-> FALSE]]
  /\ Retire(PodsOf(s, FALSE), "replaced")
  /\ UNCHANGED <<gateway, volumes, faults>>

\* The pass of a server that is stopped: 0 replicas, no headless clients.
ScaleDown(s) ==
  /\ ~Running(s) /\ Deployed(s)
  /\ deploy' = [deploy EXCEPT ![s] = ScaledTo0]
  /\ Retire(PodsOf(s, FALSE) \cup PodsOf(s, TRUE), "deleted")
  /\ UNCHANGED <<gateway, volumes, faults>>

\* hc_apply, every SLOW_REQUEUE: a new template whether or not anything
\* changed.  The requeue is taken to be longer than the start of a client; the
\* bound on faults counts these rolls too.
RollClient(p) ==
  /\ Live(p) /\ pod[p].client /\ pod[p].arma = "up" /\ Fault
  /\ Retire({p}, "replaced")
  /\ UNCHANGED <<gateway, deploy, volumes>>

----------------------------------------------------------------------------
(* Kubernetes: pods come and go.                                           *)
Only == UNCHANGED <<gateway, deploy, volumes, faults>>

CreatePod(p, s, client) ==
  /\ ~Exists(p) /\ \A q \in 1 .. p - 1 : Exists(q)
  /\ Deployed(s) /\ (client => s \in HcServers)
  /\ \A q \in PodsOf(s, client) : pod[q].stage = "deleted"
  /\ pod' = [pod EXCEPT ![p] = NewPod(s, client)]
  /\ Only

Evict(p) ==
  /\ Live(p) /\ Fault
  /\ Retire({p}, "deleted")
  /\ UNCHANGED <<gateway, deploy, volumes>>

\* A deleted pod that never had a container or a volume just goes.
DropPod(p) ==
  /\ Deleted(p) /\ ~Alive(p) /\ pod[p].vol = "new"
  /\ pod' = [pod EXCEPT ![p] = Unused]
  /\ Only

NodeReboots ==
  /\ Fault
  /\ mounts' = {} /\ blob' = FALSE /\ rebooted' = TRUE
  /\ pod' = [p \in Pods |->
               IF ~Exists(p) THEN Unused
               ELSE [pod[p] EXCEPT !.vol = IF @ = "new" THEN @ ELSE "failed",
                                   !.ctr = "none", !.arma = "none", !.sig = "none"]]
  /\ UNCHANGED <<gateway, deploy, claims, orphaned>>

----------------------------------------------------------------------------
(* The CSI node service.  A call that fails is repeated by the kubelet:    *)
(* publish while the pod is wanted, unpublish once it is deleted.          *)
Vol(p, v) == pod' = [pod EXCEPT ![p].vol = v]
System    == UNCHANGED <<gateway, deploy, rebooted>>

PublishDue(p)   == Live(p) /\ pod[p].vol \in {"new", "failed"}
UnpublishDue(p) == Deleted(p) /\ ~Alive(p) /\ pod[p].vol \in {"ready", "failed"}

\* A target that is mounted is left as it is.  Otherwise the blob is mounted
\* if need be, the snapshot taken (one that an earlier attempt left is reused)
\* and bind-mounted.
NodePublishVolume(p) ==
  /\ PublishDue(p)
  /\ Vol(p, "ready")
  /\ IF p \in mounts
     THEN UNCHANGED <<claims, mounts, blob>>
     ELSE claims' = claims \cup {p} /\ mounts' = mounts \cup {p} /\ blob' = TRUE
  /\ System /\ UNCHANGED <<orphaned, faults>>

\* Mutant of NodeUnpublishVolume: a volume that is not mounted is done with.
UnpublishMountedOnly(p) ==
  /\ UnpublishDue(p)
  /\ mounts' = mounts \ {p}
  /\ claims' = IF p \in mounts THEN claims \ {p} ELSE claims
  /\ pod' = [pod EXCEPT ![p] = Unused]
  /\ System /\ UNCHANGED <<blob, orphaned, faults>>

\* The umount, where there is something to unmount, and the delete of the
\* snapshot; then the kubelet lets the pod go.  A snapshot that cannot be seen,
\* because the blob is not mounted, is passed over: volume ids are never used
\* again, so no later call will name it.
NodeUnpublishVolume(p) ==
  /\ UnpublishDue(p)
  /\ mounts' = mounts \ {p} /\ claims' = claims \ {p}
  /\ orphaned' = (orphaned \/ (p \in claims /\ ~blob))
  /\ pod' = [pod EXCEPT ![p] = Unused]
  /\ System /\ UNCHANGED <<blob, faults>>

\* A command of the call fails, or works and the call's deadline passes all
\* the same: what the commands before it did stays.
PublishFails(p) ==
  /\ PublishDue(p) /\ Fault
  /\ \/ UNCHANGED <<claims, mounts, blob>>
     \/ /\ blob' = TRUE
        /\ \/ UNCHANGED <<claims, mounts>>
           \/ claims' = claims \cup {p} /\ mounts' \in {mounts, mounts \cup {p}}
  /\ Vol(p, "failed")
  /\ System /\ UNCHANGED orphaned

UnpublishFails(p) ==
  /\ UnpublishDue(p) /\ Fault
  /\ \/ UNCHANGED <<claims, mounts>>
     \/ mounts' = mounts \ {p} /\ claims' \in {claims, IF blob THEN claims \ {p} ELSE claims}
  /\ Vol(p, "failed")
  /\ System /\ UNCHANGED <<blob, orphaned>>

\* The watchdog's first tick after a restart finds the blob unmounted.
Watch ==
  /\ ~blob /\ blob' = TRUE
  /\ System /\ UNCHANGED <<pod, claims, mounts, orphaned, faults>>

----------------------------------------------------------------------------
(* The launcher and arma3server.                                           *)

\* Ports that arma3server processes hold.  A headless client binds none.
Held == UNION {port_range(pod[q].port) :
                 q \in {x \in Pods : Exists(x) /\ pod[x].arma = "up" /\ ~pod[x].client}}

Ctr(p, c) == pod' = [pod EXCEPT ![p].ctr = c]


\* Keys and missions are copied, then a server waits for its ports; a
\* headless client does not, since it binds none.
NextStage(p) == IF pod[p].client THEN "spawn" ELSE "wait"

StartContainer(p) ==
  /\ Live(p) /\ pod[p].vol = "ready" /\ ~Alive(p)
  /\ Ctr(p, NextStage(p))
  /\ Only

\* The last of the bind-and-drop probes found every port free.
PortsFree(p) == port_range(pod[p].port) \cap Held = {}

Probe(p) ==
  /\ Exists(p) /\ pod[p].ctr = "wait" /\ PortsFree(p)
  /\ Ctr(p, "spawn")
  /\ Only

PortWaitTimesOut(p) ==
  /\ Exists(p) /\ pod[p].ctr = "wait" /\ ~PortsFree(p)
  /\ Ctr(p, "exited")
  /\ Only

\* arma3server ends at once when it cannot bind its ports.
Spawn(p) ==
  /\ Exists(p) /\ pod[p].ctr = "spawn"
  /\ pod' = [pod EXCEPT ![p].ctr = "spawned",
                        ![p].arma = IF pod[p].client \/ port_range(pod[p].port) \cap Held = {}
                                    THEN "up" ELSE "dead"]
  /\ Only

InstallHandlers(p) ==
  /\ Exists(p) /\ pod[p].ctr = "spawned"
  /\ Ctr(p, "running")
  /\ Only

\* child.wait() returns; whatever the status, the container ends.
ChildExits(p) ==
  /\ Exists(p) /\ pod[p].ctr \in {"running", "stopping"} /\ pod[p].arma = "dead"
  /\ pod' = [pod EXCEPT ![p].ctr = "exited", ![p].arma = "none"]
  /\ Only

\* Mutant of ForwardSignal: the launcher ends on the signal itself.
SignalledExits(p) ==
  /\ Exists(p) /\ pod[p].ctr = "running" /\ pod[p].sig = "caught"
  /\ pod' = [pod EXCEPT ![p].ctr = "exited", ![p].arma = "none"]
  /\ Only

ForwardSignal(p) ==
  /\ Exists(p) /\ pod[p].ctr = "running" /\ pod[p].sig = "caught"
  /\ pod' = [pod EXCEPT ![p].ctr = "stopping", ![p].sig = "forwarded"]
  /\ Only

ArmaStops(p) ==
  /\ Exists(p) /\ pod[p].arma = "up" /\ pod[p].sig = "forwarded"
  /\ pod' = [pod EXCEPT ![p].arma = "dead"]
  /\ Only

ArmaCrashes(p) ==
  /\ Exists(p) /\ pod[p].arma = "up" /\ Fault
  /\ pod' = [pod EXCEPT ![p].arma = "dead"]
  /\ UNCHANGED <<gateway, deploy, volumes>>

\* The image's STOPSIGNAL reaches PID 1: caught by the handler, or dropped.
Signal(p) ==
  /\ Deleted(p) /\ Alive(p) /\ pod[p].sig = "none"
  /\ pod' = [pod EXCEPT ![p].sig = IF pod[p].ctr = "running" THEN "caught" ELSE "dropped"]
  /\ Only

\* The grace period ends, whatever has been made of the signal.
Kill(p) ==
  /\ Alive(p) /\ pod[p].sig # "none"
  /\ pod' = [pod EXCEPT ![p].ctr = "exited", ![p].arma = "none", ![p].sig = "killed"]
  /\ Only

----------------------------------------------------------------------------
Launcher(p) ==
  \/ StartContainer(p) \/ Probe(p) \/ Spawn(p) \/ InstallHandlers(p)
  \/ ChildExits(p) \/ ForwardSignal(p) \/ ArmaStops(p)

Kubelet(p) ==
  NodePublishVolume(p) \/ NodeUnpublishVolume(p) \/ DropPod(p) \/ Signal(p) \/ Kill(p)

Reconcile(s) == Roll(s) \/ ScaleDown(s)

Next ==
  \/ \E r \in Requests, s \in Servers :
       \/ \E port \in Ports : CreateServer(r, s, port)
       \/ StartServer(r, s)
  \/ \E r \in Requests : PatchServer(r)
  \/ \E s \in Servers : StopServer(s) \/ Reconcile(s)
  \/ \E p \in Pods, s \in Servers, client \in BOOLEAN : CreatePod(p, s, client)
  \/ \E p \in Pods : Launcher(p) \/ Kubelet(p)
  \/ \E p \in Pods : RollClient(p) \/ PortWaitTimesOut(p)
  \/ \E p \in Pods : PublishFails(p) \/ UnpublishFails(p) \/ ArmaCrashes(p) \/ Evict(p)
  \/ Watch \/ NodeReboots

Spec == Init /\ [][Next]_vars

(* Kubernetes retries, kills and creates without end, the reconciler       *)
(* requeues, and the launcher's steps follow one another.  Requests,       *)
(* faults, rolls of a client and the port timeout are not fair: they need  *)
(* never happen.  Nor is the watchdog's tick, on which no pod waits.       *)
Fairness ==
  /\ \A s \in Servers : WF_vars(Reconcile(s))
  /\ \A s \in Servers : WF_vars(\E p \in Pods, client \in BOOLEAN : CreatePod(p, s, client))
  /\ \A p \in Pods : WF_vars(Launcher(p) \/ Kubelet(p))

FairSpec == Spec /\ Fairness

----------------------------------------------------------------------------
(* Properties.                                                             *)

(* NodePublishVolume, NodeUnpublishVolume: what the node keeps for a pod   *)
(* is what the pod can use and give back, whichever command of a publish   *)
(* or unpublish failed and however it was retried.  A container runs only  *)
(* with its own snapshot mounted, a pod that is gone leaves no mount, and  *)
(* on a node that never restarted it leaves no snapshot.  (After a restart *)
(* it may: an unpublish that comes before the blob is mounted again skips  *)
(* the snapshot and succeeds.)                                             *)
VolumeFollowsPod ==
  /\ \A p \in Pods : /\ Alive(p)   => p \in claims /\ p \in mounts
                     /\ ~Exists(p) => p \notin claims /\ p \notin mounts
  /\ orphaned => rebooted

(* check_port_conflict: two servers with overlapping ranges are both to    *)
(* run only after two requests that overlapped in time.                    *)
NoDoubleBooking ==
  ~raced => Booked

(* launch.rs: once the handlers have caught the stop signal, arma3server   *)
(* goes down by itself: only the kubelet's SIGKILL or a restart of the     *)
(* node can still take it down with its container, never the launcher.     *)
StopReachesArma ==
  [][\A p \in Pods :
       Exists(p) /\ pod[p].arma = "up" /\ pod[p].sig \in {"caught", "forwarded"}
         => Exists(p)' /\ (pod'[p].arma # "none" \/ pod'[p].sig \in {"killed", "none"})]_vars

(* wait_for_ports_free and the restarts around it: a server that stays     *)
(* wanted, on ports that no other wanted server has, ends up with          *)
(* arma3server up for good, also when an older pod still held the ports,   *)
(* the wait gave up or the bind was lost to a late starter.  Its headless  *)
(* client, which must not wait for the ports of the server it joins, is up *)
(* again and again, since every requeue of hc_apply replaces it.  A        *)
(* server's ports are those of its Deployment, once it has one: they are   *)
(* not those of its spec after a CreateServer over a running server.       *)
PortOf(s) == IF Deployed(s) THEN deploy[s].port ELSE spec[s].port

Alone(s) ==
  /\ Running(s)
  /\ \A t \in Servers \ {s} : Running(t) => ~port_ranges_overlap(PortOf(s), PortOf(t))

Up(s, client) == \E p \in PodsOf(s, client) : pod[p].arma = "up"

=============================================================================
