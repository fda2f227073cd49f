--------------------------- MODULE GamePodsProofs ---------------------------
(***************************************************************************)
(* Proofs about GamePods, for any servers, ports, pods and requests: the   *)
(* CSI node service leaves nothing behind and gives every container its    *)
(* snapshot, check_port_conflict keeps ranges apart unless requests race,  *)
(* and a caught stop signal reaches arma3server.                           *)
(***************************************************************************)
EXTENDS GamePods, TLAPS

USE PortsAssumption, BoundsAssumption

PodType == [stage : {"live", "deleted", "replaced"}, srv : Servers, client : BOOLEAN, port : Ports,
            vol : VolStages, ctr : CtrStages, arma : {"none", "up", "dead"},
            sig : {"none", "caught", "dropped", "forwarded", "killed"}]
ReqType == [op : {"create", "start"}, srv : Servers, port : Ports, stale : BOOLEAN]
DeployType == [replicas : {1}, port : Ports, due : BOOLEAN]
ServerSpec == [port : Ports, desired : {"Running", "Stopped"}]

-----------------------------------------------------------------------------
(***************************************************************************)
(* Which records a slot, a request and a server can hold.                  *)
(***************************************************************************)
LEMMA PodKinds ==
  ASSUME TypeOK, NEW p \in Pods
  PROVE  /\ Exists(p) => pod[p] \in PodType
         /\ ~ Exists(p) => pod[p] = Unused
BY DEF TypeOK, Exists, Unused, PodType

LEMMA SpecKinds ==
  ASSUME TypeOK, NEW s \in Servers
  PROVE  /\ spec[s] \in {Absent} \cup ServerSpec
         /\ spec[s].desired # "absent" => spec[s] \in ServerSpec
         /\ Running(s) => spec[s] \in ServerSpec
BY DEF TypeOK, Specs, Absent, ServerSpec, Running

LEMMA DeployKinds ==
  ASSUME TypeOK, NEW s \in Servers
  PROVE  Deployed(s) => deploy[s] \in DeployType
BY DEF TypeOK, Deployments, ScaledTo0, DeployType, Deployed

LEMMA ReqKinds ==
  ASSUME TypeOK, NEW r \in Requests
  PROVE  req[r] # Idle => req[r] \in ReqType
BY DEF TypeOK, ReqType

\* What the steps make of a pod is a pod.
LEMMA PodPatches ==
  ASSUME NEW q \in PodType
  PROVE  /\ \A v \in VolStages : [q EXCEPT !.vol = v] \in PodType
         /\ \A c \in CtrStages : [q EXCEPT !.ctr = c] \in PodType
BY DEF PodType

\* A step changes one slot, to what may be in it.
Slot(p, q) == pod' = [pod EXCEPT ![p] = q] /\ q \in {Unused} \cup PodType

LEMMA SlotTyped ==
  ASSUME TypeOK, NEW p \in Pods, NEW q, Slot(p, q)
  PROVE  /\ pod' \in [Pods -> {Unused} \cup PodType]
         /\ pod'[p] = q
         /\ \A o \in Pods : o # p => pod'[o] = pod[o]
BY DEF TypeOK, Slot, PodType

\* The steps of the kubelet's CSI calls, the launcher and arma3server on one pod.
LEMMA VolSlot ==
  ASSUME TypeOK, NEW p \in Pods, Exists(p), NEW v \in VolStages, Vol(p, v)
  PROVE  Slot(p, [pod[p] EXCEPT !.vol = v])
BY PodKinds, PodPatches DEF Slot, Vol, TypeOK

LEMMA CtrSlot ==
  ASSUME TypeOK, NEW p \in Pods, Exists(p), NEW c \in CtrStages, Ctr(p, c)
  PROVE  Slot(p, [pod[p] EXCEPT !.ctr = c])
BY PodKinds, PodPatches DEF Slot, Ctr, TypeOK
\* A step of the launcher, of arma3server or of a signal: the volume stays, a
\* container starts on a published one only, arma3server is up in one that runs, and
\* nothing but SIGKILL takes it down past a signal that was caught.
ContainerStep(p) ==
  \/ StartContainer(p) \/ Probe(p) \/ PortWaitTimesOut(p) \/ Spawn(p) \/ InstallHandlers(p)
  \/ ChildExits(p) \/ ForwardSignal(p) \/ ArmaStops(p) \/ ArmaCrashes(p) \/ Signal(p) \/ Kill(p)

ArmaStages == {"spawned", "running", "stopping"}

InContainer(p, q) ==
  /\ Slot(p, q) /\ q \in PodType
  /\ q.vol = pod[p].vol /\ q.stage = pod[p].stage
  /\ q.ctr \notin {"none", "exited"} => Alive(p) \/ pod[p].vol = "ready"
  /\ (pod[p].arma = "up" => pod[p].ctr \in ArmaStages) => (q.arma = "up" => q.ctr \in ArmaStages)
  /\ pod[p].arma = "up" => q.arma # "none" \/ q.sig = "killed"

LEMMA ContainerFrame ==
  ASSUME TypeOK, NEW p \in Pods, ContainerStep(p)
  PROVE  Exists(p) /\ UNCHANGED <<gateway, deploy, volumes>> /\ faults' \in 0 .. MaxFaults
<1>1. Exists(p)
  BY DEF ContainerStep, StartContainer, Probe, PortWaitTimesOut, Spawn, InstallHandlers, ChildExits,
         ForwardSignal, ArmaStops, ArmaCrashes, Signal, Kill, Live, Deleted, Alive, Exists
<1>2. UNCHANGED <<gateway, deploy, volumes>>
  BY DEF ContainerStep, StartContainer, Probe, PortWaitTimesOut, Spawn, InstallHandlers, ChildExits,
         ForwardSignal, ArmaStops, ArmaCrashes, Signal, Kill, Only
<1>3. faults' = faults \/ Fault
  BY DEF ContainerStep, StartContainer, Probe, PortWaitTimesOut, Spawn, InstallHandlers, ChildExits,
         ForwardSignal, ArmaStops, ArmaCrashes, Signal, Kill, Only
<1>4. faults' \in 0 .. MaxFaults
  BY <1>3 DEF Fault, TypeOK
<1> QED BY <1>1, <1>2, <1>4

LEMMA ContainerSlot ==
  ASSUME TypeOK, NEW p \in Pods, ContainerStep(p) PROVE \E q : InContainer(p, q)
<1>0. pod[p] \in PodType /\ Exists(p)
  BY ContainerFrame, PodKinds
<1>1. ASSUME NEW c \in CtrStages, Ctr(p, c), Alive(p) \/ pod[p].vol = "ready",
             pod[p].arma = "up" /\ pod[p].ctr \in ArmaStages => c \in ArmaStages
      PROVE  \E q : InContainer(p, q)
  <2> DEFINE q == [pod[p] EXCEPT !.ctr = c]
  <2>1. Slot(p, q)
    BY <1>0, <1>1, CtrSlot
  <2>2. /\ q \in PodType /\ q.vol = pod[p].vol /\ q.stage = pod[p].stage /\ q.arma = pod[p].arma
        /\ q.ctr = c
    BY <1>0 DEF PodType
  <2>3. InContainer(p, q)
    BY <1>1, <2>1, <2>2 DEF InContainer
  <2> QED BY <2>3
<1>2. CASE StartContainer(p)
  BY <1>1, <1>2 DEF StartContainer, NextStage, CtrStages, Alive, ArmaStages, Live, Exists
<1>3. CASE Probe(p) \/ PortWaitTimesOut(p) \/ InstallHandlers(p)
  BY <1>1, <1>3 DEF Probe, PortWaitTimesOut, InstallHandlers, CtrStages, Alive, ArmaStages
<1>4. CASE Spawn(p)
  <2> DEFINE a == IF pod[p].client \/ port_range(pod[p].port) \cap Held = {} THEN "up" ELSE "dead"
             q == [pod[p] EXCEPT !.ctr = "spawned", !.arma = a]
  <2>1. /\ q \in PodType /\ q.vol = pod[p].vol /\ q.stage = pod[p].stage /\ q.arma = a
        /\ q.ctr = "spawned"
    BY <1>0 DEF PodType, CtrStages
  <2>2. Slot(p, q) /\ Alive(p)
    BY <1>4, <2>1 DEF Slot, TypeOK, Spawn, Alive
  <2>3. InContainer(p, q)
    BY <2>1, <2>2 DEF InContainer, ArmaStages
  <2> QED BY <2>3
<1>5. CASE ChildExits(p)
  <2> DEFINE q == [pod[p] EXCEPT !.ctr = "exited", !.arma = "none"]
  <2>1. q \in PodType /\ q.vol = pod[p].vol /\ q.stage = pod[p].stage /\ q.arma = "none"
    BY <1>0 DEF PodType, CtrStages
  <2>2. Slot(p, q) /\ Alive(p) /\ pod[p].arma = "dead"
    BY <1>5, <2>1 DEF Slot, TypeOK, ChildExits, Alive
  <2>3. InContainer(p, q)
    BY <2>1, <2>2 DEF InContainer
  <2> QED BY <2>3
<1>6. CASE Kill(p)
  <2> DEFINE q == [pod[p] EXCEPT !.ctr = "exited", !.arma = "none", !.sig = "killed"]
  <2>1. /\ q \in PodType /\ q.vol = pod[p].vol /\ q.stage = pod[p].stage /\ q.arma = "none"
        /\ q.sig = "killed"
    BY <1>0 DEF PodType, CtrStages
  <2>2. Slot(p, q) /\ Alive(p)
    BY <1>6, <2>1 DEF Slot, TypeOK, Kill
  <2>3. InContainer(p, q)
    BY <2>1, <2>2 DEF InContainer
  <2> QED BY <2>3
<1>7. CASE ForwardSignal(p)
  <2> DEFINE q == [pod[p] EXCEPT !.ctr = "stopping", !.sig = "forwarded"]
  <2>1. /\ q \in PodType /\ q.vol = pod[p].vol /\ q.stage = pod[p].stage /\ q.arma = pod[p].arma
        /\ q.ctr = "stopping"
    BY <1>0 DEF PodType, CtrStages
  <2>2. Slot(p, q) /\ Alive(p)
    BY <1>7, <2>1 DEF Slot, TypeOK, ForwardSignal, Alive
  <2>3. InContainer(p, q)
    BY <2>1, <2>2 DEF InContainer, ArmaStages
  <2> QED BY <2>3
<1>8. CASE ArmaStops(p) \/ ArmaCrashes(p)
  <2> DEFINE q == [pod[p] EXCEPT !.arma = "dead"]
  <2>1. /\ q \in PodType /\ q.vol = pod[p].vol /\ q.stage = pod[p].stage /\ q.arma = "dead"
        /\ q.ctr = pod[p].ctr
    BY <1>0 DEF PodType
  <2>2. Slot(p, q)
    BY <1>8, <2>1 DEF Slot, TypeOK, ArmaStops, ArmaCrashes
  <2>3. InContainer(p, q)
    BY <1>0, <2>1, <2>2 DEF InContainer, Alive
  <2> QED BY <2>3
<1>9. CASE Signal(p)
  <2> DEFINE g == IF pod[p].ctr = "running" THEN "caught" ELSE "dropped"
             q == [pod[p] EXCEPT !.sig = g]
  <2>1. /\ q \in PodType /\ q.vol = pod[p].vol /\ q.stage = pod[p].stage /\ q.arma = pod[p].arma
        /\ q.ctr = pod[p].ctr
    BY <1>0 DEF PodType
  <2>2. Slot(p, q) /\ Alive(p)
    BY <1>9, <2>1 DEF Slot, TypeOK, Signal
  <2>3. InContainer(p, q)
    BY <2>1, <2>2 DEF InContainer
  <2> QED BY <2>3
<1> QED BY <1>2, <1>3, <1>4, <1>5, <1>6, <1>7, <1>8, <1>9 DEF ContainerStep

\* A pod that is retired keeps everything else it has.
SameBut(p) ==
  /\ Exists(p) /\ pod[p] \in PodType /\ pod'[p] \in PodType
  /\ pod'[p].vol = pod[p].vol /\ pod'[p].ctr = pod[p].ctr
  /\ pod'[p].arma = pod[p].arma /\ pod'[p].sig = pod[p].sig

LEMMA RetirePods ==
  ASSUME TypeOK, NEW P, NEW st \in {"deleted", "replaced"}, Retire(P, st)
  PROVE  /\ pod' \in [Pods -> {Unused} \cup PodType]
         /\ \A p \in Pods : pod'[p] = pod[p] \/ SameBut(p)
<1>1. ASSUME NEW p \in Pods
      PROVE  pod'[p] \in {Unused} \cup PodType /\ (pod'[p] = pod[p] \/ SameBut(p))
  <2>1. pod'[p] = IF p \in P /\ Live(p) THEN [pod[p] EXCEPT !.stage = st] ELSE pod[p]
    BY DEF Retire
  <2>2. CASE p \in P /\ Live(p)
    <3>1. Exists(p) /\ pod[p] \in PodType
      BY <2>2, PodKinds DEF Live, Exists
    <3>2. pod'[p] = [pod[p] EXCEPT !.stage = st]
      BY <2>1, <2>2
    <3>3. /\ pod'[p] \in PodType
          /\ pod'[p].vol = pod[p].vol /\ pod'[p].ctr = pod[p].ctr
          /\ pod'[p].arma = pod[p].arma /\ pod'[p].sig = pod[p].sig
      BY <3>1, <3>2 DEF PodType
    <3> QED BY <3>1, <3>3 DEF SameBut
  <2>3. CASE ~ (p \in P /\ Live(p))
    BY <2>1, <2>3, PodKinds
  <2> QED BY <2>2, <2>3
<1> QED BY <1>1 DEF Retire

LEMMA VolFields ==
  ASSUME TypeOK, NEW p \in Pods, Exists(p), NEW v \in VolStages, Vol(p, v)
  PROVE  \E q : /\ Slot(p, q) /\ q \in PodType /\ q.vol = v /\ q.ctr = pod[p].ctr
                /\ q.arma = pod[p].arma
<1> DEFINE q == [pod[p] EXCEPT !.vol = v]
<1>1. pod[p] \in PodType
  BY PodKinds
<1>2. q \in PodType /\ q.vol = v /\ q.ctr = pod[p].ctr /\ q.arma = pod[p].arma
  BY <1>1 DEF PodType
<1> QED BY <1>2, VolSlot
-----------------------------------------------------------------------------
(***************************************************************************)
(* Types.  A request that starts a server started from one that exists,    *)
(* and only such a server has a Deployment.                                *)
(***************************************************************************)
StartsExist ==
  \A r \in Requests :
    req[r] # Idle /\ req[r].op = "start" => spec[req[r].srv].desired # "absent"

DeployedExist == \A s \in Servers : Deployed(s) => spec[s].desired # "absent"

Typed == TypeOK /\ StartsExist /\ DeployedExist

LEMMA InitTyped == Init => Typed
<1> SUFFICES ASSUME Init PROVE Typed
  OBVIOUS
<1>1. TypeOK
  <2>1. spec \in [Servers -> Specs] /\ claims = {} /\ mounts = {}
    BY DEF Init
  <2>2. {blob, orphaned, raced, rebooted} \subseteq BOOLEAN
    BY DEF Init
  <2>3. calls \in 0 .. MaxCalls /\ faults \in 0 .. MaxFaults
    BY DEF Init
  <2>4. req \in [Requests -> {Idle} \cup ReqType] /\ pod \in [Pods -> {Unused} \cup PodType]
    BY DEF Init
  <2>5. deploy \in [Servers -> Deployments]
    BY DEF Init, Deployments
  <2> QED BY <2>1, <2>2, <2>3, <2>4, <2>5 DEF TypeOK, ReqType, PodType
<1>2. StartsExist /\ DeployedExist
  BY DEF Init, StartsExist, DeployedExist, Deployed, ScaledTo0
<1> QED BY <1>1, <1>2 DEF Typed

\* What the gateway and the reconciler decide on keeps its type while only the
\* node moves.
LEMMA NodeTyped ==
  ASSUME Typed, UNCHANGED <<gateway, deploy>>, pod' \in [Pods -> {Unused} \cup PodType],
         claims' \subseteq Pods, mounts' \subseteq Pods,
         blob' \in BOOLEAN, orphaned' \in BOOLEAN, rebooted' \in BOOLEAN, faults' \in 0 .. MaxFaults
  PROVE  Typed'
<1>1. TypeOK'
  BY DEF Typed, TypeOK, gateway, PodType
<1>2. StartsExist' /\ DeployedExist'
  BY DEF Typed, StartsExist, DeployedExist, Deployed, gateway
<1> QED BY <1>1, <1>2 DEF Typed

LEMMA NodeFlags ==
  ASSUME Typed PROVE {blob, orphaned, raced, rebooted} \subseteq BOOLEAN
BY DEF Typed, TypeOK

LEMMA FaultBound ==
  ASSUME TypeOK, UNCHANGED faults \/ Fault PROVE faults' \in 0 .. MaxFaults
BY DEF TypeOK, Fault

\* The reconciler: a Deployment of the server's port, or none.
LEMMA DeployTyped ==
  ASSUME Typed, UNCHANGED <<gateway, volumes, faults>>, NEW s \in Servers,
         NEW d \in Deployments, deploy' = [deploy EXCEPT ![s] = d],
         d.replicas = 1 => spec[s].desired # "absent",
         NEW P, NEW st \in {"deleted", "replaced"}, Retire(P, st)
  PROVE  Typed'
<1>1. pod' \in [Pods -> {Unused} \cup PodType]
  BY RetirePods DEF Typed
<1>2. deploy' \in [Servers -> Deployments]
  BY DEF Typed, TypeOK
<1>3. TypeOK'
  BY <1>1, <1>2 DEF Typed, TypeOK, gateway, volumes, PodType
<1>4. \A t \in Servers : deploy'[t] = IF t = s THEN d ELSE deploy[t]
  BY DEF Typed, TypeOK
<1>5. StartsExist' /\ DeployedExist'
  BY <1>4 DEF Typed, StartsExist, DeployedExist, Deployed, gateway
<1> QED BY <1>3, <1>5 DEF Typed

LEMMA ReconcileTyped ==
  ASSUME Typed, NEW s \in Servers, Reconcile(s) PROVE Typed'
<1>1. CASE Roll(s)
  <2> DEFINE d == [replicas |-> 1, port |-> spec[s].port, due |-> FALSE]
  <2>1. spec[s].port \in Ports /\ spec[s].desired # "absent"
    BY <1>1, SpecKinds DEF Roll, Typed, ServerSpec, Running
  <2>2. d \in Deployments
    BY <2>1 DEF Deployments
  <2> QED BY <1>1, <2>1, <2>2, DeployTyped DEF Roll
<1>2. CASE ScaleDown(s)
  <2>1. ScaledTo0 \in Deployments /\ ScaledTo0.replicas # 1
    BY DEF Deployments, ScaledTo0
  <2> QED BY <1>2, <2>1, DeployTyped DEF ScaleDown
<1> QED BY <1>1, <1>2 DEF Reconcile

\* Past check_port_conflict.
LEMMA CheckedTyped ==
  ASSUME Typed, NEW r \in Requests, NEW op \in {"create", "start"}, NEW s \in Servers,
         NEW port \in Ports, Checked(r, op, s, port), op = "start" => spec[s].desired # "absent"
  PROVE  /\ Typed'
         /\ req'[r] = [op |-> op, srv |-> s, port |-> port, stale |-> FALSE]
         /\ \A q \in Requests : q # r => req'[q] = req[q]
<1> DEFINE new == [op |-> op, srv |-> s, port |-> port, stale |-> FALSE]
<1>1. new \in ReqType
  BY DEF ReqType
<1>2. req' = [req EXCEPT ![r] = new]
  BY DEF Checked
<1>3. /\ req' \in [Requests -> {Idle} \cup ReqType]
      /\ req'[r] = new /\ \A q \in Requests : q # r => req'[q] = req[q]
  BY <1>1, <1>2 DEF Typed, TypeOK, ReqType
<1>4. /\ UNCHANGED <<spec, deploy, pod, claims, mounts, blob, orphaned, rebooted, raced, faults>>
      /\ calls' \in 0 .. MaxCalls
  BY DEF Checked, volumes, Typed, TypeOK
<1>5. TypeOK'
  BY <1>3, <1>4 DEF Typed, TypeOK, ReqType
<1>6. StartsExist' /\ DeployedExist'
  BY <1>3, <1>4 DEF Typed, StartsExist, DeployedExist, Deployed
<1> QED BY <1>3, <1>5, <1>6 DEF Typed

\* The patch makes the server Running on the port its request stands for.
PatchedPort(r) == IF req[r].op = "start" THEN spec[req[r].srv].port ELSE req[r].port

LEMMA PatchTyped ==
  ASSUME Typed, NEW r \in Requests, PatchServer(r)
  PROVE  /\ Typed'
         /\ req[r] \in ReqType /\ PatchedPort(r) \in Ports
         /\ spec'[req[r].srv] = [port |-> PatchedPort(r), desired |-> "Running"]
         /\ \A t \in Servers : t # req[r].srv => spec'[t] = spec[t]
         /\ \A q \in Requests : req'[q] # Idle => req'[q].stale
<1>1. req[r] \in ReqType
  BY ReqKinds DEF PatchServer, Typed
<1> DEFINE s == req[r].srv
<1>2. s \in Servers /\ req[r].op \in {"create", "start"} /\ req[r].port \in Ports
  BY <1>1 DEF ReqType
<1>3. req[r].op = "start" => spec[s] \in ServerSpec
  BY <1>2, SpecKinds DEF Typed, StartsExist, PatchServer
<1>4. PatchedPort(r) \in Ports
  BY <1>2, <1>3 DEF PatchedPort, ServerSpec
<1>5. spec' = [spec EXCEPT ![s] = [port |-> PatchedPort(r), desired |-> "Running"]]
  BY <1>2 DEF PatchServer, PatchedPort, Typed, TypeOK
<1>6. spec' \in [Servers -> Specs]
  BY <1>4, <1>5 DEF Typed, TypeOK, Specs
<1>7. /\ spec'[s] = [port |-> PatchedPort(r), desired |-> "Running"]
      /\ \A t \in Servers : t # s => spec'[t] = spec[t]
  BY <1>2, <1>5 DEF Typed, TypeOK
<1>8. ASSUME NEW q \in Requests
      PROVE  /\ req'[q] \in {Idle} \cup ReqType
             /\ req'[q] # Idle => /\ req'[q].stale /\ req[q] # Idle
                                  /\ req'[q].op = req[q].op /\ req'[q].srv = req[q].srv
  <2>1. req'[q] = IF q = r \/ req[q] = Idle THEN Idle ELSE [req[q] EXCEPT !.stale = TRUE]
    BY DEF PatchServer
  <2>2. CASE q = r \/ req[q] = Idle
    BY <2>1, <2>2
  <2>3. CASE q # r /\ req[q] # Idle
    <3>1. req[q] \in ReqType
      BY <2>3, ReqKinds DEF Typed
    <3> QED BY <2>1, <2>3, <3>1 DEF ReqType
  <2> QED BY <2>2, <2>3
<1>9. req' \in [Requests -> {Idle} \cup ReqType]
  BY <1>8 DEF PatchServer
<1>10. raced' \in BOOLEAN
  BY DEF PatchServer
<1>11. UNCHANGED <<pod, claims, mounts, blob, orphaned, rebooted, calls, faults>>
  BY DEF PatchServer, volumes
<1>14. /\ deploy' \in [Servers -> Deployments]
       /\ \A t \in Servers : deploy'[t].replicas = deploy[t].replicas
  <2>1. CASE UNCHANGED deploy
    BY <2>1 DEF Typed, TypeOK
  <2>2. CASE Deployed(s) /\ deploy' = [deploy EXCEPT ![s].due = TRUE]
    <3> DEFINE d == [deploy[s] EXCEPT !.due = TRUE]
    <3>1. deploy[s] \in DeployType
      BY <1>2, <2>2, DeployKinds DEF Typed
    <3>2. d \in DeployType /\ d.replicas = deploy[s].replicas
      BY <3>1 DEF DeployType
    <3>3. deploy' = [deploy EXCEPT ![s] = d]
      BY <2>2
    <3> QED BY <1>2, <3>2, <3>3 DEF Typed, TypeOK, Deployments, DeployType
  <2> QED BY <2>1, <2>2 DEF PatchServer
<1>12. TypeOK'
  BY <1>6, <1>9, <1>10, <1>11, <1>14 DEF Typed, TypeOK, ReqType
<1>15. DeployedExist'
  BY <1>7, <1>14 DEF Typed, DeployedExist, Deployed
<1>13. StartsExist'
  <2>1. ASSUME NEW q \in Requests, req'[q] # Idle, req'[q].op = "start"
        PROVE  spec'[req'[q].srv].desired # "absent"
    <3>1. req[q] # Idle /\ req[q].op = "start" /\ req'[q].srv = req[q].srv
      BY <1>8, <2>1
    <3>2. spec[req[q].srv].desired # "absent" /\ req[q].srv \in Servers
      BY <3>1, ReqKinds DEF Typed, StartsExist, ReqType
    <3> QED BY <1>7, <3>1, <3>2
  <2> QED BY <2>1 DEF StartsExist
<1> QED BY <1>1, <1>4, <1>7, <1>8, <1>12, <1>13, <1>15 DEF Typed

LEMMA StopTyped ==
  ASSUME Typed, NEW s \in Servers, StopServer(s)
  PROVE  /\ Typed'
         /\ spec[s] \in ServerSpec
         /\ spec'[s] = [port |-> spec[s].port, desired |-> "Stopped"]
         /\ \A t \in Servers : t # s => spec'[t] = spec[t]
<1>1. spec[s] \in ServerSpec
  BY SpecKinds DEF StopServer, Typed
<1>2. spec' = [spec EXCEPT ![s] = [spec[s] EXCEPT !.desired = "Stopped"]]
  BY DEF StopServer, Typed, TypeOK
<1>3. [spec[s] EXCEPT !.desired = "Stopped"] = [port |-> spec[s].port, desired |-> "Stopped"]
  BY <1>1 DEF ServerSpec
<1>4. /\ spec'[s] = [port |-> spec[s].port, desired |-> "Stopped"]
      /\ \A t \in Servers : t # s => spec'[t] = spec[t]
  BY <1>2, <1>3 DEF Typed, TypeOK
<1>5. spec' \in [Servers -> Specs]
  BY <1>1, <1>2, <1>3 DEF Typed, TypeOK, Specs, ServerSpec
<1>6. /\ UNCHANGED <<deploy, req, pod, claims, mounts, blob, orphaned, rebooted, raced, faults>>
      /\ calls' \in 0 .. MaxCalls
  BY DEF StopServer, volumes, Typed, TypeOK
<1>7. TypeOK'
  BY <1>5, <1>6 DEF Typed, TypeOK
<1>8. StartsExist'
  <2>1. ASSUME NEW q \in Requests, req[q] # Idle, req[q].op = "start"
        PROVE  spec'[req[q].srv].desired # "absent"
    BY <1>4, <2>1, ReqKinds DEF Typed, StartsExist, ReqType
  <2> QED BY <1>6, <2>1 DEF StartsExist
<1>9. DeployedExist'
  BY <1>4, <1>6 DEF Typed, DeployedExist, Deployed
<1> QED BY <1>1, <1>4, <1>7, <1>8, <1>9 DEF Typed

LEMMA CreatePodSlot ==
  ASSUME Typed, NEW p \in Pods, NEW s \in Servers, NEW client \in BOOLEAN, CreatePod(p, s, client)
  PROVE  \E q : Slot(p, q) /\ q \in PodType /\ q.vol = "new" /\ q.ctr = "none" /\ q.arma = "none"
<1> DEFINE q == NewPod(s, client)
<1>1. spec[s].port \in Ports
  BY SpecKinds DEF CreatePod, Typed, DeployedExist, ServerSpec
<1>2. deploy[s].port \in Ports
  BY DeployKinds DEF CreatePod, Typed, DeployType
<1>3. q \in PodType /\ q.vol = "new" /\ q.ctr = "none" /\ q.arma = "none"
  BY <1>1, <1>2 DEF NewPod, PodType, VolStages, CtrStages
<1>4. Slot(p, q)
  BY <1>3 DEF Slot, CreatePod
<1> QED BY <1>3, <1>4

\* A reboot takes mounts and containers, and leaves every claim and every pod.
LEMMA RebootPods ==
  ASSUME TypeOK, NodeReboots, NEW p \in Pods
  PROVE  /\ ~ Exists(p) => pod'[p] = Unused
         /\ Exists(p) => /\ pod'[p] \in PodType /\ pod'[p].ctr = "none" /\ pod'[p].sig = "none"
                         /\ pod'[p].arma = "none"
                         /\ pod'[p].vol = IF pod[p].vol = "new" THEN "new" ELSE "failed"
<1>1. pod'[p] = IF ~ Exists(p) THEN Unused
                ELSE [pod[p] EXCEPT !.vol = IF @ = "new" THEN @ ELSE "failed",
                                    !.ctr = "none", !.arma = "none", !.sig = "none"]
  BY DEF NodeReboots
<1>2. CASE Exists(p)
  <2>1. pod[p] \in PodType
    BY <1>2, PodKinds
  <2> QED BY <1>1, <1>2, <2>1 DEF PodType, VolStages, CtrStages
<1> QED BY <1>1, <1>2

\* The CSI calls on one pod: it stays, in another stage, or goes.
CsiStep(p) ==
  NodePublishVolume(p) \/ NodeUnpublishVolume(p) \/ PublishFails(p) \/ UnpublishFails(p)

LEMMA CsiFrame ==
  ASSUME TypeOK, NEW p \in Pods, CsiStep(p)
  PROVE  /\ Exists(p) /\ UNCHANGED <<gateway, deploy, rebooted>> /\ (UNCHANGED faults \/ Fault)
         /\ (\E v \in VolStages : Vol(p, v)) \/ Slot(p, Unused)
         /\ claims' \subseteq Pods /\ mounts' \subseteq Pods
         /\ blob' \in BOOLEAN /\ orphaned' \in BOOLEAN
<1>0. claims \subseteq Pods /\ mounts \subseteq Pods /\ blob \in BOOLEAN /\ orphaned \in BOOLEAN
  BY DEF TypeOK
<1>1. CASE NodePublishVolume(p)
  BY <1>0, <1>1 DEF NodePublishVolume, PublishDue, Live, Exists, System, VolStages
<1>2. CASE NodeUnpublishVolume(p)
  BY <1>0, <1>2 DEF NodeUnpublishVolume, UnpublishDue, Deleted, Exists, System, Slot
<1>3. CASE PublishFails(p)
  BY <1>0, <1>3 DEF PublishFails, PublishDue, Live, Exists, System, VolStages
<1>4. CASE UnpublishFails(p)
  BY <1>0, <1>4 DEF UnpublishFails, UnpublishDue, Deleted, Exists, System, VolStages
<1> QED BY <1>1, <1>2, <1>3, <1>4 DEF CsiStep

\* Every step keeps every variable in its type.
LEMMA TypedStep == Typed /\ [Next]_vars => Typed'
<1> SUFFICES ASSUME Typed, [Next]_vars PROVE Typed'
  OBVIOUS
<1>0. TypeOK /\ claims \subseteq Pods /\ mounts \subseteq Pods
  BY DEF Typed, TypeOK
<1>00. blob \in BOOLEAN /\ orphaned \in BOOLEAN /\ rebooted \in BOOLEAN
  BY NodeFlags
<1>1. ASSUME NEW r \in Requests, NEW s \in Servers, NEW port \in Ports, CreateServer(r, s, port)
      PROVE  Typed'
  BY <1>1, CheckedTyped DEF CreateServer
<1>2. ASSUME NEW r \in Requests, NEW s \in Servers, StartServer(r, s) PROVE Typed'
  <2>1. spec[s].port \in Ports /\ spec[s].desired # "absent"
    BY <1>0, <1>2, SpecKinds DEF StartServer, ServerSpec
  <2> QED BY <1>2, <2>1, CheckedTyped DEF StartServer
<1>3. ASSUME NEW r \in Requests, PatchServer(r) PROVE Typed'
  BY <1>3, PatchTyped
<1>4. ASSUME NEW s \in Servers, StopServer(s) PROVE Typed'
  BY <1>4, StopTyped
<1>5. ASSUME NEW p \in Pods, NEW s \in Servers, NEW client \in BOOLEAN, CreatePod(p, s, client)
      PROVE  Typed'
  <2>1. UNCHANGED <<gateway, deploy, claims, mounts, blob, orphaned, rebooted, faults>>
    BY <1>5 DEF CreatePod, Only, volumes
  <2>2. pod' \in [Pods -> {Unused} \cup PodType]
    BY <1>0, <1>5, CreatePodSlot, SlotTyped
  <2> QED BY <1>0, <1>00, <2>1, <2>2, NodeTyped, FaultBound
<1>6. ASSUME NEW p \in Pods, ContainerStep(p) PROVE Typed'
  <2>1. /\ UNCHANGED <<gateway, deploy, claims, mounts, blob, orphaned, rebooted>>
        /\ faults' \in 0 .. MaxFaults
    BY <1>0, <1>6, ContainerFrame DEF volumes
  <2>2. pod' \in [Pods -> {Unused} \cup PodType]
    BY <1>0, <1>6, ContainerSlot, SlotTyped DEF InContainer
  <2> QED BY <1>0, <1>00, <2>1, <2>2, NodeTyped
<1>7. ASSUME NEW p \in Pods, RollClient(p) \/ Evict(p) PROVE Typed'
  <2>1. /\ UNCHANGED <<gateway, deploy, claims, mounts, blob, orphaned, rebooted>> /\ Fault
        /\ \E st \in {"deleted", "replaced"} : Retire({p}, st)
    BY <1>7 DEF RollClient, Evict, volumes
  <2>2. pod' \in [Pods -> {Unused} \cup PodType]
    BY <1>0, <2>1, RetirePods
  <2> QED BY <1>0, <1>00, <2>1, <2>2, NodeTyped, FaultBound
<1>8. ASSUME NEW p \in Pods, DropPod(p) PROVE Typed'
  <2>1. UNCHANGED <<gateway, deploy, claims, mounts, blob, orphaned, rebooted, faults>> /\ Slot(p, Unused)
    BY <1>8 DEF DropPod, Only, volumes, Slot
  <2>2. pod' \in [Pods -> {Unused} \cup PodType]
    BY <1>0, <2>1, SlotTyped
  <2> QED BY <1>0, <1>00, <2>1, <2>2, NodeTyped, FaultBound
<1>9. ASSUME NEW p \in Pods, CsiStep(p) PROVE Typed'
  <2>1. /\ UNCHANGED <<gateway, deploy, rebooted>> /\ faults' \in 0 .. MaxFaults
        /\ claims' \subseteq Pods /\ mounts' \subseteq Pods
        /\ blob' \in BOOLEAN /\ orphaned' \in BOOLEAN
    BY <1>0, <1>9, CsiFrame, FaultBound
  <2>2. pod' \in [Pods -> {Unused} \cup PodType]
    BY <1>0, <1>9, CsiFrame, VolFields, SlotTyped
  <2> QED BY <1>00, <2>1, <2>2, NodeTyped
<1>10. CASE Watch
  <2>1. UNCHANGED <<gateway, deploy, pod, claims, mounts, orphaned, rebooted, faults>> /\ blob' = TRUE
    BY <1>10 DEF Watch, System
  <2>2. pod \in [Pods -> {Unused} \cup PodType] /\ faults \in 0 .. MaxFaults
    BY DEF Typed, TypeOK, PodType
  <2> QED BY <1>0, <1>00, <2>1, <2>2, NodeTyped
<1>11. CASE NodeReboots
  <2>1. /\ UNCHANGED <<gateway, deploy, claims, orphaned>> /\ Fault /\ mounts' \subseteq Pods
        /\ blob' = FALSE /\ rebooted' = TRUE
    BY <1>11 DEF NodeReboots
  <2>2. \A p \in Pods : pod'[p] \in {Unused} \cup PodType
    BY <1>0, <1>11, RebootPods
  <2>3. pod' \in [Pods -> {Unused} \cup PodType]
    BY <1>11, <2>2 DEF NodeReboots
  <2> QED BY <1>0, <1>00, <2>1, <2>3, NodeTyped, FaultBound
<1>12. CASE UNCHANGED vars
  BY <1>12 DEF vars, Typed, TypeOK, StartsExist, DeployedExist, Deployed
<1> QED
  BY <1>1, <1>2, <1>3, <1>4, <1>5, <1>6, <1>7, <1>8, <1>9, <1>10, <1>11, <1>12, ReconcileTyped
     DEF Next, Launcher, Kubelet, ContainerStep, CsiStep

(***************************************************************************)
(* Servers, requests, pods and the node's claims and mounts stay within    *)
(* their types; in particular a start never patches a server that is gone. *)
(***************************************************************************)
THEOREM TypeCorrect == Spec => []TypeOK
<1>1. Typed => TypeOK
  BY DEF Typed
<1> QED BY <1>1, InitTyped, TypedStep, PTL DEF Spec
-----------------------------------------------------------------------------
(***************************************************************************)
(* The volume of a pod: what the node has of it after each CSI call,       *)
(* repeated and failed ones included.  A "failed" volume may have any part *)
(* of it, but never a mount without its snapshot.  arma3server is up in a  *)
(* container that runs.                                                    *)
(***************************************************************************)
VolumeAt(p) ==
  /\ ~ Exists(p) => p \notin claims /\ p \notin mounts
  /\ Exists(p) =>
       /\ pod[p].ctr \notin {"none", "exited"} => pod[p].vol = "ready"
       /\ pod[p].vol = "new" => p \notin claims /\ p \notin mounts
       /\ pod[p].vol = "ready" => p \in claims /\ p \in mounts
       /\ pod[p].arma = "up" => pod[p].ctr \in ArmaStages
  /\ p \in mounts => p \in claims

VolInv == \A p \in Pods : VolumeAt(p)

\* Snapshots are skipped, and so left behind, only while the blob is unmounted.
LeakInv == (~ blob => rebooted) /\ (orphaned => rebooted)

\* Another pod's volume is not touched.
LEMMA OtherVolumes ==
  ASSUME VolInv, NEW p \in Pods, VolumeAt(p)',
         \A o \in Pods : o # p => pod'[o] = pod[o],
         \A o \in Pods : o # p => (o \in claims' <=> o \in claims) /\ (o \in mounts' <=> o \in mounts)
  PROVE  VolInv'
<1>1. ASSUME NEW o \in Pods, o # p PROVE VolumeAt(o)'
  <2>1. VolumeAt(o) /\ pod'[o] = pod[o]
    BY <1>1 DEF VolInv
  <2> QED BY <1>1, <2>1 DEF VolumeAt, Exists
<1> QED BY <1>1 DEF VolInv

LEMMA ExistsAfter ==
  ASSUME NEW p \in Pods
  PROVE  /\ pod'[p] \in PodType => Exists(p)'
         /\ pod'[p] = Unused => ~ Exists(p)'
BY DEF Exists, Unused, PodType

\* Pods that are retired keep their volumes.
LEMMA VolRetire ==
  ASSUME TypeOK, VolInv, UNCHANGED volumes, NEW P, NEW st \in {"deleted", "replaced"}, Retire(P, st)
  PROVE  VolInv'
<1>1. ASSUME NEW p \in Pods PROVE VolumeAt(p)'
  <2>1. VolumeAt(p) /\ claims' = claims /\ mounts' = mounts
    BY DEF VolInv, volumes
  <2>2. CASE pod'[p] = pod[p]
    BY <2>1, <2>2 DEF VolumeAt, Exists
  <2>3. CASE SameBut(p)
    BY <2>1, <2>3, ExistsAfter DEF VolumeAt, SameBut
  <2> QED BY <2>2, <2>3, RetirePods
<1> QED BY <1>1 DEF VolInv

\* The CSI calls, one pod at a time.
LEMMA VolCsi ==
  ASSUME Typed, VolInv, NEW p \in Pods, CsiStep(p) PROVE VolInv'
<1>0. TypeOK /\ Exists(p) /\ VolumeAt(p)
  BY CsiFrame DEF Typed, VolInv
<1>1. ASSUME NEW v \in VolStages, Vol(p, v), v # "new",
             pod[p].vol = "ready" => pod[p].ctr \in {"none", "exited"},
             v = "ready" => p \in claims' /\ p \in mounts', p \in mounts' => p \in claims',
             \A o \in Pods : o # p => (o \in claims' <=> o \in claims) /\ (o \in mounts' <=> o \in mounts)
      PROVE  VolInv'
  <2>1. PICK q : /\ Slot(p, q) /\ q \in PodType /\ q.vol = v /\ q.ctr = pod[p].ctr
                 /\ q.arma = pod[p].arma
    BY <1>0, <1>1, VolFields
  <2>2. pod'[p] = q /\ \A o \in Pods : o # p => pod'[o] = pod[o]
    BY <1>0, <2>1, SlotTyped
  <2>3. q.ctr \in {"none", "exited"} /\ (q.arma = "up" => q.ctr \in ArmaStages)
    BY <1>0, <1>1, <2>1 DEF VolumeAt
  <2>4. Exists(p)'
    BY <2>1, <2>2, ExistsAfter
  <2>5. VolumeAt(p)'
    BY <1>1, <2>1, <2>2, <2>3, <2>4 DEF VolumeAt
  <2> QED BY <1>1, <2>2, <2>5, OtherVolumes
<1>2. CASE NodePublishVolume(p)
  <2>1. Vol(p, "ready") /\ pod[p].vol \in {"new", "failed"}
    BY <1>2 DEF NodePublishVolume, PublishDue
  <2>2. CASE p \in mounts
    <3>1. claims' = claims /\ mounts' = mounts /\ p \in claims
      BY <1>0, <1>2, <2>2 DEF NodePublishVolume, VolumeAt
    <3> QED BY <1>1, <2>1, <2>2, <3>1 DEF VolStages
  <2>3. CASE p \notin mounts
    <3>1. claims' = claims \cup {p} /\ mounts' = mounts \cup {p}
      BY <1>2, <2>3 DEF NodePublishVolume
    <3> QED BY <1>1, <2>1, <3>1 DEF VolStages
  <2> QED BY <2>2, <2>3
<1>3. CASE PublishFails(p)
  <2>1. Vol(p, "failed") /\ pod[p].vol \in {"new", "failed"}
    BY <1>3 DEF PublishFails, PublishDue
  <2>2. CASE UNCHANGED <<claims, mounts>>
    BY <1>0, <1>1, <2>1, <2>2 DEF VolStages, VolumeAt
  <2>3. CASE claims' = claims \cup {p} /\ mounts' \in {mounts, mounts \cup {p}}
    BY <1>0, <1>1, <2>1, <2>3 DEF VolStages, VolumeAt
  <2> QED BY <1>3, <2>2, <2>3 DEF PublishFails
<1>4. CASE UnpublishFails(p)
  <2>1. Vol(p, "failed") /\ pod[p].ctr \in {"none", "exited"}
    BY <1>0, <1>4 DEF UnpublishFails, UnpublishDue, Alive
  <2>2. CASE UNCHANGED <<claims, mounts>>
    BY <1>0, <1>1, <2>1, <2>2 DEF VolStages, VolumeAt
  <2>3. CASE mounts' = mounts \ {p} /\ claims' \in {claims, IF blob THEN claims \ {p} ELSE claims}
    BY <1>0, <1>1, <2>1, <2>3 DEF VolStages, VolumeAt
  <2> QED BY <1>4, <2>2, <2>3 DEF UnpublishFails
<1>5. CASE NodeUnpublishVolume(p)
  <2>1. Slot(p, Unused) /\ mounts' = mounts \ {p} /\ claims' = claims \ {p}
    BY <1>5 DEF NodeUnpublishVolume, Slot
  <2>2. pod'[p] = Unused /\ \A o \in Pods : o # p => pod'[o] = pod[o]
    BY <1>0, <2>1, SlotTyped
  <2>3. VolumeAt(p)'
    BY <2>1, <2>2, ExistsAfter DEF VolumeAt
  <2> QED BY <2>1, <2>2, <2>3, OtherVolumes
<1> QED BY <1>2, <1>3, <1>4, <1>5 DEF CsiStep

LEMMA VolStep == Typed /\ VolInv /\ [Next]_vars => VolInv'
<1> SUFFICES ASSUME Typed, VolInv, [Next]_vars PROVE VolInv'
  OBVIOUS
<1>0. TypeOK
  BY DEF Typed
<1>1. CASE UNCHANGED <<pod, claims, mounts>>
  BY <1>1 DEF VolInv, VolumeAt, Exists
<1>2. ASSUME NEW p \in Pods, NEW s \in Servers, NEW client \in BOOLEAN, CreatePod(p, s, client)
      PROVE  VolInv'
  <2>1. PICK q : Slot(p, q) /\ q \in PodType /\ q.vol = "new" /\ q.ctr = "none" /\ q.arma = "none"
    BY <1>2, CreatePodSlot
  <2>2. pod'[p] = q /\ \A o \in Pods : o # p => pod'[o] = pod[o]
    BY <1>0, <2>1, SlotTyped
  <2>3. claims' = claims /\ mounts' = mounts /\ p \notin claims /\ p \notin mounts
    BY <1>2 DEF CreatePod, Only, volumes, VolInv, VolumeAt
  <2>4. VolumeAt(p)'
    BY <2>1, <2>2, <2>3, ExistsAfter DEF VolumeAt
  <2> QED BY <2>2, <2>3, <2>4, OtherVolumes
<1>3. ASSUME NEW p \in Pods, ContainerStep(p) PROVE VolInv'
  <2>1. PICK q : InContainer(p, q)
    BY <1>0, <1>3, ContainerSlot
  <2>2. pod'[p] = q /\ \A o \in Pods : o # p => pod'[o] = pod[o]
    BY <1>0, <2>1, SlotTyped DEF InContainer
  <2>3. claims' = claims /\ mounts' = mounts /\ Exists(p) /\ VolumeAt(p)
    BY <1>0, <1>3, ContainerFrame DEF volumes, VolInv
  <2>4. /\ q.vol = pod[p].vol /\ (q.ctr \notin {"none", "exited"} => q.vol = "ready")
        /\ q.arma = "up" => q.ctr \in ArmaStages
    BY <2>1, <2>3 DEF InContainer, VolumeAt, Alive
  <2>5. Exists(p)'
    BY <2>1, <2>2, ExistsAfter DEF InContainer
  <2>6. VolumeAt(p)'
    BY <2>2, <2>3, <2>4, <2>5 DEF VolumeAt
  <2> QED BY <2>2, <2>3, <2>6, OtherVolumes
<1>4. ASSUME NEW p \in Pods, RollClient(p) \/ Evict(p) PROVE VolInv'
  BY <1>0, <1>4, VolRetire DEF RollClient, Evict
<1>5. ASSUME NEW s \in Servers, Reconcile(s) PROVE VolInv'
  BY <1>0, <1>5, VolRetire DEF Reconcile, Roll, ScaleDown
<1>6. ASSUME NEW p \in Pods, DropPod(p) PROVE VolInv'
  <2>1. Slot(p, Unused) /\ mounts' = mounts /\ claims' = claims /\ Exists(p)
    BY <1>6 DEF DropPod, Only, volumes, Slot, Deleted, Exists
  <2>2. pod'[p] = Unused /\ \A o \in Pods : o # p => pod'[o] = pod[o]
    BY <1>0, <2>1, SlotTyped
  <2>3. p \notin claims' /\ p \notin mounts'
    BY <1>6, <2>1 DEF DropPod, VolInv, VolumeAt
  <2>4. VolumeAt(p)'
    BY <2>2, <2>3, ExistsAfter DEF VolumeAt
  <2> QED BY <2>1, <2>2, <2>4, OtherVolumes
<1>7. CASE NodeReboots
  <2>1. claims' = claims /\ mounts' = {}
    BY <1>7 DEF NodeReboots
  <2>2. ASSUME NEW p \in Pods PROVE VolumeAt(p)'
    <3>1. VolumeAt(p)
      BY DEF VolInv
    <3>2. CASE ~ Exists(p)
      BY <1>0, <1>7, <2>1, <3>1, <3>2, RebootPods, ExistsAfter DEF VolumeAt
    <3>3. CASE Exists(p)
      <4>1. pod'[p] \in PodType /\ pod'[p].ctr = "none" /\ pod'[p].arma = "none"
            /\ pod'[p].vol = IF pod[p].vol = "new" THEN "new" ELSE "failed"
        BY <1>0, <1>7, <3>3, RebootPods
      <4> QED BY <2>1, <3>1, <3>3, <4>1, ExistsAfter DEF VolumeAt
    <3> QED BY <3>2, <3>3
  <2> QED BY <2>2 DEF VolInv
<1>8. CASE Watch
  BY <1>1, <1>8 DEF Watch
<1>9. ASSUME NEW r \in Requests, NEW s \in Servers, NEW port \in Ports, CreateServer(r, s, port)
      PROVE  VolInv'
  BY <1>1, <1>9 DEF CreateServer, Checked, volumes
<1>10. ASSUME NEW r \in Requests, NEW s \in Servers, StartServer(r, s) PROVE VolInv'
  BY <1>1, <1>10 DEF StartServer, Checked, volumes
<1>11. ASSUME NEW r \in Requests, PatchServer(r) PROVE VolInv'
  BY <1>1, <1>11 DEF PatchServer, volumes
<1>12. ASSUME NEW s \in Servers, StopServer(s) PROVE VolInv'
  BY <1>1, <1>12 DEF StopServer, volumes
<1>13. CASE UNCHANGED vars
  BY <1>1, <1>13 DEF vars
<1> QED
  BY <1>2, <1>3, <1>4, <1>5, <1>6, <1>7, <1>8, <1>9, <1>10, <1>11, <1>12, <1>13, VolCsi
     DEF Next, Launcher, Kubelet, ContainerStep, CsiStep

LEMMA LeakStep == Typed /\ LeakInv /\ [Next]_vars => LeakInv'
<1> SUFFICES ASSUME Typed, LeakInv, [Next]_vars PROVE LeakInv'
  OBVIOUS
<1>0. TypeOK
  BY DEF Typed
<1>1. CASE UNCHANGED volumes \/ UNCHANGED vars
  BY <1>1 DEF LeakInv, volumes, vars
<1>2. ASSUME NEW p \in Pods, ContainerStep(p) \/ RollClient(p) \/ Evict(p) \/ DropPod(p) PROVE LeakInv'
  BY <1>0, <1>1, <1>2, ContainerFrame DEF RollClient, Evict, DropPod, Only
<1>3. ASSUME NEW p \in Pods, NEW s \in Servers, NEW client \in BOOLEAN, CreatePod(p, s, client)
      PROVE  LeakInv'
  BY <1>1, <1>3 DEF CreatePod, Only
<1>4. ASSUME NEW s \in Servers, Reconcile(s) \/ StopServer(s) PROVE LeakInv'
  BY <1>1, <1>4 DEF Reconcile, Roll, ScaleDown, StopServer
<1>5. ASSUME NEW p \in Pods, CsiStep(p) PROVE LeakInv'
  <2>1. CASE NodePublishVolume(p)
    BY <2>1 DEF NodePublishVolume, System, LeakInv
  <2>2. CASE NodeUnpublishVolume(p)
    BY <2>2 DEF NodeUnpublishVolume, System, LeakInv
  <2>3. CASE PublishFails(p)
    BY <2>3 DEF PublishFails, System, LeakInv
  <2>4. CASE UnpublishFails(p)
    BY <2>4 DEF UnpublishFails, System, LeakInv
  <2> QED BY <1>5, <2>1, <2>2, <2>3, <2>4 DEF CsiStep
<1>6. CASE Watch
  BY <1>6 DEF Watch, System, LeakInv
<1>7. CASE NodeReboots
  BY <1>7 DEF NodeReboots, LeakInv
<1>8. ASSUME NEW r \in Requests, NEW s \in Servers, NEW port \in Ports, CreateServer(r, s, port)
      PROVE  LeakInv'
  BY <1>1, <1>8 DEF CreateServer, Checked
<1>9. ASSUME NEW r \in Requests, NEW s \in Servers, StartServer(r, s) PROVE LeakInv'
  BY <1>1, <1>9 DEF StartServer, Checked
<1>10. ASSUME NEW r \in Requests, PatchServer(r) PROVE LeakInv'
  BY <1>1, <1>10 DEF PatchServer
<1> QED
  BY <1>1, <1>2, <1>3, <1>4, <1>5, <1>6, <1>7, <1>8, <1>9, <1>10
     DEF Next, Launcher, Kubelet, ContainerStep, CsiStep

(***************************************************************************)
(* NodePublishVolume and NodeUnpublishVolume for any number of pods and    *)
(* failures: a container runs on its own mounted snapshot, a pod that is   *)
(* gone has no mount, and it has left a snapshot behind only if the node   *)
(* has restarted.                                                          *)
(***************************************************************************)
THEOREM VolumesFollow == Spec => []VolumeFollowsPod
<1>1. Init => VolInv /\ LeakInv
  BY DEF Init, VolInv, VolumeAt, LeakInv, Exists, Unused
<1>2. VolInv /\ LeakInv => VolumeFollowsPod
  BY DEF VolInv, VolumeAt, LeakInv, VolumeFollowsPod, Alive
<1> QED BY <1>1, <1>2, VolStep, LeakStep, InitTyped, TypedStep, PTL DEF Spec

-----------------------------------------------------------------------------
(***************************************************************************)
(* Ports.  What a request found in its check still holds when it patches,  *)
(* unless another patch came between and marked it stale.                  *)
(***************************************************************************)
LEMMA OverlapSound ==
  ASSUME NEW a \in Nat, NEW b \in Nat
  PROVE  port_ranges_overlap(a, b) <=> port_range(a) \cap port_range(b) # {}
<1>1. CASE a <= b
  <2>1. ASSUME port_ranges_overlap(a, b) PROVE b \in port_range(a) \cap port_range(b)
    BY <1>1, <2>1 DEF port_ranges_overlap, port_range, PORT_RANGE_SIZE
  <2>2. ASSUME ~ port_ranges_overlap(a, b) PROVE port_range(a) \cap port_range(b) = {}
    BY <1>1, <2>2 DEF port_ranges_overlap, port_range, PORT_RANGE_SIZE
  <2> QED BY <2>1, <2>2
<1>2. CASE b <= a
  <2>1. ASSUME port_ranges_overlap(a, b) PROVE a \in port_range(a) \cap port_range(b)
    BY <1>2, <2>1 DEF port_ranges_overlap, port_range, PORT_RANGE_SIZE
  <2>2. ASSUME ~ port_ranges_overlap(a, b) PROVE port_range(a) \cap port_range(b) = {}
    BY <1>2, <2>2 DEF port_ranges_overlap, port_range, PORT_RANGE_SIZE
  <2> QED BY <2>1, <2>2
<1> QED BY <1>1, <1>2

\* No other server that is to run has a port of the range.
Clear(port, s) ==
  \A t \in Servers \ {s} : Running(t) => port_range(port) \cap port_range(spec[t].port) = {}

LEMMA NoConflictClear ==
  ASSUME Typed, NEW s \in Servers, NEW port \in Ports, NEW names, Servers \ {s} \subseteq names,
         names \subseteq Servers, ~ Conflicts(port, names)
  PROVE  Clear(port, s)
<1>1. ASSUME NEW t \in Servers \ {s}, Running(t)
      PROVE  port_range(port) \cap port_range(spec[t].port) = {}
  <2>1. spec[t].port \in Nat /\ port \in Nat
    BY <1>1, SpecKinds DEF Typed, ServerSpec
  <2>2. ~ port_ranges_overlap(port, spec[t].port)
    BY <1>1 DEF Conflicts
  <2> QED BY <2>1, <2>2, OverlapSound
<1> QED BY <1>1 DEF Clear

ChecksHold ==
  \A r \in Requests :
    req[r] # Idle /\ ~ req[r].stale =>
      /\ Clear(req[r].port, req[r].srv)
      /\ req[r].op = "start" => spec[req[r].srv].port = req[r].port

BookInv == ChecksHold /\ NoDoubleBooking

LEMMA BookChecked ==
  ASSUME Typed, BookInv, NEW r \in Requests, NEW op \in {"create", "start"}, NEW s \in Servers,
         NEW port \in Ports, Checked(r, op, s, port), Clear(port, s),
         op = "start" => spec[s].port = port /\ spec[s].desired # "absent"
  PROVE  BookInv'
<1>1. UNCHANGED <<spec, raced>>
  BY DEF Checked
<1>2. /\ req'[r] = [op |-> op, srv |-> s, port |-> port, stale |-> FALSE]
      /\ \A q \in Requests : q # r => req'[q] = req[q]
  BY CheckedTyped
<1>3. NoDoubleBooking'
  BY <1>1 DEF BookInv, NoDoubleBooking, Booked, Running
<1>4. \A t \in Servers : Running(t)' = Running(t) /\ spec'[t] = spec[t]
  BY <1>1 DEF Running
<1>5. ASSUME NEW q \in Requests, req'[q] # Idle, ~ req'[q].stale
      PROVE  /\ Clear(req[q].port, req[q].srv)'
             /\ req'[q].op = "start" => spec'[req'[q].srv].port = req'[q].port
  <2>1. CASE q = r
    BY <1>1, <1>2, <2>1 DEF Clear, Running
  <2>2. CASE q # r
    <3>1. req'[q] = req[q]
      BY <1>2, <2>2
    <3>2. Clear(req[q].port, req[q].srv) /\ (req[q].op = "start" => spec[req[q].srv].port = req[q].port)
      BY <1>5, <3>1 DEF BookInv, ChecksHold
    <3> QED BY <1>1, <3>1, <3>2 DEF Clear, Running
  <2> QED BY <2>1, <2>2
<1>6. ChecksHold'
  BY <1>5 DEF ChecksHold
<1> QED BY <1>3, <1>6 DEF BookInv

LEMMA BookPatch ==
  ASSUME Typed, BookInv, NEW r \in Requests, PatchServer(r) PROVE BookInv'
<1> DEFINE s == req[r].srv
<1>1. /\ req[r] \in ReqType /\ s \in Servers
      /\ spec'[s] = [port |-> PatchedPort(r), desired |-> "Running"]
      /\ \A t \in Servers : t # s => spec'[t] = spec[t]
      /\ \A q \in Requests : req'[q] # Idle => req'[q].stale
  BY PatchTyped DEF ReqType
<1>2. ChecksHold'
  BY <1>1 DEF ChecksHold
<1>3. ASSUME ~ raced' PROVE Booked'
  <2>1. ~ raced /\ ~ req[r].stale /\ req[r] # Idle
    BY <1>3 DEF PatchServer
  <2>2. Booked /\ Clear(req[r].port, s) /\ PatchedPort(r) = req[r].port
    BY <2>1 DEF BookInv, NoDoubleBooking, ChecksHold, PatchedPort
  <2>3. ASSUME NEW t \in Servers, NEW u \in Servers, t # u, Running(t)', Running(u)'
        PROVE  port_range(spec'[t].port) \cap port_range(spec'[u].port) = {}
    <3>1. CASE t # s /\ u # s
      BY <1>1, <2>2, <2>3, <3>1 DEF Booked, Running
    <3>2. CASE t = s
      <4>1. u # s /\ spec'[u] = spec[u] /\ Running(u) /\ spec'[t].port = req[r].port
        BY <1>1, <2>2, <2>3, <3>2 DEF Running
      <4> QED BY <2>2, <4>1 DEF Clear
    <3>3. CASE u = s
      <4>1. t # s /\ spec'[t] = spec[t] /\ Running(t) /\ spec'[u].port = req[r].port
        BY <1>1, <2>2, <2>3, <3>3 DEF Running
      <4> QED BY <2>2, <4>1 DEF Clear
    <3> QED BY <3>1, <3>2, <3>3
  <2> QED BY <2>3 DEF Booked
<1> QED BY <1>2, <1>3 DEF BookInv, NoDoubleBooking

LEMMA BookStop ==
  ASSUME Typed, BookInv, NEW s \in Servers, StopServer(s) PROVE BookInv'
<1>1. /\ spec'[s] = [port |-> spec[s].port, desired |-> "Stopped"]
      /\ \A t \in Servers : t # s => spec'[t] = spec[t]
  BY StopTyped
<1>2. req' = req /\ raced' = raced
  BY DEF StopServer
<1>3. \A t \in Servers : /\ spec'[t].port = spec[t].port
                         /\ Running(t)' => Running(t)
  BY <1>1 DEF Running
<1>4. NoDoubleBooking'
  BY <1>2, <1>3 DEF BookInv, NoDoubleBooking, Booked
<1>5. ASSUME NEW q \in Requests, req[q] # Idle, ~ req[q].stale
      PROVE  /\ Clear(req[q].port, req[q].srv)'
             /\ req[q].op = "start" => spec'[req[q].srv].port = req[q].port
  <2>1. req[q].srv \in Servers
    BY <1>5, ReqKinds DEF Typed, ReqType
  <2>2. Clear(req[q].port, req[q].srv) /\ (req[q].op = "start" => spec[req[q].srv].port = req[q].port)
    BY <1>5 DEF BookInv, ChecksHold
  <2> QED BY <1>2, <1>3, <2>1, <2>2 DEF Clear
<1>6. ChecksHold'
  BY <1>2, <1>5 DEF ChecksHold
<1> QED BY <1>4, <1>6 DEF BookInv

LEMMA BookStep == Typed /\ BookInv /\ [Next]_vars => BookInv'
<1> SUFFICES ASSUME Typed, BookInv, [Next]_vars PROVE BookInv'
  OBVIOUS
<1>0. TypeOK
  BY DEF Typed
<1>1. CASE UNCHANGED gateway
  <2>1. UNCHANGED <<spec, req, raced>>
    BY <1>1 DEF gateway
  <2> QED BY <2>1 DEF BookInv, ChecksHold, NoDoubleBooking, Booked, Clear, Running
<1>2. ASSUME NEW r \in Requests, NEW s \in Servers, NEW port \in Ports, CreateServer(r, s, port)
      PROVE  BookInv'
  <2>1. Clear(port, s)
    BY <1>2, NoConflictClear DEF CreateServer
  <2> QED BY <1>2, <2>1, BookChecked DEF CreateServer
<1>3. ASSUME NEW r \in Requests, NEW s \in Servers, StartServer(r, s) PROVE BookInv'
  <2>1. spec[s].port \in Ports /\ spec[s].desired # "absent"
    BY <1>0, <1>3, SpecKinds DEF StartServer, ServerSpec
  <2>2. Clear(spec[s].port, s)
    BY <1>3, <2>1, NoConflictClear DEF StartServer
  <2> QED BY <1>3, <2>1, <2>2, BookChecked DEF StartServer
<1>4. ASSUME NEW p \in Pods, ContainerStep(p) PROVE UNCHANGED gateway
  BY <1>0, <1>4, ContainerFrame
<1>5. ASSUME NEW p \in Pods, RollClient(p) \/ Evict(p) \/ DropPod(p) PROVE UNCHANGED gateway
  BY <1>5 DEF RollClient, Evict, DropPod, Only
<1>6. ASSUME NEW p \in Pods, CsiStep(p) PROVE UNCHANGED gateway
  BY <1>0, <1>6, CsiFrame
<1>7. ASSUME NEW p \in Pods, NEW s \in Servers, NEW client \in BOOLEAN, CreatePod(p, s, client)
      PROVE  UNCHANGED gateway
  BY <1>7 DEF CreatePod, Only
<1>8. CASE NodeReboots \/ Watch
  BY <1>1, <1>8 DEF NodeReboots, Watch, System
<1>9. CASE UNCHANGED vars
  BY <1>1, <1>9 DEF vars, gateway
<1>10. ASSUME NEW s \in Servers, Reconcile(s) PROVE UNCHANGED gateway
  BY <1>10 DEF Reconcile, Roll, ScaleDown
<1> QED
  BY <1>1, <1>2, <1>3, <1>4, <1>5, <1>6, <1>7, <1>8, <1>9, <1>10, BookPatch, BookStop
     DEF Next, Launcher, Kubelet, ContainerStep, CsiStep

(***************************************************************************)
(* check_port_conflict is sound for any servers and ports: as long as no   *)
(* patch followed a list that another patch had outdated, no two servers   *)
(* that are to run share a port.                                           *)
(***************************************************************************)
THEOREM PortsBookedOnce == Spec => []NoDoubleBooking
<1>1. Init => BookInv
  <2>1. Init => ChecksHold
    BY DEF Init, ChecksHold
  <2>2. Init => NoDoubleBooking
    BY DEF Init, NoDoubleBooking
  <2> QED BY <2>1, <2>2 DEF BookInv
<1>2. BookInv => NoDoubleBooking
  BY DEF BookInv
<1> QED BY <1>1, <1>2, BookStep, InitTyped, TypedStep, PTL DEF Spec

-----------------------------------------------------------------------------
(***************************************************************************)
(* launch.rs: once the handlers have caught the stop signal, no step of    *)
(* the launcher, of the kubelet's other work or of another pod ends        *)
(* arma3server with its container; only the kubelet's SIGKILL does, and a  *)
(* restart of the node.                                                    *)
(***************************************************************************)
Signalled(p) == Exists(p) /\ pod[p].arma = "up" /\ pod[p].sig \in {"caught", "forwarded"}
GoesByItself(p) ==
  Signalled(p) => Exists(p)' /\ (pod'[p].arma # "none" \/ pod'[p].sig \in {"killed", "none"})

THEOREM StopForwarded == Spec => StopReachesArma
<1>1. ASSUME Typed, VolInv, [Next]_vars PROVE [\A p \in Pods : GoesByItself(p)]_vars
  <2>0. TypeOK
    BY <1>1 DEF Typed
  <2>1. CASE pod' = pod
    BY <2>1 DEF GoesByItself, Signalled, Exists
  <2>2. ASSUME NEW o \in Pods, NEW q, Slot(o, q),
               Signalled(o) => q \in PodType /\ (q.arma # "none" \/ q.sig = "killed")
        PROVE  \A p \in Pods : GoesByItself(p)
    <3>1. pod'[o] = q /\ \A p \in Pods : p # o => pod'[p] = pod[p]
      BY <2>0, <2>2, SlotTyped
    <3>2. GoesByItself(o)
      BY <2>2, <3>1, ExistsAfter DEF GoesByItself
    <3>3. ASSUME NEW p \in Pods, p # o PROVE GoesByItself(p)
      BY <3>1, <3>3 DEF GoesByItself, Signalled, Exists
    <3> QED BY <3>2, <3>3
  <2>3. ASSUME NEW p \in Pods, ContainerStep(p) PROVE \A o \in Pods : GoesByItself(o)
    BY <2>0, <2>2, <2>3, ContainerSlot DEF InContainer, Signalled
  <2>4. ASSUME NEW P, NEW st \in {"deleted", "replaced"}, Retire(P, st)
        PROVE  \A o \in Pods : GoesByItself(o)
    <3>1. ASSUME NEW o \in Pods PROVE GoesByItself(o)
      <4>1. CASE pod'[o] = pod[o]
        BY <4>1 DEF GoesByItself, Signalled, Exists
      <4>2. CASE SameBut(o)
        BY <4>2, ExistsAfter DEF GoesByItself, Signalled, SameBut
      <4> QED BY <2>0, <2>4, <4>1, <4>2, RetirePods
    <3> QED BY <3>1
  <2>5. ASSUME NEW p \in Pods, ~ Alive(p), Slot(p, Unused) PROVE \A o \in Pods : GoesByItself(o)
    <3>1. ~ Signalled(p)
      BY <1>1, <2>5 DEF VolInv, VolumeAt, Alive, Signalled, ArmaStages
    <3> QED BY <2>2, <2>5, <3>1
  <2>6. ASSUME NEW p \in Pods, DropPod(p) \/ NodeUnpublishVolume(p) PROVE \A o \in Pods : GoesByItself(o)
    BY <2>5, <2>6 DEF DropPod, NodeUnpublishVolume, UnpublishDue, Slot
  <2>7. ASSUME NEW p \in Pods, NEW v \in VolStages, Vol(p, v), Exists(p) PROVE \A o \in Pods : GoesByItself(o)
    BY <2>0, <2>2, <2>7, VolFields DEF Signalled
  <2>8. ASSUME NEW p \in Pods, NodePublishVolume(p) \/ PublishFails(p) \/ UnpublishFails(p)
        PROVE  \A o \in Pods : GoesByItself(o)
    <3>1. Exists(p)
      BY <2>0, <2>8, CsiFrame DEF CsiStep
    <3>2. \E v \in VolStages : Vol(p, v)
      BY <2>8 DEF NodePublishVolume, PublishFails, UnpublishFails, VolStages
    <3> QED BY <2>7, <3>1, <3>2
  <2>9. ASSUME NEW p \in Pods, NEW s \in Servers, NEW client \in BOOLEAN, CreatePod(p, s, client)
        PROVE  \A o \in Pods : GoesByItself(o)
    <3>1. ~ Signalled(p)
      BY <2>9 DEF CreatePod, Signalled
    <3> QED BY <1>1, <2>2, <2>9, <3>1, CreatePodSlot
  <2>10. CASE NodeReboots
    <3>1. ASSUME NEW p \in Pods, Exists(p) PROVE Exists(p)' /\ pod'[p].sig = "none"
      BY <2>0, <2>10, <3>1, RebootPods, ExistsAfter
    <3> QED BY <3>1 DEF GoesByItself, Signalled
  <2>11. ASSUME NEW r \in Requests, NEW s \in Servers, NEW port \in Ports, CreateServer(r, s, port)
         PROVE  pod' = pod
    BY <2>11 DEF CreateServer, Checked
  <2>12. ASSUME NEW r \in Requests, NEW s \in Servers, StartServer(r, s) PROVE pod' = pod
    BY <2>12 DEF StartServer, Checked
  <2>13. ASSUME NEW r \in Requests, PatchServer(r) PROVE pod' = pod
    BY <2>13 DEF PatchServer
  <2>14. ASSUME NEW s \in Servers, StopServer(s) PROVE pod' = pod
    BY <2>14 DEF StopServer
  <2>15. CASE Watch
    BY <2>1, <2>15 DEF Watch
  <2>16. ASSUME NEW s \in Servers, Reconcile(s) PROVE \A o \in Pods : GoesByItself(o)
    BY <2>4, <2>16 DEF Reconcile, Roll, ScaleDown
  <2>17. ASSUME NEW p \in Pods, RollClient(p) \/ Evict(p) PROVE \A o \in Pods : GoesByItself(o)
    BY <2>4, <2>17 DEF RollClient, Evict
  <2> QED
    BY <1>1, <2>1, <2>3, <2>6, <2>8, <2>9, <2>10, <2>11, <2>12, <2>13, <2>14, <2>15, <2>16, <2>17
       DEF Next, Launcher, Kubelet, ContainerStep
<1>2. ASSUME Typed, VolInv, [Next]_vars
      PROVE  [\A p \in Pods :
                Exists(p) /\ pod[p].arma = "up" /\ pod[p].sig \in {"caught", "forwarded"}
                  => Exists(p)' /\ (pod'[p].arma # "none" \/ pod'[p].sig \in {"killed", "none"})]_vars
  BY <1>1, <1>2 DEF GoesByItself, Signalled
<1>3. Init => VolInv
  BY DEF Init, VolInv, VolumeAt, Exists, Unused
<1> QED BY <1>2, <1>3, InitTyped, TypedStep, VolStep, PTL DEF Spec, StopReachesArma
=============================================================================
