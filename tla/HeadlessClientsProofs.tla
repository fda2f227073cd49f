------------------------ MODULE HeadlessClientsProofs ------------------------
(***************************************************************************)
(* Proofs about HeadlessClients, for every number of clients, selections   *)
(* and faults: types, the finalizer's promise that no client process       *)
(* outlives its object, and that every client implements Finalizer.        *)
(***************************************************************************)
EXTENDS HeadlessClients, TLAPS

USE ClientsAssumption, BoundsAssumption

LEMMA NoneFresh == None \notin Selections
BY DEF None, Selections

LEMMA InitTypeOK == Init => TypeOK
BY DEF Init, TypeOK, Servers, SrvPcs, Settled, RecPcs, Phases, Objects, NoObject, IdleRec, Indices,
       Selections, None

\* What an action may make of a reconcile and of an object keeps their types.
LEMMA RecPatches ==
  ASSUME TypeOK, NEW i \in Indices
  PROVE  /\ \A pc \in RecPcs : [rec EXCEPT ![i].pc = pc] \in [Indices -> [pc : RecPcs, mods : Selections]]
         /\ [rec EXCEPT ![i] = IdleRec] \in [Indices -> [pc : RecPcs, mods : Selections]]
<1>1. IdleRec \in [pc : RecPcs, mods : Selections]
  BY DEF IdleRec, RecPcs, Selections
<1> QED BY <1>1 DEF TypeOK

LEMMA ObjectPatches ==
  ASSUME NEW o \in Objects
  PROVE  /\ NoObject \in Objects
         /\ [o EXCEPT !.live = "deleting"] \in Objects
         /\ [o EXCEPT !.live = "present"] \in Objects
         /\ [o EXCEPT !.fin = TRUE] \in Objects
BY DEF Objects, NoObject

LEMMA FirstStepKind ==
  ASSUME NEW o \in Objects
  PROVE  /\ FirstStep(o) \in {"idle", "addFinalizer", "getServer", "deleteDeployment"}
         /\ FirstStep(o) = "addFinalizer" => o.live = "present" /\ ~ o.fin
         /\ FirstStep(o) = "getServer" => o.live = "present" /\ o.fin
         /\ FirstStep(o) = "deleteDeployment" => o.live = "deleting" /\ o.fin
BY DEF FirstStep, Objects

\* Every step keeps every variable in its type.
LEMMA TypeStep == TypeOK /\ [Next]_vars => TypeOK'
<1> SUFFICES ASSUME TypeOK, [Next]_vars PROVE TypeOK'
  OBVIOUS
<1> USE DEF TypeOK, Servers
<1>1. CASE StartServer \/ StopServer \/ DeleteServer
  BY <1>1 DEF StartServer, StopServer, DeleteServer, Pass, SrvPcs, Settled
<1>2. CASE UpdateServer
  <2>1. PICK m \in Selections : srv' = [srv EXCEPT !.pc = "list", !.goal = srv.pc, !.mods = m]
    BY <1>2 DEF UpdateServer, ModsChoice
  <2>2. srv.del = {} /\ srv.add = {} /\ srv.pc \in Settled
    BY <1>2 DEF UpdateServer, Settled
  <2>3. /\ srv' \in Servers
        /\ srv'.del = {} /\ srv'.add = {}
    BY <2>1, <2>2 DEF SrvPcs
  <2> QED BY <1>2, <2>3 DEF UpdateServer
<1>20. CASE EditClients
  <2>1. PICK w \in 0 .. MaxClients : srv' = [srv EXCEPT !.want = w]
    BY <1>20 DEF EditClients
  <2>2. /\ srv' \in Servers
        /\ srv'.pc # "apply" => srv'.del = {} /\ srv'.add = {}
    BY <2>1
  <2> QED BY <1>20, <2>2 DEF EditClients
<1>21. CASE CreateServer
  <2>1. PICK m \in Selections, p \in {"running", "list"} :
          srv' = [srv EXCEPT !.pc = p, !.goal = "running", !.want = 0, !.mods = m]
    BY <1>21 DEF CreateServer, ModsChoice
  <2>2. srv.del = {} /\ srv.add = {}
    BY <1>21 DEF CreateServer, Settled
  <2>3. /\ srv' \in Servers
        /\ srv'.del = {} /\ srv'.add = {}
    <3>1. p \in SrvPcs /\ "running" \in Settled /\ 0 \in 0 .. MaxClients
      BY DEF SrvPcs, Settled
    <3> QED BY <2>1, <2>2, <3>1
  <2> QED BY <1>21, <2>3 DEF CreateServer
<1>3. CASE List
  <2>1. Target \in 0 .. MaxClients /\ Desired \subseteq Indices
    BY DEF Target, Desired
  <2>2. PICK d \in SUBSET Indices, a \in SUBSET Indices :
          srv' = [srv EXCEPT !.pc = "apply", !.count = Target, !.del = d, !.add = a]
    BY <1>3, <2>1 DEF List
  <2>3. srv' \in Servers /\ srv'.pc = "apply"
    BY <2>1, <2>2 DEF SrvPcs
  <2> QED BY <1>3, <2>3 DEF List
<1>4. CASE PassDone
  <2>1. PICK w \in 0 .. MaxClients : srv' = [srv EXCEPT !.pc = srv.goal, !.want = w]
    <3>1. (IF srv.goal = "gone" THEN 0 ELSE srv.want) \in 0 .. MaxClients
      OBVIOUS
    <3> QED BY <1>4, <3>1, Zenon DEF PassDone
  <2>2. srv.goal \in SrvPcs
    BY DEF SrvPcs
  <2>3. srv' \in Servers /\ srv'.del = {} /\ srv'.add = {}
    BY <1>4, <2>1, <2>2 DEF PassDone
  <2> QED BY <1>4, <2>3 DEF PassDone
<1>5. ASSUME NEW i \in Indices, DeleteClient(i) PROVE TypeOK'
  <2>1. hc[i] \in Objects
    OBVIOUS
  <2>2. hc' \in [Indices -> Objects]
    BY <1>5, <2>1, ObjectPatches DEF DeleteClient
  <2>3. phase' \in [Indices -> Phases]
    BY <1>5 DEF DeleteClient, Phases
  <2> QED BY <1>5, <2>2, <2>3 DEF DeleteClient
<1>6. ASSUME NEW i \in Indices, CreateClient(i) PROVE TypeOK'
  <2>1. hc' = [hc EXCEPT ![i] = [hc[i] EXCEPT !.live = "present"]]
    BY <1>6 DEF CreateClient
  <2>2. hc' \in [Indices -> Objects]
    BY <2>1, ObjectPatches
  <2> QED BY <1>6, <2>2 DEF CreateClient
<1>7. CASE PassFails
  <2>1. /\ srv' \in Servers
        /\ srv'.del = {} /\ srv'.add = {}
    BY <1>7 DEF PassFails, SrvPcs, Settled
  <2>2. faults' \in 0 .. MaxFaults
    BY <1>7 DEF PassFails, Fault
  <2> QED BY <1>7, <2>1, <2>2 DEF PassFails
<1>8. CASE ControllerRestart
  <2>1. rec' \in [Indices -> [pc : RecPcs, mods : Selections]]
    BY <1>8 DEF ControllerRestart, IdleRec, RecPcs, Selections
  <2>2. /\ srv' \in Servers
        /\ srv'.del = {} /\ srv'.add = {}
    BY <1>8 DEF ControllerRestart, SrvPcs, Settled
  <2>3. faults' \in 0 .. MaxFaults
    BY <1>8 DEF ControllerRestart, Fault
  <2> QED BY <1>8, <2>1, <2>2, <2>3 DEF ControllerRestart
<1>9. ASSUME NEW i \in Indices, Watch(i) PROVE TypeOK'
  BY <1>9 DEF Watch
<1>10. ASSUME NEW i \in Indices, ReconcileHc(i) PROVE TypeOK'
  <2>1. FirstStep(cache[i]) \in RecPcs
    BY FirstStepKind DEF RecPcs
  <2> QED BY <1>10, <2>1, RecPatches DEF ReconcileHc, Step
<1>11. ASSUME NEW i \in Indices, AddFinalizer(i) PROVE TypeOK'
  <2>1. hc' = hc \/ hc' = [hc EXCEPT ![i] = [hc[i] EXCEPT !.fin = TRUE]]
    BY <1>11 DEF AddFinalizer
  <2>2. hc' \in [Indices -> Objects]
    <3>1. hc[i] \in Objects
      OBVIOUS
    <3> QED BY <2>1, <3>1, ObjectPatches
  <2> QED BY <1>11, <2>2, RecPatches DEF AddFinalizer, End
<1>12. ASSUME NEW i \in Indices, GetServer(i) PROVE TypeOK'
  BY <1>12 DEF GetServer, IdleRec, RecPcs, Selections
<1>13. ASSUME NEW i \in Indices, EnsureHcDeployment(i) PROVE TypeOK'
  <2>1. rec[i].mods \in Selections
    OBVIOUS
  <2>2. deploy' \in [Indices -> Selections \cup {None}]
    BY <1>13, <2>1 DEF EnsureHcDeployment
  <2>3. rec' \in [Indices -> [pc : RecPcs, mods : Selections]]
    <3>1. [IdleRec EXCEPT !.pc = "setRunning"] \in [pc : RecPcs, mods : Selections]
      BY DEF IdleRec, RecPcs, Selections
    <3> QED BY <1>13, <3>1 DEF EnsureHcDeployment
  <2> QED BY <1>13, <2>2, <2>3 DEF EnsureHcDeployment
<1>14. ASSUME NEW i \in Indices, DeploymentRefused(i) PROVE TypeOK'
  <2>1. faults' \in 0 .. MaxFaults
    BY <1>14 DEF DeploymentRefused, Fault
  <2> QED BY <1>14, <2>1, RecPatches DEF DeploymentRefused, Step, RecPcs
<1>15. ASSUME NEW i \in Indices, SetHcStatus(i) PROVE TypeOK'
  <2>1. phase' \in [Indices -> Phases]
    BY <1>15 DEF SetHcStatus, Phases
  <2> QED BY <1>15, <2>1, RecPatches DEF SetHcStatus
<1>16. ASSUME NEW i \in Indices, DeleteHcDeployment(i) PROVE TypeOK'
  <2>1. rec' \in [Indices -> [pc : RecPcs, mods : Selections]]
    BY <1>16, RecPatches DEF DeleteHcDeployment, Step, RecPcs
  <2>2. deploy' \in [Indices -> Selections \cup {None}]
    BY <1>16 DEF DeleteHcDeployment
  <2> QED BY <1>16, <2>1, <2>2 DEF DeleteHcDeployment
<1>17. ASSUME NEW i \in Indices, RemoveFinalizer(i) PROVE TypeOK'
  <2>1. hc[i] \in Objects
    OBVIOUS
  <2>2. hc' = hc \/ hc' = [hc EXCEPT ![i] = NoObject]
    BY <1>17 DEF RemoveFinalizer
  <2>3. hc' \in [Indices -> Objects]
    BY <2>1, <2>2, ObjectPatches
  <2> QED BY <1>17, <2>3, RecPatches DEF RemoveFinalizer, End
<1>18. ASSUME NEW i \in Indices, HcError(i) PROVE TypeOK'
  BY <1>18, RecPatches DEF HcError, Fault
<1>19. CASE UNCHANGED vars
  BY <1>19 DEF vars
<1> QED
  BY <1>1, <1>2, <1>3, <1>4, <1>5, <1>6, <1>7, <1>8, <1>9, <1>10, <1>11, <1>12, <1>13, <1>14,
     <1>15, <1>16, <1>17, <1>18, <1>19, <1>20, <1>21 DEF Next, ServerPass, HcReconcile

(***************************************************************************)
(* The server's plan, the client objects, the cache and every reconcile of *)
(* reconcile_hc stay within their types on every interleaving.             *)
(***************************************************************************)
THEOREM TypeCorrect == Spec => []TypeOK
BY InitTypeOK, TypeStep, PTL DEF Spec

-----------------------------------------------------------------------------
(***************************************************************************)
(* Why the finalizer works although reconciles run on stale copies.        *)
(***************************************************************************)
\* The API server keeps a deleted object only for its finalizer; and what a pass
\* has yet to create is not there.
ObjInv ==
  /\ \A i \in Indices : hc[i].live = "none" => ~ hc[i].fin
  /\ \A i \in Indices : hc[i].live = "deleting" => hc[i].fin
  /\ \A i \in srv.add : hc[i].live = "none"

\* A copy with the finalizer is of an object that still has it; a copy under
\* deletion is never older than one that has it.
CacheInv ==
  \A i \in Indices :
    /\ cache[i].live = "present" /\ cache[i].fin => hc[i].fin
    /\ cache[i].live = "deleting" => hc[i].live = "deleting" \/ ~ hc[i].fin

ApplyPcs == {"getServer", "deploy", "setRunning", "setFailed"}
CleanupPcs == {"deleteDeployment", "removeFinalizer"}

RecInv ==
  \A i \in Indices :
    /\ rec[i].pc = "addFinalizer" /\ ~ hc[i].fin => cache[i].live # "deleting"
    /\ rec[i].pc \in ApplyPcs => hc[i].fin
    /\ rec[i].pc \in CleanupPcs =>
         /\ hc[i].live = "deleting" \/ ~ hc[i].fin
         /\ ~ (cache[i].live = "present" /\ cache[i].fin)

\* Only an object with the finalizer has a Deployment.
ClusterInv ==
  \A i \in Indices :
    /\ ~ hc[i].fin => deploy[i] = None
    /\ rec[i].pc = "removeFinalizer" => deploy[i] = None

FinInv == TypeOK /\ ObjInv /\ CacheInv /\ RecInv /\ ClusterInv

LEMMA InitFinInv == Init => FinInv
<1> SUFFICES ASSUME Init PROVE FinInv
  OBVIOUS
<1>1. srv.add = {}
  BY DEF Init
<1>2. \A i \in Indices :
        /\ hc[i].live = "none" /\ ~ hc[i].fin /\ cache[i].live = "none"
        /\ rec[i].pc = "idle" /\ deploy[i] = None
  BY DEF Init, NoObject, IdleRec
<1> QED
  BY <1>1, <1>2, InitTypeOK DEF FinInv, ObjInv, CacheInv, RecInv, ClusterInv, ApplyPcs, CleanupPcs

LEMMA FinStep == FinInv /\ [Next]_vars => FinInv'
<1> SUFFICES ASSUME FinInv, [Next]_vars PROVE FinInv'
  OBVIOUS
<1>0. TypeOK'
  BY TypeStep DEF FinInv
<1> USE DEF FinInv, ObjInv, CacheInv, RecInv, ClusterInv, ApplyPcs, CleanupPcs
<1>1. CASE StartServer \/ StopServer \/ DeleteServer
  <2>1. srv' = [srv EXCEPT !.pc = srv'.pc, !.goal = srv'.goal]
    BY <1>1 DEF StartServer, StopServer, DeleteServer, Pass, TypeOK, Servers
  <2>2. srv'.add = srv.add
    BY <2>1 DEF TypeOK, Servers
  <2> QED BY <1>0, <1>1, <2>2 DEF StartServer, StopServer, DeleteServer
<1>2. CASE UpdateServer \/ EditClients \/ CreateServer
  <2>1. srv'.add = srv.add
    BY <1>2 DEF UpdateServer, EditClients, CreateServer, TypeOK, Servers
  <2> QED BY <1>0, <1>2, <2>1 DEF UpdateServer, EditClients, CreateServer
<1>3. CASE List
  BY <1>0, <1>3 DEF List, Desired, TypeOK, Servers
<1>4. CASE PassDone
  BY <1>0, <1>4 DEF PassDone, TypeOK
<1>5. ASSUME NEW i \in Indices, DeleteClient(i) PROVE FinInv'
  <2>1. /\ hc[i].fin => hc'[i].live = "deleting" /\ hc'[i].fin
        /\ ~ hc[i].fin => hc'[i].live = "none" /\ ~ hc'[i].fin
        /\ \A k \in Indices : k # i => hc'[k] = hc[k]
    BY <1>5 DEF DeleteClient, TypeOK, Objects, NoObject
  <2>2. srv'.add = srv.add /\ srv.add \subseteq Indices
    BY <1>5 DEF DeleteClient, TypeOK, Servers
  <2>3. UNCHANGED <<cache, rec, deploy>>
    BY <1>5 DEF DeleteClient
  <2>4. ObjInv'
    BY <2>1, <2>2
  <2>5. CacheInv'
    BY <2>1, <2>3
  <2>6. RecInv'
    BY <2>1, <2>3
  <2>7. ClusterInv'
    BY <2>1, <2>3
  <2> QED BY <1>0, <2>4, <2>5, <2>6, <2>7
<1>6. ASSUME NEW i \in Indices, CreateClient(i) PROVE FinInv'
  <2>1. /\ hc'[i].live = "present" /\ hc'[i].fin = hc[i].fin
        /\ \A k \in Indices : k # i => hc'[k] = hc[k]
    BY <1>6 DEF CreateClient, TypeOK, Objects
  <2>2. srv'.add = srv.add \ {i} /\ srv.add \subseteq Indices /\ i \in srv.add
    BY <1>6 DEF CreateClient, TypeOK, Servers
  <2>3. UNCHANGED <<cache, rec, deploy>>
    BY <1>6 DEF CreateClient
  <2>4. hc[i].live = "none" /\ ~ hc[i].fin
    BY <2>2
  <2>5. ObjInv'
    BY <2>1, <2>2
  <2>6. CacheInv'
    BY <2>1, <2>3, <2>4
  <2>7. RecInv'
    BY <2>1, <2>3, <2>4
  <2>8. ClusterInv'
    BY <2>1, <2>3
  <2> QED BY <1>0, <2>5, <2>6, <2>7, <2>8
<1>7. CASE PassFails
  BY <1>0, <1>7 DEF PassFails, TypeOK
<1>8. CASE ControllerRestart
  BY <1>0, <1>8 DEF ControllerRestart, TypeOK, IdleRec
<1>9. ASSUME NEW i \in Indices, Watch(i) PROVE FinInv'
  BY <1>0, <1>9 DEF Watch, TypeOK
<1>10. ASSUME NEW i \in Indices, ReconcileHc(i) PROVE FinInv'
  <2>1. cache[i] \in Objects
    BY DEF TypeOK
  <2> QED BY <1>0, <1>10, <2>1, FirstStepKind DEF ReconcileHc, Step, TypeOK
<1>11. ASSUME NEW i \in Indices, AddFinalizer(i) PROVE FinInv'
  BY <1>0, <1>11 DEF AddFinalizer, End, IdleRec, TypeOK, Objects
<1>12. ASSUME NEW i \in Indices, GetServer(i) PROVE FinInv'
  BY <1>0, <1>12 DEF GetServer, IdleRec, TypeOK
<1>13. ASSUME NEW i \in Indices, EnsureHcDeployment(i) PROVE FinInv'
  BY <1>0, <1>13 DEF EnsureHcDeployment, IdleRec, TypeOK
<1>14. ASSUME NEW i \in Indices, DeploymentRefused(i) PROVE FinInv'
  BY <1>0, <1>14 DEF DeploymentRefused, Step, TypeOK
<1>15. ASSUME NEW i \in Indices, SetHcStatus(i) PROVE FinInv'
  BY <1>0, <1>15 DEF SetHcStatus, IdleRec, TypeOK
<1>16. ASSUME NEW i \in Indices, DeleteHcDeployment(i) PROVE FinInv'
  BY <1>0, <1>16 DEF DeleteHcDeployment, Step, TypeOK
<1>17. ASSUME NEW i \in Indices, RemoveFinalizer(i) PROVE FinInv'
  <2>1. /\ rec[i].pc = "removeFinalizer" /\ rec'[i].pc = "idle"
        /\ \A k \in Indices : k # i => rec'[k] = rec[k]
    BY <1>17 DEF RemoveFinalizer, End, IdleRec, TypeOK
  <2>2. UNCHANGED <<srv, cache, deploy>>
    BY <1>17 DEF RemoveFinalizer
  <2>3. deploy[i] = None /\ ~ (cache[i].live = "present" /\ cache[i].fin)
    BY <2>1
  <2>4. CASE hc[i].live = "deleting"
    <3>1. /\ hc'[i].live = "none" /\ ~ hc'[i].fin
          /\ \A k \in Indices : k # i => hc'[k] = hc[k]
      BY <1>17, <2>4 DEF RemoveFinalizer, TypeOK, NoObject
    <3>2. srv.add \subseteq Indices
      BY DEF TypeOK, Servers
    <3>3. ObjInv'
      BY <3>1, <3>2, <2>2
    <3>4. CacheInv'
      BY <3>1, <2>2, <2>3
    <3>5. RecInv'
      BY <3>1, <2>1, <2>2
    <3>6. ClusterInv'
      BY <3>1, <2>1, <2>2, <2>3
    <3> QED BY <1>0, <3>3, <3>4, <3>5, <3>6
  <2>5. CASE hc[i].live # "deleting"
    <3>1. hc' = hc
      BY <1>17, <2>5 DEF RemoveFinalizer
    <3>2. ObjInv' /\ CacheInv'
      BY <3>1, <2>2
    <3>3. RecInv' /\ ClusterInv'
      BY <3>1, <2>1, <2>2
    <3> QED BY <1>0, <3>2, <3>3
  <2> QED BY <2>4, <2>5
<1>18. ASSUME NEW i \in Indices, HcError(i) PROVE FinInv'
  BY <1>0, <1>18 DEF HcError, IdleRec, TypeOK
<1>19. CASE UNCHANGED vars
  BY <1>0, <1>19 DEF vars
<1> QED
  BY <1>1, <1>2, <1>3, <1>4, <1>5, <1>6, <1>7, <1>8, <1>9, <1>10, <1>11, <1>12, <1>13, <1>14,
     <1>15, <1>16, <1>17, <1>18, <1>19 DEF Next, ServerPass, HcReconcile

(***************************************************************************)
(* hc_cleanup behind the finalizer keeps its promise for any number of     *)
(* clients: whatever the lag of the cache, the failures, the restarts and  *)
(* the deletions during hc_apply, a HeadlessClient that is gone has no     *)
(* Deployment.                                                             *)
(***************************************************************************)
THEOREM NoClientLeftBehind == Spec => []HcGoneLeavesNothing
<1>1. FinInv => HcGoneLeavesNothing
  BY DEF FinInv, ObjInv, ClusterInv, HcGoneLeavesNothing
<1> QED BY <1>1, InitFinInv, FinStep, PTL DEF Spec

-----------------------------------------------------------------------------
\* Every step is, for every client, a step of its abstract finalizer or none.
LEMMA FinalizerStep ==
  ASSUME FinInv, [Next]_vars, NEW k \in Indices
  PROVE  [Finalizer(k)!Next]_(Finalizer(k)!vars)
<1>f. /\ hc \in [Indices -> Objects] /\ deploy \in [Indices -> Selections \cup {None}]
      /\ hc[k] \in Objects /\ hc[k].fin \in BOOLEAN
      /\ ~ hc[k].fin => deploy[k] = None
  BY DEF FinInv, TypeOK, Objects, ClusterInv
<1>s. ASSUME hc'[k] = hc[k], deploy'[k] = deploy[k] PROVE [Finalizer(k)!Next]_(Finalizer(k)!vars)
  BY <1>s DEF Finalizer!vars
<1>1. CASE UNCHANGED <<hc, deploy>>
  BY <1>1, <1>s
<1>2. ASSUME NEW i \in Indices, DeleteClient(i) PROVE [Finalizer(k)!Next]_(Finalizer(k)!vars)
  <2>1. deploy' = deploy
    BY <1>2 DEF DeleteClient
  <2>2. CASE i # k
    BY <1>2, <1>f, <1>s, <2>1, <2>2 DEF DeleteClient
  <2>3. CASE i = k /\ hc[k].fin
    <3>1. hc'[k].live = "deleting" /\ hc'[k].fin = hc[k].fin
      BY <1>2, <1>f, <2>3 DEF DeleteClient, Objects
    <3>2. hc[k].live \in {"present", "deleting"}
      BY <1>f, <2>3 DEF FinInv, ObjInv, Objects
    <3> QED BY <2>1, <2>3, <3>1, <3>2 DEF Finalizer!Next, Finalizer!Delete, Finalizer!vars
  <2>4. CASE i = k /\ ~ hc[k].fin
    <3>1. hc'[k].live = "none" /\ hc'[k].fin = hc[k].fin
      BY <1>2, <1>f, <2>4 DEF DeleteClient, NoObject
    <3>2. hc[k].live \in {"present", "none"}
      BY <1>f, <2>4 DEF FinInv, ObjInv, Objects
    <3> QED BY <2>1, <2>4, <3>1, <3>2 DEF Finalizer!Next, Finalizer!Delete, Finalizer!vars
  <2> QED BY <2>2, <2>3, <2>4
<1>3. ASSUME NEW i \in Indices, CreateClient(i) PROVE [Finalizer(k)!Next]_(Finalizer(k)!vars)
  <2>1. deploy' = deploy
    BY <1>3 DEF CreateClient
  <2>2. CASE i # k
    BY <1>3, <1>f, <1>s, <2>1, <2>2 DEF CreateClient
  <2>3. CASE i = k
    <3>1. hc'[k].live = "present" /\ hc'[k].fin = hc[k].fin
      BY <1>3, <1>f, <2>3 DEF CreateClient, Objects
    <3>2. hc[k].live = "none"
      BY <1>3, <2>3 DEF CreateClient, FinInv, ObjInv
    <3> QED BY <2>1, <3>1, <3>2 DEF Finalizer!Next, Finalizer!Create
  <2> QED BY <2>2, <2>3
<1>4. ASSUME NEW i \in Indices, AddFinalizer(i) PROVE [Finalizer(k)!Next]_(Finalizer(k)!vars)
  <2>1. deploy' = deploy
    BY <1>4 DEF AddFinalizer
  <2>2. CASE i # k \/ hc[k].live # "present"
    BY <1>4, <1>f, <1>s, <2>1, <2>2 DEF AddFinalizer
  <2>3. CASE i = k /\ hc[k].live = "present"
    <3>1. hc'[k].live = hc[k].live /\ hc'[k].fin = TRUE
      BY <1>4, <1>f, <2>3 DEF AddFinalizer, Objects
    <3> QED BY <1>f, <2>1, <2>3, <3>1 DEF Finalizer!Next, Finalizer!Guard, Finalizer!vars
  <2> QED BY <2>2, <2>3
<1>5. ASSUME NEW i \in Indices, EnsureHcDeployment(i) PROVE [Finalizer(k)!Next]_(Finalizer(k)!vars)
  <2>1. hc' = hc
    BY <1>5 DEF EnsureHcDeployment
  <2>2. CASE i # k
    BY <1>5, <1>f, <1>s, <2>1, <2>2 DEF EnsureHcDeployment
  <2>3. CASE i = k
    <3>1. hc[k].fin
      BY <1>5, <2>3 DEF EnsureHcDeployment, FinInv, RecInv, ApplyPcs
    <3>2. rec[k].mods \in Selections
      BY DEF FinInv, TypeOK
    <3>3. deploy'[k] # None
      BY <1>5, <1>f, <2>3, <3>2, NoneFresh DEF EnsureHcDeployment
    <3> QED BY <2>1, <3>1, <3>3 DEF Finalizer!Next, Finalizer!Acquire
  <2> QED BY <2>2, <2>3
<1>6. ASSUME NEW i \in Indices, DeleteHcDeployment(i) PROVE [Finalizer(k)!Next]_(Finalizer(k)!vars)
  <2>1. hc' = hc
    BY <1>6 DEF DeleteHcDeployment
  <2>2. CASE i # k
    BY <1>6, <1>f, <1>s, <2>1, <2>2 DEF DeleteHcDeployment
  <2>3. CASE i = k
    <3>1. hc[k].live = "deleting" \/ deploy[k] = None
      BY <1>6, <1>f, <2>3 DEF DeleteHcDeployment, Step, FinInv, RecInv, CleanupPcs
    <3>2. deploy'[k] = None
      BY <1>6, <1>f, <2>3 DEF DeleteHcDeployment
    <3> QED BY <1>s, <2>1, <3>1, <3>2 DEF Finalizer!Next, Finalizer!CleanUp
  <2> QED BY <2>2, <2>3
<1>7. ASSUME NEW i \in Indices, RemoveFinalizer(i) PROVE [Finalizer(k)!Next]_(Finalizer(k)!vars)
  <2>1. deploy' = deploy
    BY <1>7 DEF RemoveFinalizer
  <2>2. CASE i # k \/ hc[k].live # "deleting"
    BY <1>7, <1>f, <1>s, <2>1, <2>2 DEF RemoveFinalizer
  <2>3. CASE i = k /\ hc[k].live = "deleting"
    <3>1. hc'[k].live = "none" /\ hc'[k].fin = FALSE
      BY <1>7, <1>f, <2>3 DEF RemoveFinalizer, NoObject
    <3>2. deploy[k] = None
      BY <1>7, <2>3 DEF RemoveFinalizer, End, FinInv, ClusterInv
    <3> QED BY <2>1, <2>3, <3>1, <3>2 DEF Finalizer!Next, Finalizer!LetGo
  <2> QED BY <2>2, <2>3
<1>8. CASE \/ StartServer \/ StopServer \/ DeleteServer \/ CreateServer \/ UpdateServer
           \/ EditClients \/ List \/ PassDone \/ PassFails \/ ControllerRestart
  BY <1>1, <1>8 DEF StartServer, StopServer, DeleteServer, CreateServer, UpdateServer,
                    EditClients, List,
                    PassDone, PassFails, ControllerRestart
<1>9. ASSUME NEW i \in Indices,
             \/ Watch(i) \/ ReconcileHc(i) \/ GetServer(i) \/ SetHcStatus(i)
             \/ DeploymentRefused(i) \/ HcError(i)
      PROVE  [Finalizer(k)!Next]_(Finalizer(k)!vars)
  BY <1>1, <1>9 DEF Watch, ReconcileHc, GetServer, SetHcStatus, DeploymentRefused, HcError
<1>10. CASE UNCHANGED vars
  BY <1>1, <1>10 DEF vars
<1> QED
  BY <1>2, <1>3, <1>4, <1>5, <1>6, <1>7, <1>8, <1>9, <1>10 DEF Next, ServerPass, HcReconcile

(***************************************************************************)
(* ensure_headless_clients, delete_all_headless_clients and reconcile_hc   *)
(* implement the abstract Finalizer for every client at once: no           *)
(* Deployment is applied to an object without its finalizer, and an        *)
(* hc_cleanup on the copy of an object that has gone takes nothing from    *)
(* the next object of its index.                                           *)
(***************************************************************************)
THEOREM ImplementsFinalizers == Spec => FinalizersKept
<1>1. Init => \A i \in Indices : Finalizer(i)!Init
  BY DEF Init, NoObject, Finalizer!Init
<1>2. FinInv /\ [Next]_vars => [\A i \in Indices : [Finalizer(i)!Next]_(Finalizer(i)!vars)]_vars
  BY FinalizerStep
<1> QED BY <1>1, <1>2, InitFinInv, FinStep, PTL DEF Spec, FinalizersKept
=============================================================================
