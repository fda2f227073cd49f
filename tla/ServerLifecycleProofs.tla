------------------------ MODULE ServerLifecycleProofs ------------------------
(***************************************************************************)
(* For every number of calls, selections and faults: the variables keep    *)
(* their types, a server that is gone leaves nothing behind, gateway and   *)
(* reconciler together implement the abstract Finalizer, and a running     *)
(* server is never rolled back to an older selection of mod sources.       *)
(***************************************************************************)
EXTENDS ServerLifecycle, TLAPS

ApplyPcs == {"toPending", "scaleDown", "deleteHcs", "setStopped"}
RunPcs == {"gate", "render", "ensureDeployment", "ensureHcs", "setRunning", "setFailed"}
CleanupPcs == {"deleteDeployment", "cleanupHcs", "removeFinalizer"}

-----------------------------------------------------------------------------
(***************************************************************************)
(* A reconcile's first step tells which kind of copy it works on.          *)
(***************************************************************************)
LEMMA FirstStepKind ==
  ASSUME NEW o \in Objects
  PROVE  /\ FirstStep(o) \in {"idle", "addFinalizer", "toPending", "scaleDown", "gate",
                              "deleteDeployment"}
         /\ FirstStep(o) = "addFinalizer" => o.live = "present" /\ ~ o.fin
         /\ FirstStep(o) \in ApplyPcs \union RunPcs => o.live = "present" /\ o.fin
         /\ FirstStep(o) \in CleanupPcs => o.live = "deleting" /\ o.fin
<1>1. CASE o.live # "present"
  <2>1. o.live \in {"gone", "deleting"}
    BY <1>1 DEF Objects
  <2>2. CASE o.live = "gone"
    BY <2>2 DEF FirstStep, ApplyPcs, RunPcs, CleanupPcs
  <2>3. CASE o.live = "deleting"
    BY <2>3 DEF FirstStep, ApplyPcs, RunPcs, CleanupPcs
  <2> QED BY <2>1, <2>2, <2>3
<1>2. CASE o.live = "present" /\ ~ o.fin
  BY <1>2 DEF FirstStep, ApplyPcs, RunPcs, CleanupPcs
<1>3. CASE o.live = "present" /\ o.fin
  <2>1. o.phase \in Phases
    BY DEF Objects
  <2>2. FirstStep(o) \in {"idle", "toPending", "scaleDown", "gate"}
    BY <1>3, <2>1 DEF FirstStep, Phases
  <2> QED BY <1>3, <2>2 DEF ApplyPcs, RunPcs, CleanupPcs
<1> QED BY <1>1, <1>2, <1>3

(***************************************************************************)
(* What the patches make of an object.                                     *)
(***************************************************************************)
LEMMA ObjectPatches ==
  ASSUME NEW o \in Objects
  PROVE  /\ Gone \in Objects
         /\ \A p \in Phases : [o EXCEPT !.phase = p] \in Objects
         /\ [o EXCEPT !.fin = TRUE] \in Objects
         /\ [o EXCEPT !.live = "deleting"] \in Objects
         /\ \A d \in {"Running", "Stopped"} : [o EXCEPT !.desired = d] \in Objects
         /\ \A n \in Selections : [o EXCEPT !.mods = n] \in Objects
         /\ \A n \in Selections : [o EXCEPT !.desired = "Running", !.mods = n] \in Objects
         /\ \A n \in Selections : [live |-> "present", fin |-> FALSE, desired |-> "Running",
                                   mods |-> n, phase |-> "Stopped"] \in Objects
<1>0. 0 \in Selections
  BY ModsAssumption DEF Selections
<1>1. \A n \in Selections :
        [live |-> "present", fin |-> FALSE, desired |-> "Running", mods |-> n,
         phase |-> "Stopped"] \in Objects
  BY DEF Objects, Phases
<1>2. Gone \in Objects
  BY <1>0 DEF Objects, Gone, Phases
<1>3. \A p \in Phases : [o EXCEPT !.phase = p] \in Objects
  BY DEF Objects
<1>4. [o EXCEPT !.fin = TRUE] \in Objects
  BY DEF Objects
<1>5. [o EXCEPT !.live = "deleting"] \in Objects
  BY DEF Objects
<1>6. \A d \in {"Running", "Stopped"} : [o EXCEPT !.desired = d] \in Objects
  BY DEF Objects
<1>7. \A n \in Selections : [o EXCEPT !.mods = n] \in Objects
  BY DEF Objects
<1>8. \A n \in Selections : [o EXCEPT !.desired = "Running", !.mods = n] \in Objects
  BY DEF Objects
<1> QED BY <1>1, <1>2, <1>3, <1>4, <1>5, <1>6, <1>7, <1>8

LEMMA InitTypeOK == Init => TypeOK
<1> SUFFICES ASSUME Init PROVE TypeOK
  OBVIOUS
<1>1. 0 \in Selections /\ 0 \in 0 .. MaxFaults
  BY ModsAssumption, FaultsAssumption DEF Selections
<1>2. Gone \in Objects
  BY <1>1 DEF Objects, Gone, Phases
<1>3. due \in BOOLEAN /\ hcs \in {"none", "present", "deleting"}
  BY DEF Init
<1>4. obj \in Objects /\ cache \in Objects /\ rec \in [pc : RecPcs, obj : Objects]
  BY <1>2 DEF Init, RecPcs
<1>5. deploy \in [state : {"none", "down", "up"}, mods : Selections]
  BY <1>1 DEF Init
<1>6. call \in [Calls -> {"idle", "resync"}]
  BY DEF Init
<1>7. made \in Selections /\ faults \in 0 .. MaxFaults
  BY <1>1 DEF Init
<1> QED BY <1>3, <1>4, <1>5, <1>6, <1>7 DEF TypeOK

-----------------------------------------------------------------------------
LEMMA TypeStep == TypeOK /\ [Next]_vars => TypeOK'
<1> SUFFICES ASSUME TypeOK, [Next]_vars PROVE TypeOK'
  OBVIOUS
<1> USE ModsAssumption, FaultsAssumption DEF TypeOK, cluster
<1>1. CASE Watch
  BY <1>1 DEF Watch
<1>2. CASE ReconcileStart
  <2>1. FirstStep(cache) \in RecPcs
    BY FirstStepKind DEF RecPcs
  <2> QED BY <1>2, <2>1 DEF ReconcileStart
<1>3. CASE AddFinalizer
  BY <1>3, ObjectPatches DEF AddFinalizer, Step, AwaitChange, Requeue, RecPcs
<1>4. CASE ToPending
  BY <1>4, ObjectPatches DEF ToPending, Step, SetStatus, Requeue, RecPcs, Phases
<1>5. CASE ScaleDown \/ DeleteHcs
  BY <1>5 DEF ScaleDown, DeleteHcs, MarkHcs, Step, RecPcs
<1>6. CASE SetStopped
  BY <1>6, ObjectPatches DEF SetStopped, Step, SetStatus, AwaitChange, RecPcs, Phases
<1>7. CASE GateShut \/ GateOpen \/ Render
  BY <1>7 DEF GateShut, GateOpen, Render, Step, Requeue, RecPcs
<1>8. CASE EnsureDeployment \/ EnsureHcs
  <2>1. rec.obj.mods \in Selections
    BY DEF Objects
  <2>2. deploy' \in [state : {"none", "down", "up"}, mods : Selections]
    BY <1>8, <2>1 DEF EnsureDeployment, EnsureHcs
  <2>3. hcs' \in {"none", "present", "deleting"}
    BY <1>8 DEF EnsureDeployment, EnsureHcs
  <2> QED BY <1>8, <2>2, <2>3 DEF EnsureDeployment, EnsureHcs, Step, RecPcs
<1>9. CASE SetRunning \/ SetFailed
  BY <1>9, ObjectPatches DEF SetRunning, SetFailed, Step, SetStatus, Requeue, RecPcs, Phases
<1>10. CASE DeleteDeployment \/ CleanupHcs
  BY <1>10 DEF DeleteDeployment, CleanupHcs, MarkHcs, Step, RecPcs
<1>11. CASE RemoveFinalizer
  BY <1>11, ObjectPatches DEF RemoveFinalizer, Step, AwaitChange, Requeue, RecPcs
<1>12. CASE ReconcileError \/ ControllerRestart \/ PendingFails
  <2>1. faults' \in 0 .. MaxFaults
    BY <1>12 DEF ReconcileError, ControllerRestart, PendingFails, Fault
  <2>2. due' \in BOOLEAN
    BY <1>12 DEF ReconcileError, ControllerRestart, PendingFails, Requeue
  <2>3. rec' \in [pc : RecPcs, obj : Objects]
    BY <1>12 DEF ReconcileError, ControllerRestart, PendingFails, RecPcs
  <2> QED
    BY <1>12, <2>1, <2>2, <2>3 DEF ReconcileError, ControllerRestart, PendingFails
<1>13. CASE CreateServer
  <2>1. PICK n \in {made, made + 1} \cap 1 .. MaxMods :
          /\ made' = n
          /\ obj' = IF Exists
                      THEN [obj EXCEPT !.desired = "Running", !.mods = n]
                      ELSE [live |-> "present", fin |-> FALSE, desired |-> "Running",
                            mods |-> n, phase |-> "Stopped"]
    BY <1>13 DEF CreateServer
  <2>2. n \in Selections
    BY <2>1, SMT DEF Selections
  <2>3. made' \in Selections /\ obj' \in Objects
    BY <2>1, <2>2, ObjectPatches
  <2> QED BY <1>13, <2>3 DEF CreateServer
<1>14. CASE DeleteServer \/ StopServer
  BY <1>14, ObjectPatches DEF DeleteServer, StopServer
<1>15. ASSUME NEW c \in Calls, StartServer(c) \/ UpdateServer(c) PROVE TypeOK'
  <2>1. made < MaxMods => made + 1 \in Selections
    BY SMT DEF Selections
  <2>a. /\ [obj EXCEPT !.desired = "Running"] \in Objects
        /\ made < MaxMods => [obj EXCEPT !.mods = made + 1] \in Objects
    BY <2>1, ObjectPatches
  <2>2. obj' \in Objects
    BY <1>15, <2>a, Zenon DEF StartServer, UpdateServer
  <2>3. made' \in Selections
    BY <1>15, <2>1 DEF StartServer, UpdateServer
  <2> QED BY <1>15, <2>2, <2>3 DEF StartServer, UpdateServer
<1>16. ASSUME NEW c \in Calls, CallStep(c) PROVE TypeOK'
  <2>1. obj' \in Objects
    BY <1>16, ObjectPatches DEF CallStep, Repend, CallFails, SetStatus, Phases
  <2>2. faults' \in 0 .. MaxFaults
    BY <1>16 DEF CallStep, Repend, CallFails, Fault
  <2> QED BY <1>16, <2>1, <2>2 DEF CallStep, Repend, CallFails
<1>17. CASE UNCHANGED vars
  BY <1>17 DEF vars
<1>18. CASE HcsGone
  BY <1>18 DEF HcsGone
<1> QED
  BY <1>1, <1>2, <1>3, <1>4, <1>5, <1>6, <1>7, <1>8, <1>9, <1>10, <1>11, <1>12,
     <1>13, <1>14, <1>15, <1>16, <1>17, <1>18 DEF Next, Reconciler

(***************************************************************************)
(* The object, the cache, the reconcile in progress, the Deployment and    *)
(* every RPC stay within their types, on every interleaving of gateway and *)
(* reconciler.                                                             *)
(***************************************************************************)
THEOREM TypeCorrect == Spec => []TypeOK
BY InitTypeOK, TypeStep, PTL DEF Spec

-----------------------------------------------------------------------------
(***************************************************************************)
(* Why the finalizer works although reconciles run on stale copies.        *)
(***************************************************************************)
\* The API server keeps a deleted object only for its finalizer.
ObjInv ==
  /\ obj.live = "gone" => ~ obj.fin
  /\ obj.live = "deleting" => obj.fin

\* A copy with the finalizer is of the object that still has it; a copy under
\* deletion is never older than one that has it.
CacheInv ==
  /\ cache.live = "present" /\ cache.fin => obj.fin
  /\ cache.live = "deleting" => obj.live = "deleting" \/ ~ obj.fin

RecInv ==
  /\ rec.pc = "addFinalizer" /\ ~ obj.fin => cache.live # "deleting"
  /\ rec.pc \in ApplyPcs \union RunPcs => obj.fin
  /\ rec.pc \in CleanupPcs =>
       /\ obj.live = "deleting" \/ ~ obj.fin
       /\ ~ (cache.live = "present" /\ cache.fin)

\* Only an object with the finalizer has a Deployment or headless clients that are
\* not under deletion.
ClusterInv ==
  /\ ~ obj.fin => deploy.state = "none" /\ hcs # "present"
  /\ rec.pc \in {"cleanupHcs", "removeFinalizer"} => deploy.state = "none"
  /\ rec.pc = "removeFinalizer" => hcs # "present"

FinInv == TypeOK /\ ObjInv /\ CacheInv /\ RecInv /\ ClusterInv

LEMMA InitFinInv == Init => FinInv
<1> SUFFICES ASSUME Init PROVE FinInv
  OBVIOUS
<1>1. TypeOK
  BY InitTypeOK
<1> QED
  BY <1>1 DEF Init, FinInv, ObjInv, CacheInv, RecInv, ClusterInv, Gone, ApplyPcs, RunPcs,
              CleanupPcs

LEMMA FinStep == FinInv /\ [Next]_vars => FinInv'
<1> SUFFICES ASSUME FinInv, [Next]_vars PROVE FinInv'
  OBVIOUS
<1>0. TypeOK'
  BY TypeStep DEF FinInv
<1> USE DEF FinInv, ObjInv, CacheInv, RecInv, ClusterInv, ApplyPcs, RunPcs, CleanupPcs
<1>1. CASE Watch
  BY <1>0, <1>1 DEF Watch, cluster
<1>2. CASE ReconcileStart
  <2>1. cache \in Objects
    BY DEF TypeOK
  <2> QED BY <1>0, <1>2, <2>1, FirstStepKind DEF ReconcileStart, cluster
<1>3. CASE AddFinalizer
  BY <1>0, <1>3 DEF AddFinalizer, Step, cluster, TypeOK, Objects
<1>4. CASE ToPending
  BY <1>0, <1>4 DEF ToPending, Step, SetStatus, cluster, TypeOK, Objects
<1>5. CASE ScaleDown \/ DeleteHcs
  BY <1>0, <1>5 DEF ScaleDown, DeleteHcs, MarkHcs, Step, TypeOK
<1>6. CASE SetStopped
  BY <1>0, <1>6 DEF SetStopped, Step, SetStatus, cluster, TypeOK, Objects
<1>7. CASE GateShut \/ GateOpen \/ Render
  BY <1>0, <1>7 DEF GateShut, GateOpen, Render, Step, cluster, TypeOK
<1>8. CASE EnsureDeployment \/ EnsureHcs
  BY <1>0, <1>8 DEF EnsureDeployment, EnsureHcs, Step, TypeOK
<1>9. CASE SetRunning \/ SetFailed
  BY <1>0, <1>9 DEF SetRunning, SetFailed, Step, SetStatus, cluster, TypeOK, Objects
<1>10. CASE DeleteDeployment \/ CleanupHcs
  BY <1>0, <1>10 DEF DeleteDeployment, CleanupHcs, MarkHcs, Step, TypeOK
<1>11. CASE RemoveFinalizer
  BY <1>0, <1>11 DEF RemoveFinalizer, Step, cluster, TypeOK, Gone
<1>12. CASE ReconcileError \/ ControllerRestart \/ PendingFails
  BY <1>0, <1>12 DEF ReconcileError, ControllerRestart, PendingFails, cluster, TypeOK
<1>13. CASE CreateServer
  BY <1>0, <1>13 DEF CreateServer, Exists, cluster, TypeOK, Objects
<1>14. CASE DeleteServer \/ StopServer
  BY <1>0, <1>14 DEF DeleteServer, StopServer, Exists, Gone, cluster, TypeOK, Objects
<1>15. ASSUME NEW c \in Calls, StartServer(c) \/ UpdateServer(c) PROVE FinInv'
  BY <1>0, <1>15 DEF StartServer, UpdateServer, Exists, cluster, TypeOK, Objects
<1>16. ASSUME NEW c \in Calls, CallStep(c) PROVE FinInv'
  BY <1>0, <1>16 DEF CallStep, Repend, CallFails, SetStatus, cluster,
                     TypeOK, Objects
<1>17. CASE UNCHANGED vars
  BY <1>0, <1>17 DEF vars
<1>18. CASE HcsGone
  BY <1>0, <1>18 DEF HcsGone
<1> QED
  BY <1>1, <1>2, <1>3, <1>4, <1>5, <1>6, <1>7, <1>8, <1>9, <1>10, <1>11, <1>12,
     <1>13, <1>14, <1>15, <1>16, <1>17, <1>18 DEF Next, Reconciler

(***************************************************************************)
(* The finalizer keeps its promise: whatever the cache's lag, the          *)
(* failures, the restarts and the calls for the same name, an ArmaServer   *)
(* that is gone has no Deployment and no headless client left that is not  *)
(* itself under deletion.                                                  *)
(***************************************************************************)
THEOREM FinalizerCleansUp == Spec => []GoneLeavesNothing
<1>1. FinInv => GoneLeavesNothing
  BY DEF FinInv, ObjInv, ClusterInv, GoneLeavesNothing
<1> QED BY <1>1, InitFinInv, FinStep, PTL DEF Spec

-----------------------------------------------------------------------------
(***************************************************************************)
(* The last thing a server owns goes only in a cleanup: the Deployment is  *)
(* there before the headless clients are, and when it is gone and they are *)
(* not, the object is being deleted.                                       *)
(***************************************************************************)
OwnInv ==
  /\ FinInv
  /\ rec.pc = "ensureHcs" => deploy.state # "none"
  /\ hcs = "present" /\ deploy.state = "none" => obj.live = "deleting"

\* How a step changes what the finalizer is about, when it does.
Patched == obj'.live = obj.live /\ obj'.fin = obj.fin

LEMMA OwnStep ==
  ASSUME OwnInv, [Next]_vars
  PROVE  OwnInv' /\ [Finalizer!Next]_(Finalizer!vars)
<1>0. FinInv'
  BY FinStep DEF OwnInv
<1> USE DEF OwnInv
<1>f. FinInv /\ TypeOK
  BY DEF FinInv
<1> DEFINE Goal == OwnInv' /\ [Finalizer!Next]_(Finalizer!vars)
<1>s. ASSUME Patched, UNCHANGED cluster, rec'.pc = "ensureHcs" => rec.pc = "ensureHcs" PROVE Goal
  BY <1>0, <1>s DEF Patched, cluster, Finalizer!vars
<1>1. CASE Watch
  BY <1>s, <1>1 DEF Watch, cluster, Patched
<1>2. CASE ReconcileStart
  <2>1. cache \in Objects
    BY <1>f DEF TypeOK
  <2>2. rec'.pc # "ensureHcs"
    BY <1>2, <2>1, FirstStepKind DEF ReconcileStart
  <2> QED BY <1>s, <1>2, <2>2 DEF ReconcileStart, cluster, Patched
<1>3. CASE AddFinalizer
  <2>1. rec'.pc = "idle"
    BY <1>3, <1>f DEF AddFinalizer, Step, TypeOK
  <2>2. CASE obj.live = "present" /\ ~ obj.fin
    <3>1. obj'.live = obj.live /\ obj'.fin = TRUE /\ UNCHANGED cluster
      BY <1>3, <2>2, <1>f DEF AddFinalizer, TypeOK, Objects
    <3> QED BY <1>0, <2>1, <2>2, <3>1 DEF Finalizer!Next, Finalizer!Guard, cluster
  <2>3. CASE ~ (obj.live = "present" /\ ~ obj.fin)
    BY <1>s, <1>3, <2>1, <2>3 DEF AddFinalizer, Patched
  <2> QED BY <2>2, <2>3
<1>4. CASE ToPending
  BY <1>s, <1>4, <1>f DEF ToPending, Step, SetStatus, Patched, TypeOK, Objects
<1>5. CASE ScaleDown
  <2>1. (deploy'.state = "none") = (deploy.state = "none") /\ hcs' = hcs /\ obj' = obj
    BY <1>5, <1>f DEF ScaleDown, TypeOK
  <2>2. rec'.pc = "deleteHcs"
    BY <1>5, <1>f DEF ScaleDown, Step, TypeOK
  <2> QED BY <1>0, <2>1, <2>2 DEF Finalizer!vars
<1>6. CASE DeleteHcs
  <2>1. hcs' # "present" /\ deploy' = deploy /\ obj' = obj
    BY <1>6, <1>f DEF DeleteHcs, MarkHcs, TypeOK
  <2>2. rec'.pc = "setStopped"
    BY <1>6, <1>f DEF DeleteHcs, Step, TypeOK
  <2>3. CASE hcs = "present" /\ deploy.state = "none"
    BY <1>0, <2>1, <2>2, <2>3 DEF Finalizer!Next, Finalizer!CleanUp
  <2>4. CASE ~ (hcs = "present" /\ deploy.state = "none")
    BY <1>0, <2>1, <2>2, <2>4, <1>f DEF Finalizer!vars, TypeOK
  <2> QED BY <2>3, <2>4
<1>7. CASE SetStopped
  BY <1>s, <1>7, <1>f DEF SetStopped, Step, SetStatus, Patched, TypeOK, Objects
<1>8. CASE GateShut \/ GateOpen \/ Render
  BY <1>s, <1>8, <1>f DEF GateShut, GateOpen, Render, Step, Patched, TypeOK
<1>9. CASE EnsureDeployment
  <2>1. obj.fin
    BY <1>9, <1>f DEF EnsureDeployment, Step, FinInv, RecInv, RunPcs
  <2>2. deploy'.state = "up" /\ hcs' = hcs /\ obj' = obj
    BY <1>9 DEF EnsureDeployment
  <2> QED BY <1>0, <2>1, <2>2 DEF Finalizer!Next, Finalizer!Acquire
<1>10. CASE EnsureHcs
  <2>1. obj.fin /\ deploy.state # "none"
    BY <1>10, <1>f DEF EnsureHcs, Step, FinInv, RecInv, RunPcs
  <2>2. deploy' = deploy /\ obj' = obj
    BY <1>10 DEF EnsureHcs
  <2> QED BY <1>0, <2>1, <2>2 DEF Finalizer!vars
<1>11. CASE SetRunning \/ SetFailed
  BY <1>s, <1>11, <1>f DEF SetRunning, SetFailed, Step, SetStatus, Patched, TypeOK, Objects
<1>12. CASE DeleteDeployment
  <2>1. deploy'.state = "none" /\ hcs' = hcs /\ obj' = obj
    BY <1>12, <1>f DEF DeleteDeployment, TypeOK
  <2>2. rec'.pc = "cleanupHcs" /\ (obj.live = "deleting" \/ ~ obj.fin)
    BY <1>12, <1>f DEF DeleteDeployment, Step, TypeOK, FinInv, RecInv, CleanupPcs
  <2>3. ~ obj.fin => deploy.state = "none" /\ hcs # "present"
    BY <1>f DEF FinInv, ClusterInv
  <2>4. CASE obj.live = "deleting"
    <3>1. CASE hcs = "present"
      BY <1>0, <2>1, <2>2, <2>4, <3>1 DEF Finalizer!vars
    <3>2. CASE hcs # "present"
      BY <1>0, <2>1, <2>2, <2>4, <3>2 DEF Finalizer!Next, Finalizer!CleanUp
    <3> QED BY <3>1, <3>2
  <2>5. CASE ~ obj.fin
    BY <1>0, <2>1, <2>2, <2>3, <2>5 DEF Finalizer!vars
  <2> QED BY <2>2, <2>4, <2>5
<1>13. CASE CleanupHcs
  <2>1. deploy' = deploy /\ hcs' # "present" /\ obj' = obj /\ deploy.state = "none"
    BY <1>13, <1>f DEF CleanupHcs, MarkHcs, Step, TypeOK, FinInv, ClusterInv
  <2>2. rec'.pc = "removeFinalizer"
    BY <1>13, <1>f DEF CleanupHcs, Step, TypeOK
  <2>3. CASE hcs = "present"
    BY <1>0, <2>1, <2>2, <2>3 DEF Finalizer!Next, Finalizer!CleanUp
  <2>4. CASE hcs # "present"
    BY <1>0, <2>1, <2>2, <2>4 DEF Finalizer!vars
  <2> QED BY <2>3, <2>4
<1>14. CASE RemoveFinalizer
  <2>1. deploy' = deploy /\ hcs' = hcs /\ deploy.state = "none" /\ hcs # "present" /\ rec'.pc = "idle"
    BY <1>14, <1>f DEF RemoveFinalizer, Step, TypeOK, FinInv, ClusterInv, cluster
  <2>2. CASE obj.live = "deleting" /\ obj.fin
    <3>1. obj'.live = "gone" /\ obj'.fin = FALSE
      BY <1>14, <2>2 DEF RemoveFinalizer, Gone
    <3> QED BY <1>0, <2>1, <2>2, <3>1 DEF Finalizer!Next, Finalizer!LetGo
  <2>3. CASE ~ (obj.live = "deleting" /\ obj.fin)
    BY <1>s, <1>14, <2>1, <2>3 DEF RemoveFinalizer, Patched
  <2> QED BY <2>2, <2>3
<1>15. CASE ReconcileError \/ ControllerRestart \/ PendingFails
  BY <1>s, <1>15, <1>f DEF ReconcileError, ControllerRestart, PendingFails, Patched, TypeOK
<1>16. CASE CreateServer
  <2>1. UNCHANGED cluster /\ rec' = rec
    BY <1>16 DEF CreateServer
  <2>2. CASE Exists
    <3>1. Patched
      BY <1>16, <1>f, <2>2 DEF CreateServer, Patched, TypeOK, Objects
    <3> QED BY <1>s, <2>1, <3>1
  <2>3. CASE ~ Exists
    <3>1. obj.live = "gone" /\ obj'.live = "present" /\ obj'.fin = FALSE /\ ~ obj.fin
      BY <1>16, <1>f, <2>3 DEF CreateServer, Exists, FinInv, ObjInv
    <3>2. obj.fin \in BOOLEAN
      BY <1>f DEF TypeOK, Objects
    <3>3. deploy.state = "none" /\ hcs # "present"
      BY <1>f, <3>1 DEF FinInv, ClusterInv
    <3> QED BY <1>0, <2>1, <3>1, <3>2, <3>3 DEF Finalizer!Next, Finalizer!Create, cluster
  <2> QED BY <2>2, <2>3
<1>17. CASE DeleteServer
  <2>1. UNCHANGED cluster /\ rec' = rec /\ obj.live = "present"
    BY <1>17 DEF DeleteServer
  <2>2. CASE obj.fin
    <3>1. obj'.live = "deleting" /\ obj'.fin = obj.fin
      BY <1>17, <1>f, <2>2 DEF DeleteServer, TypeOK, Objects
    <3> QED BY <1>0, <2>1, <2>2, <3>1 DEF Finalizer!Next, Finalizer!Delete, cluster
  <2>3. CASE ~ obj.fin
    <3>1. obj'.live = "gone" /\ obj'.fin = obj.fin
      BY <1>17, <1>f, <2>3 DEF DeleteServer, TypeOK, Objects, Gone
    <3>2. deploy.state = "none" /\ hcs # "present"
      BY <1>f, <2>3 DEF FinInv, ClusterInv
    <3> QED BY <1>0, <2>1, <2>3, <3>1, <3>2 DEF Finalizer!Next, Finalizer!Delete, cluster
  <2> QED BY <2>2, <2>3
<1>18. CASE StopServer
  BY <1>s, <1>18, <1>f DEF StopServer, Patched, TypeOK, Objects
<1>19. ASSUME NEW c \in Calls, StartServer(c) \/ UpdateServer(c) PROVE Goal
  BY <1>s, <1>19, <1>f DEF StartServer, UpdateServer, Patched, TypeOK, Objects
<1>20. ASSUME NEW c \in Calls, CallStep(c) PROVE Goal
  BY <1>s, <1>20, <1>f DEF CallStep, Repend, CallFails, SetStatus, Patched,
                           TypeOK, Objects
<1>21. CASE UNCHANGED vars
  BY <1>s, <1>21 DEF vars, cluster, Patched
<1>22. CASE HcsGone
  BY <1>0, <1>22 DEF HcsGone, Finalizer!vars
<1> QED
  BY <1>1, <1>2, <1>3, <1>4, <1>5, <1>6, <1>7, <1>8, <1>9, <1>10, <1>11, <1>12, <1>13, <1>14,
     <1>15, <1>16, <1>17, <1>18, <1>19, <1>20, <1>21, <1>22 DEF Next, Reconciler

(***************************************************************************)
(* The gateway's RPCs and the reconciler together implement the abstract   *)
(* Finalizer, step by step: each API call is one of its steps or changes   *)
(* nothing it speaks of.  In particular a cleanup that outlives the object *)
(* it began for finds nothing of the next server of that name to delete.   *)
(***************************************************************************)
THEOREM ImplementsFinalizer == Spec => FinalizerKept
<1>1. Init => OwnInv
  BY InitFinInv DEF Init, OwnInv, Gone
<1>2. Init => Finalizer!Init
  BY DEF Init, Finalizer!Init, Gone
<1>3. OwnInv /\ [Next]_vars => OwnInv' /\ [Finalizer!Next]_(Finalizer!vars)
  BY OwnStep
<1> QED BY <1>1, <1>2, <1>3, PTL DEF Spec, FinalizerKept, Finalizer!Spec

-----------------------------------------------------------------------------
(***************************************************************************)
(* Selections are only ever replaced by newer ones, and copies of the      *)
(* object are taken in order.                                              *)
(***************************************************************************)
ModsInv ==
  /\ TypeOK
  /\ Exists => obj.mods = made
  /\ obj.mods <= made
  /\ cache.mods <= made
  /\ rec.obj.mods <= made
  /\ deploy.mods <= made
  /\ cache.live # "gone" => rec.obj.mods <= cache.mods /\ deploy.mods <= cache.mods
  /\ rec.pc \in RunPcs => deploy.mods <= rec.obj.mods

LEMMA ModsStep == ModsInv /\ [Next]_vars => ModsInv' /\ deploy'.mods >= deploy.mods
<1> SUFFICES ASSUME ModsInv, [Next]_vars
             PROVE  ModsInv' /\ deploy'.mods >= deploy.mods
  OBVIOUS
<1>0. TypeOK'
  BY TypeStep DEF ModsInv
<1>a. /\ made \in Nat /\ obj.mods \in Nat /\ cache.mods \in Nat
      /\ rec.obj.mods \in Nat /\ deploy.mods \in Nat
  BY ModsAssumption DEF ModsInv, TypeOK, Objects, Selections
<1> USE <1>0, <1>a DEF ModsInv, Exists, RunPcs
<1>1. CASE Watch
  BY <1>1 DEF Watch, cluster
<1>2. CASE ReconcileStart
  <2>1. cache \in Objects
    BY DEF TypeOK
  <2>2. FirstStep(cache) \in RunPcs => cache.live = "present"
    BY <2>1, FirstStepKind
  <2> QED BY <1>2, <2>2 DEF ReconcileStart, cluster
<1>3. CASE AddFinalizer
  BY <1>3 DEF AddFinalizer, Step, cluster, TypeOK, Objects
<1>4. CASE ToPending
  BY <1>4 DEF ToPending, Step, SetStatus, cluster, TypeOK, Objects
<1>5. CASE ScaleDown \/ DeleteHcs
  BY <1>5 DEF ScaleDown, DeleteHcs, MarkHcs, Step, TypeOK
<1>6. CASE SetStopped
  BY <1>6 DEF SetStopped, Step, SetStatus, cluster, TypeOK, Objects
<1>7. CASE GateShut \/ GateOpen \/ Render
  BY <1>7 DEF GateShut, GateOpen, Render, Step, cluster, TypeOK
<1>8. CASE EnsureDeployment \/ EnsureHcs
  BY <1>8 DEF EnsureDeployment, EnsureHcs, Step, TypeOK
<1>9. CASE SetRunning \/ SetFailed
  BY <1>9 DEF SetRunning, SetFailed, Step, SetStatus, cluster, TypeOK, Objects
<1>10. CASE DeleteDeployment \/ CleanupHcs
  BY <1>10 DEF DeleteDeployment, CleanupHcs, MarkHcs, Step, TypeOK
<1>11. CASE RemoveFinalizer
  BY <1>11 DEF RemoveFinalizer, Step, cluster, TypeOK, Gone
<1>12. CASE ReconcileError \/ ControllerRestart \/ PendingFails
  <2>1. rec'.obj = rec.obj
    BY <1>12 DEF ReconcileError, ControllerRestart, PendingFails, TypeOK
  <2>2. rec'.pc \in RunPcs => rec.pc \in RunPcs
    BY <1>12 DEF ReconcileError, ControllerRestart, PendingFails, TypeOK
  <2> QED
    BY <1>12, <2>1, <2>2 DEF ReconcileError, ControllerRestart, PendingFails, cluster
<1>13. CASE CreateServer
  BY <1>13, ModsAssumption DEF CreateServer, cluster, TypeOK, Objects, Selections
<1>14. CASE DeleteServer \/ StopServer
  BY <1>14 DEF DeleteServer, StopServer, Gone, cluster, TypeOK, Objects
<1>15. ASSUME NEW c \in Calls, StartServer(c) \/ UpdateServer(c)
       PROVE  ModsInv' /\ deploy'.mods >= deploy.mods
  BY <1>15 DEF StartServer, UpdateServer, cluster, TypeOK, Objects
<1>16. ASSUME NEW c \in Calls, CallStep(c)
       PROVE  ModsInv' /\ deploy'.mods >= deploy.mods
  BY <1>16 DEF CallStep, Repend, CallFails, SetStatus, cluster, TypeOK, Objects
<1>17. CASE UNCHANGED vars
  BY <1>17 DEF vars
<1>18. CASE HcsGone
  BY <1>18 DEF HcsGone
<1> QED
  BY <1>1, <1>2, <1>3, <1>4, <1>5, <1>6, <1>7, <1>8, <1>9, <1>10, <1>11, <1>12,
     <1>13, <1>14, <1>15, <1>16, <1>17, <1>18 DEF Next, Reconciler

(***************************************************************************)
(* However stale the copy a reconcile works on, and however often it fails *)
(* or the controller restarts, the Deployment is never applied with mod    *)
(* sources older than the ones it has.                                     *)
(***************************************************************************)
THEOREM NeverRolledBack == Spec => NoRollback
<1>1. Init => ModsInv
  BY InitTypeOK DEF Init, ModsInv, Gone, Exists, RunPcs
<1>2. ModsInv /\ [Next]_vars => [deploy'.mods >= deploy.mods]_vars
  BY ModsStep
<1>3. ModsInv /\ [Next]_vars => ModsInv'
  BY ModsStep
<1> QED BY <1>1, <1>2, <1>3, PTL DEF Spec, NoRollback
=============================================================================
