------------------------------ MODULE Finalizer ------------------------------
(***************************************************************************)
(* What a finalizer promises for one name, with no cache, no reconcile and *)
(* no failure: the cluster holds something of an object's only while the   *)
(* finalizer is on it, takes it away only once the object is being         *)
(* deleted, and lets the object go only when nothing is left.  Objects of  *)
(* the same name may follow one another.  The reconcilers of ArmaServers   *)
(* and of HeadlessClients are shown to implement this.                     *)
(***************************************************************************)
VARIABLES
  object,      \* "none", "present" or "deleting"
  guarded,     \* the finalizer is on it
  owns         \* the cluster holds something of it

vars == <<object, guarded, owns>>

Init == object = "none" /\ guarded = FALSE /\ owns = FALSE

Create ==
  /\ object = "none"
  /\ object' = "present"
  /\ UNCHANGED <<guarded, owns>>

Guard ==
  /\ object = "present" /\ ~ guarded
  /\ guarded' = TRUE
  /\ UNCHANGED <<object, owns>>

\* Also once it is being deleted: the reconcile under way does not know.
Acquire ==
  /\ guarded
  /\ owns' = TRUE
  /\ UNCHANGED <<object, guarded>>

Delete ==
  /\ object = "present"
  /\ object' = IF guarded THEN "deleting" ELSE "none"
  /\ UNCHANGED <<guarded, owns>>

\* The object of an earlier life is never cleaned up after: what a new one of
\* the same name owns is not touched.
CleanUp ==
  /\ object = "deleting"
  /\ owns' = FALSE
  /\ UNCHANGED <<object, guarded>>

LetGo ==
  /\ object = "deleting" /\ ~ owns
  /\ object' = "none" /\ guarded' = FALSE
  /\ UNCHANGED owns

Next == Create \/ Guard \/ Acquire \/ Delete \/ CleanUp \/ LetGo

Spec == Init /\ [][Next]_vars
=============================================================================
