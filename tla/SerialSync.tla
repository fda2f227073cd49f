----------------------------- MODULE SerialSync -----------------------------
(***************************************************************************)
(* What download_one_depot's lock promises, with no lock row, no clock and *)
(* no detached release: the passes over one depot or mod take turns.  The  *)
(* tree moves only towards the plan of the pass whose turn it is, and the  *)
(* marker becomes that plan only over a tree that is exactly it.  A turn   *)
(* may end at any point, and the marker may be forgotten at any time.      *)
(***************************************************************************)
CONSTANTS
  Tasks,         \* the passes
  Manifests,     \* what a plan, a whole tree and a marker can be
  None,          \* no tree, no marker
  Torn           \* a tree that matches no manifest

VARIABLES
  turn,          \* the pass at work with its plan: empty or one pair
  tree,          \* what the directory holds
  marker         \* the manifest it is trusted to hold

vars == <<turn, tree, marker>>

Init == turn = {} /\ tree = None /\ marker = None

Begin(t, m) ==
  /\ turn = {}
  /\ turn' = {<<t, m>>}
  /\ UNCHANGED <<tree, marker>>

Write(t, m) ==
  /\ turn = {<<t, m>>}
  /\ tree' \in {m, Torn}
  /\ UNCHANGED <<turn, marker>>

Mark(t, m) ==
  /\ turn = {<<t, m>>}
  /\ tree = m
  /\ turn' = {} /\ marker' = m
  /\ UNCHANGED tree

End ==
  /\ turn' = {}
  /\ UNCHANGED <<tree, marker>>

Forget ==
  /\ marker' = None
  /\ UNCHANGED <<turn, tree>>

Next ==
  \/ \E t \in Tasks, m \in Manifests : Begin(t, m) \/ Write(t, m) \/ Mark(t, m)
  \/ End \/ Forget

Spec == Init /\ [][Next]_vars
=============================================================================
