---------------------------- MODULE MCGamePods -----------------------------
(***************************************************************************)
(* Two servers on two game ports whose ranges share one port; the first    *)
(* server has a headless client.                                           *)
(***************************************************************************)
EXTENDS GamePods

(* Nothing tells the two ports apart, since their ranges overlap both      *)
(* ways: a behaviour with the ports swapped is a behaviour.  So the first  *)
(* server that exists at the start may be taken to be on port 1.           *)
UpToSwappingPorts ==
  IF spec["a"].desired # "absent"
  THEN spec["a"].port = 1
  ELSE spec["b"].desired # "absent" => spec["b"].port = 1

MCInit == Init /\ UpToSwappingPorts
MCFairSpec == MCInit /\ [][Next]_vars /\ Fairness
=============================================================================
