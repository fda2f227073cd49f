----------------------------- MODULE MCIdentity -----------------------------
(* Identity with three accounts, two requests in flight, two replicas.        *)
EXTENDS Identity, TLC

CONSTANTS a1, a2, a3, r1, r2, p1, p2
ThreeAccounts == {a1, a2, a3}
TwoRequests == {r1, r2}
TwoReplicas == {p1, p2}
NoScopes == {}
Alike == Permutations(ThreeAccounts) \cup Permutations(TwoRequests) \cup Permutations(TwoReplicas)
=============================================================================
