--------------------------- MODULE ConnectionPool ---------------------------
(***************************************************************************)
(* What a pool of reusable connections promises its users, with no permits,*)
(* stack or login: each connection is at every moment free, with one       *)
(* client, away (being replaced) or lost, and a client has at most one.    *)
(* CmPool is shown to implement this.                                      *)
(***************************************************************************)
CONSTANTS Conns, Users

VARIABLE owner      \* per connection: a member of Users, or one of Places

Places == {"free", "away", "lost"}

Init == owner = [k \in Conns |-> "away"]

\* Connections that were away become available: one of them, or all at once
\* when the pool opens.
Arrive(K) ==
  /\ K # {}
  /\ \A k \in K : owner[k] = "away"
  /\ owner' = [k \in Conns |-> IF k \in K THEN "free" ELSE owner[k]]

Take(u, k) ==
  /\ owner[k] = "free"
  /\ \A j \in Conns : owner[j] # u
  /\ owner' = [owner EXCEPT ![k] = u]

Give(u, k) == owner[k] = u /\ owner' = [owner EXCEPT ![k] = "free"]
Discard(u, k) == owner[k] = u /\ owner' = [owner EXCEPT ![k] = "away"]
Lose(k) == owner[k] = "away" /\ owner' = [owner EXCEPT ![k] = "lost"]
Reset == owner' = [k \in Conns |-> "away"]

Next ==
  \/ \E K \in SUBSET Conns : Arrive(K)
  \/ \E u \in Users, k \in Conns : Take(u, k) \/ Give(u, k) \/ Discard(u, k)
  \/ \E k \in Conns : Lose(k)
  \/ Reset

Spec == Init /\ [][Next]_owner
=============================================================================
