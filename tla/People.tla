------------------------------- MODULE People -------------------------------
(***************************************************************************)
(* What the identity service promises about who is who, with no users      *)
(* table, no requests and no races: the accounts seen so far are divided   *)
(* into persons.  An account becomes a person of its own or joins one, two *)
(* persons may turn out to be one, and nothing else ever happens: no       *)
(* account is forgotten, moved to somebody else or split off, and nobody   *)
(* is left without an account.                                             *)
(***************************************************************************)
CONSTANT Accounts

VARIABLE persons      \* disjoint non-empty sets of accounts

Known == UNION persons

Init == persons = {}

SignUp(a) ==
  /\ a \notin Known
  /\ persons' = persons \cup {{a}}

Attach(a, p) ==
  /\ a \notin Known
  /\ persons' = (persons \ {p}) \cup {p \cup {a}}

Unite(p, q) ==
  /\ p # q
  /\ persons' = (persons \ {p, q}) \cup {p \cup q}

Next ==
  \/ \E a \in Accounts : SignUp(a)
  \/ \E a \in Accounts, p \in persons : Attach(a, p)
  \/ \E p \in persons, q \in persons : Unite(p, q)

Spec == Init /\ [][Next]_persons
=============================================================================
