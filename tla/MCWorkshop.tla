---------------------------- MODULE MCWorkshop -----------------------------
(***************************************************************************)
(* Two mods and two collections that hold each other, themselves, both     *)
(* mods or nothing; the first mod may be hidden.                           *)
(***************************************************************************)
EXTENDS Workshop

CONSTANTS m1, m2, own, other, j1, j2, n1, n2

MCCandidates == {<<m2, other>>, <<other, own>>}

MCHiddenSets == {{}, {m1}}

Lists == {<<>>, <<m1>>, <<own>>, <<own, m2>>, <<m1, own>>, <<m2, m1>>, <<m1, m2>>, <<other, m1>>}

MCWorkshops == {[c \in {own, other} |-> IF c = own THEN <<other, m1>> ELSE l] : l \in Lists}

Symmetry == Permutations({j1, j2}) \cup Permutations({n1, n2})
=============================================================================
