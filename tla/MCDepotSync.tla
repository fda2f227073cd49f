---------------------------- MODULE MCDepotSync ----------------------------
(* DepotSync with one pass, or two that overlap.                            *)
EXTENDS DepotSync

CONSTANTS t1, t2

OnePass == {t1}
TwoPasses == {t1, t2}
=============================================================================
