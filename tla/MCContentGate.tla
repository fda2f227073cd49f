---------------------------- MODULE MCContentGate ----------------------------
(* ContentGate with two mods, one pass and no refresh in flight.            *)
EXTENDS ContentGate

TwoMods == {"m1", "m2"}
OnePass == {"pass"}
NoRefresh == {}
=============================================================================
