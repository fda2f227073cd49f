---------------------------- MODULE MCModSources ----------------------------
(* ModSources with one mod that may leave and return, one pass and one refresh in flight.    *)
EXTENDS ModSources

OneMod == {"m1"}
OnePass == {"pass"}
OneRefresh == {"refresh"}
=============================================================================
