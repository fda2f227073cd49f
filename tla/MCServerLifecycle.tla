------------------------- MODULE MCServerLifecycle -------------------------
(* ServerLifecycle with one or two RPCs in flight.                          *)
EXTENDS ServerLifecycle

OneCall == {"rpc"}
TwoCalls == {"rpc", "rpc2"}
=============================================================================
