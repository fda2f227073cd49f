-------------------------- MODULE MCHeadlessClients --------------------------
(* HeadlessClients for TLC.                                                 *)
EXTENDS HeadlessClients
=============================================================================
