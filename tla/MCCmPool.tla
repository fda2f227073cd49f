------------------------------ MODULE MCCmPool ------------------------------
(* CmPool with two slots and three clients, so that a client waits while a  *)
(* slot is being logged in again.                                           *)
EXTENDS CmPool

CONSTANTS c1, c2, c3

ThreeClients == {c1, c2, c3}

=============================================================================
