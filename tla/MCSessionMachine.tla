-------------------------- MODULE MCSessionMachine --------------------------
(* Small instances of SessionMachine for TLC.                              *)
EXTENDS SessionMachine

CONSTANTS c1, c2
=============================================================================
