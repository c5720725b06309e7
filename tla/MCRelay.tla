------------------------------ MODULE MCRelay -------------------------------
(* The faults of the configurations of Relay.                              *)
EXTENDS Relay

MCFaults == {"reject", "drop", "leave", "slow", "stop", "close"}
MCNone == {}
=============================================================================
