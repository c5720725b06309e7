---------------------------- MODULE MCRemoteEnv -----------------------------
(* Model values for the configuration of RemoteEnv.                        *)
EXTENDS RemoteEnv

CONSTANTS e1, f1

MCExecs == {e1}
MCFiles == {f1}
MCFaults == {"refuse", "reject", "slow", "drop", "close"}
=============================================================================
