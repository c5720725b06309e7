------------------------------ MODULE MCEnvGate ------------------------------
(* Small instances of EnvGate for TLC.                                     *)
EXTENDS EnvGate

CONSTANTS c1, c2, m1, m2
=============================================================================
