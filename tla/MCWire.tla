------------------------------- MODULE MCWire -------------------------------
(* Small instances of Wire for TLC.                                        *)
EXTENDS Wire

CONSTANTS r1, r2
=============================================================================
