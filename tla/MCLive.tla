------------------------------- MODULE MCLive -------------------------------
(* Small instances of Live for TLC.                                        *)
EXTENDS Live

CONSTANTS t1, t2
=============================================================================
