------------------------------- MODULE MCThread -------------------------------
(* Small instances of Thread for TLC: no symmetry, since the run also      *)
(* checks liveness.                                                        *)
EXTENDS Thread
=============================================================================
