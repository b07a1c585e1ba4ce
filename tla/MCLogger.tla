------------------------------- MODULE MCLogger -------------------------------
(* Small instances of Logger for TLC: no symmetry, since the run also      *)
(* checks liveness.                                                        *)
EXTENDS Logger
=============================================================================
