----------------------------- MODULE MCConfigVar -----------------------------
(* Small instances of ConfigVar for TLC: no symmetry, since the run also   *)
(* checks liveness.                                                        *)
EXTENDS ConfigVar
=============================================================================
