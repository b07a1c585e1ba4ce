----------------------------- MODULE MCScopedLock -----------------------------
(* Small instances of ScopedLock for TLC.                                  *)
EXTENDS ScopedLock, TLC

Symmetry == Permutations(Threads)
=============================================================================
