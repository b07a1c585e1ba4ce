---------------------------- MODULE MCListenerKeys ----------------------------
(* Small instances of ListenerKeys for TLC.                                *)
EXTENDS ListenerKeys, TLC

Symmetry ==
  Permutations(Threads) \cup Permutations(Vars) \cup Permutations(Callbacks)
=============================================================================
