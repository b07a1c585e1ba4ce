---------------------------- MODULE MCFileAppender ----------------------------
(* Small instances of FileAppender for TLC.                                *)
EXTENDS FileAppender, TLC

Symmetry == Permutations(Threads)
=============================================================================
