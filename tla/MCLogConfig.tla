------------------------------ MODULE MCLogConfig ------------------------------
(* Small instances of LogConfig for TLC.                                   *)
EXTENDS LogConfig, TLC

CONSTANTS file1, file2, pattern1, broken

FileNode(file, fmt) ==
  [type |-> "FileLogAppender", file |-> file, level |-> None, formatter |-> fmt]
StdoutNode(fmt) ==
  [type |-> "StdoutLogAppender", file |-> None, level |-> None, formatter |-> fmt]

(* Nodes with an appender each, one of which has its own formatter and one *)
(* a pattern that is invalid, and one with two appenders; two nodes differ *)
(* in their appenders only.  Two of the appender nodes are not usable.     *)
MCNodes ==
  {[level |-> None, formatter |-> broken,
    appenders |-> <<FileNode(file1, pattern1)>>],
   [level |-> "INFO", formatter |-> pattern1,
    appenders |-> <<FileNode(None, None), FileNode(file2, broken)>>],
   [level |-> "info", formatter |-> pattern1,
    appenders |-> <<FileNode(file1, None), StdoutNode(pattern1),
                    [StdoutNode(None) EXCEPT !.type = None]>>]}

Symmetry == Permutations(Loaders)
=============================================================================
