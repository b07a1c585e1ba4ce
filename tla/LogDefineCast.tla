---------------------------- MODULE LogDefineCast ----------------------------
(***************************************************************************)
(* The conversions between a YAML node and a LogDefine, an element of the  *)
(* variable "logs" (mumu/log.cc:733-827), and the names of the levels      *)
(* (mumu/log.cc:33-75).                                                    *)
(*                                                                         *)
(* A node is a record of its scalars; a key that is not defined has the    *)
(* value None.  So has an empty formatter of a LogDefine.  The name is the *)
(* element's key in the set, and not repeated here.                        *)
(***************************************************************************)
EXTENDS Naturals, Sequences

CONSTANT None

UNKONW == 0
LevelNames == <<"DEBUG", "INFO", "WARN", "ERROR", "FATAL">>
LowerNames == <<"debug", "info", "warn", "error", "fatal">>

(* A key that is not defined is not a level's name.                        *)
ASSUME LogDefineCastAssumption ==
  \A k \in DOMAIN LevelNames : None \notin {LevelNames[k], LowerNames[k]}

LevelToString(k) == IF k \in DOMAIN LevelNames THEN LevelNames[k] ELSE "UNKNOW"

LevelFromString(s) ==
  LET Named == {k \in DOMAIN LevelNames : s \in {LevelNames[k], LowerNames[k]}}
  IN  IF Named = {} THEN UNKONW ELSE CHOOSE k \in Named : TRUE

-----------------------------------------------------------------------------
(* YAML to LogDefine.                                                      *)

(* A node of an unknown type, or of a file appender without a file, is     *)
(* left out.                                                               *)
Usable(a) ==
  \/ a.type = "FileLogAppender" /\ a.file # None
  \/ a.type = "StdoutLogAppender"

(* The level of an appender is not read.                                   *)
ReadAppender(a) ==
  IF a.type = "FileLogAppender"
  THEN [type |-> 1, level |-> UNKONW, formatter |-> a.formatter, file |-> a.file]
  ELSE [type |-> 2, level |-> UNKONW, formatter |-> a.formatter, file |-> None]

(* The appenders that the first k nodes stand for, for each k.             *)
ReadUpTo(nodes) ==
  LET read[k \in 0 .. Len(nodes)] ==
        IF k = 0 THEN <<>>
        ELSE IF Usable(nodes[k]) THEN Append(read[k - 1], ReadAppender(nodes[k]))
        ELSE read[k - 1]
  IN  read

FromYaml(node) ==
  [level |-> LevelFromString(node.level),
   formatter |-> node.formatter,
   appenders |-> ReadUpTo(node.appenders)[Len(node.appenders)]]

-----------------------------------------------------------------------------
(* LogDefine to YAML.                                                      *)

WriteLevel(k) == IF k = UNKONW THEN None ELSE LevelToString(k)

WriteAppender(a) ==
  [type |-> IF a.type = 1 THEN "FileLogAppender" ELSE "StdoutLogAppender",
   file |-> IF a.type = 1 THEN a.file ELSE None,
   level |-> WriteLevel(a.level),
   formatter |-> a.formatter]

ToYaml(define) ==
  [level |-> WriteLevel(define.level),
   formatter |-> define.formatter,
   appenders |-> [i \in DOMAIN define.appenders |->
                    WriteAppender(define.appenders[i])]]
=============================================================================
