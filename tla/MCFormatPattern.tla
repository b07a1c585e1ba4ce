---------------------------- MODULE MCFormatPattern ----------------------------
(* Small instances of FormatPattern for TLC.                               *)
EXTENDS FormatPattern

CONSTANT MaxLen  \* bound: the length of a pattern

(* A conversion that is known, one that is not, and another character.     *)
AllPatterns ==
  UNION {[1 .. k -> {Sign, Open, Close, "m", "x", "-"}] : k \in 0 .. MaxLen}
=============================================================================
