------------------------------ MODULE ConfigCasts ------------------------------
(***************************************************************************)
(* ConfigRegistry with the strings and values of LexcalCast: fromString    *)
(* and toString of a ConfigVar convert by it (mumu/config.h:415, 436).     *)
(***************************************************************************)
EXTENDS ConfigRegistry, LexcalCast

CONSTANTS
  TypeOf,  \* per type of the registry: the type of LexcalCast
  Strings  \* the strings that are converted, and those written that matter

(* Per type: its conversions.                                              *)
Casts == [ty \in Types |-> CastOf(TypeOf[ty], Strings)]

(* Strings are as LexcalCast has them.  They include those of the elements *)
(* of the nodes that they load as, and those that values are written as,   *)
(* except where an element changes: a value that is written and read again *)
(* and again may then grow forever.                                        *)
ASSUME ConfigCastsAssumption ==
  /\ \A ty \in Types :
       /\ TypeOf[ty] \in Seq(BasicTypes \cup Containers) /\ TypeOf[ty] # <<>>
       /\ \A k \in DOMAIN TypeOf[ty] : TypeOf[ty][k] \in BasicTypes <=> k = 1
       /\ \A k \in DOMAIN TypeOf[ty] :
            LET cast == CastsOf(TypeOf[ty], Strings)[k]
            IN  \A y \in DOMAIN cast.to \ cast.lossy : cast.to[y] \in Strings
  /\ \A s \in Strings :
       LET n == Load(s)
       IN  /\ s # EmptyString => Emit(n) = s
           /\ n.node = "sequence" => n.items \in Seq(ToSet(n.items))
           /\ n.node = "map" => n.pairs \in Seq(ToSet(n.pairs))
           /\ ToSet(ElementTexts(n)) \subseteq Strings
           /\ \A p \in ToSet(Entries(n)) : Emit(p.value) \in Strings
  /\ Texts \subseteq Strings
  /\ Fails = BadCast
  /\ FromStr = [c \in Types \X Texts |-> Casts[c[1]].from[c[2]]]

(* The values that are read as they are written, or have an element that   *)
(* is not.                                                                 *)
Surviving(cast) ==
  cast.lossy \cup {y \in DOMAIN cast.to : cast.from[cast.to[y]] = y}

Survivors == UNION {{<<ty, y>> : y \in Surviving(Casts[ty])} : ty \in Types}

(* The value that a load or a callback leaves in a variable is one of its  *)
(* type, and survives being written with toString and read again with      *)
(* fromString, which is what the conversions of config.h:66-383 are for,   *)
(* but for elements that are not read as they are written.                 *)
SurvivesWriting ==
  \A n \in Registered :
    m_val[n] # Default => <<s_datas[n], m_val[n]>> \in Survivors
=============================================================================
