------------------------------ MODULE YamlConfig ------------------------------
(***************************************************************************)
(* The documents of ConfigRegistry as YAML nodes, whose members are listed *)
(* with dotted names (mumu/config.cc:27-85).  A name is the sequence of    *)
(* its parts, as is the key of a map.  No theorem is about this module,    *)
(* which is recursive.                                                     *)
(***************************************************************************)
EXTENDS ConfigCasts

RECURSIVE MembersOf(_, _)

(* ListAllMember: the node itself, then those of a map, depth first.       *)
MembersOf(prefix, n) ==
  LET ps == Entries(n)
      all[i \in 0 .. Len(ps)] ==
        IF i = 0 THEN <<[name |-> prefix, value |-> n]>>
        ELSE all[i - 1] \o MembersOf(prefix \o ps[i].key, ps[i].value)
  IN  all[Len(ps)]

(* LoadFromYaml gives a scalar's string to fromString as it is, and emits  *)
(* any other node; the root has no name and is passed over.                *)
TextOf(n) == IF n.node = "scalar" THEN n.text ELSE Emit(n)

Document(root) ==
  LET ms == Tail(MembersOf(<<>>, root))
  IN  [i \in DOMAIN ms |-> [name |-> ms[i].name, text |-> TextOf(ms[i].value)]]

Members(docs) == UNION {ToSet(d) : d \in docs}

-----------------------------------------------------------------------------
(* The strings that come up when those of a set (with those of the         *)
(* elements that they load as, which ReadFrom adds) are converted to some  *)
(* types, and values that are not lossy back, any number of times.         *)
RECURSIVE ReadFrom(_), Closure(_, _)

ElementsOf(n) == ToSet(ElementTexts(n)) \cup {Emit(p.value) : p \in ToSet(Entries(n))}

ReadFrom(strings) ==
  LET more == strings \cup UNION {ElementsOf(Load(s)) : s \in strings}
  IN  IF more = strings THEN strings ELSE ReadFrom(more)

Written(casts) ==
  UNION {{cast.to[y] : y \in DOMAIN cast.to \ cast.lossy} : cast \in ToSet(casts)}

Closure(strings, types) ==
  LET more == ReadFrom(strings \cup
                UNION {Written(CastsOf(ty, strings)) : ty \in types})
  IN  IF more = strings THEN strings ELSE Closure(more, types)
=============================================================================
