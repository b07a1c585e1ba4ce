------------------------------ MODULE LexcalCast ------------------------------
(***************************************************************************)
(* The conversions of mumu/config.h:66-383 between a string of YAML and a  *)
(* value: LexcalCast, which is boost::lexical_cast for int and             *)
(* std::string and partially specialised for the containers.               *)
(*                                                                         *)
(* A string is a plain word or what the YAML library emits for a node that *)
(* is not one.  So emitting a node and loading the result gives the node   *)
(* back, and loading a string and emitting gives the string back, but for  *)
(* the empty string, which loads as null.  A scalar may hold any string;   *)
(* it is emitted in quotes unless that is a plain word.                    *)
(*                                                                         *)
(* A value is a string (of an int, its digits), or has one field, which    *)
(* tells containers that are compared in different ways apart.  unordered_ *)
(* set and unordered_map have the code of set and map.  Keys of maps are   *)
(* not numbers.                                                            *)
(***************************************************************************)
EXTENDS Naturals, Sequences, SequencesExt

CONSTANTS
  Numbers,  \* the words that are digits
  BadCast   \* "an exception was thrown"

(* Strings.                                                                *)
Word(w) == [word |-> w]
EmptyString == Word("")
NullString == Word("~")

(* YAML nodes.                                                             *)
Null == [node |-> "null"]
Scalar(s) == [node |-> "scalar", text |-> s]
Sequence(ns) == [node |-> "sequence", items |-> ns]
Mapping(ps) == [node |-> "map", pairs |-> ps]
Entry(k, n) == [key |-> k, value |-> n]

IsPlain(s) == s \notin {EmptyString, NullString} /\ "word" \in DOMAIN s

(* YAML::Load(s) *)
Load(s) ==
  IF "dump" \in DOMAIN s THEN s.dump
  ELSE IF IsPlain(s) THEN Scalar(s) ELSE Null

(* ss << n *)
Emit(n) ==
  IF n = Null THEN NullString
  ELSE IF n.node = "scalar" /\ IsPlain(n.text) THEN n.text
  ELSE [dump |-> n]

-----------------------------------------------------------------------------
(* Types T of a variable, from the inside out: a basic type, then the      *)
(* containers around it.                                                   *)
Basic(c) == <<c>>
Of(c, ty) == Append(ty, c)

BasicTypes == {"int", "string"}
Containers == {"vector", "list", "set", "map"}

(* Indexing a map by a position that is not a key gives an undefined node, *)
(* of which nothing is emitted; scalars and null have size 0.              *)
ElementTexts(n) ==
  IF n.node = "sequence" THEN [i \in 1 .. Len(n.items) |-> Emit(n.items[i])]
  ELSE IF n.node = "map" THEN [i \in 1 .. Len(n.pairs) |-> EmptyString]
  ELSE <<>>

(* The entries of a map; what is not a map is iterated over as if empty.   *)
Entries(n) == IF n.node = "map" THEN n.pairs ELSE <<>>

(* insert() leaves the first of two entries with one key.                  *)
FirstWith(ps, k) == ps[CHOOSE i \in DOMAIN ps :
                         ps[i].key = k /\ \A j \in 1 .. i - 1 : ps[j].key # k]

(* All of the elements, or the exception that one of them throws.          *)
UnlessFails(elements, value) == IF BadCast \in elements THEN BadCast ELSE value

(* boost::lexical_cast<T>.                                                 *)
FromBasic(c, s) ==
  IF c = "int" /\ s \notin {Word(w) : w \in Numbers} THEN BadCast ELSE s

(* LexcalCast<std::string, T> for a container T: its elements are emitted  *)
(* and converted one by one, by cast.                                      *)
FromItems(con, cast, s) ==
  LET texts == ElementTexts(Load(s))
      vs == [i \in DOMAIN texts |-> cast[texts[i]]]
      elements == {vs[i] : i \in DOMAIN vs}
  IN  UnlessFails(elements,
        IF con = "set" THEN [set |-> elements] ELSE [seq |-> vs])

(* Iterating over a sequence as if it were a map throws at its first       *)
(* entry, which has no key.                                                *)
FromEntries(cast, s) ==
  LET n == Load(s)
      ps == Entries(n)
      m == [k \in {ps[i].key : i \in DOMAIN ps} |->
              cast[Emit(FirstWith(ps, k).value)]]
  IN  IF n.node = "sequence" /\ n.items # <<>> THEN BadCast
      ELSE UnlessFails({cast[Emit(ps[i].value)] : i \in DOMAIN ps}, [map |-> m])

FromElements(con, cast, s) ==
  IF con = "map" THEN FromEntries(cast, s) ELSE FromItems(con, cast, s)

(* Mutated form: the string of an element of a vector is not loaded.       *)
PushLoaded_Text(ss) == Sequence([i \in DOMAIN ss |-> Scalar(ss[i])])

(* node.push_back(YAML::Load(s)), as for vectors.                          *)
PushLoaded(ss) == Sequence([i \in DOMAIN ss |-> Load(ss[i])])

(* node.push_back(s), as for lists and sets, makes a scalar of the string. *)
PushText(ss) == Sequence([i \in DOMAIN ss |-> Scalar(ss[i])])

(* A map without entries stays the sequence that its node begins as.       *)
PushEntries(ps) == IF ps = <<>> THEN Sequence(<<>>) ELSE Mapping(ps)

(* LexcalCast<T, std::string>, whose elements are converted by write.      *)
ToElements(con, write, y) ==
  CASE con = "vector" ->
         Emit(PushLoaded([i \in DOMAIN y.seq |-> write[y.seq[i]]]))
    [] con = "list" -> Emit(PushText([i \in DOMAIN y.seq |-> write[y.seq[i]]]))
    [] con = "set" -> Emit(PushText(SetToSeq({write[e] : e \in y.set})))
    [] con = "map" ->
         LET ks == SetToSeq(DOMAIN y.map)
         IN  Emit(PushEntries([i \in DOMAIN ks |->
                    Entry(ks[i], Load(write[y.map[ks[i]]]))]))

-----------------------------------------------------------------------------
Elements(y) ==
  IF "seq" \in DOMAIN y THEN {y.seq[i] : i \in DOMAIN y.seq}
  ELSE IF "set" \in DOMAIN y THEN y.set
  ELSE {y.map[k] : k \in DOMAIN y.map}

(* What an element of a container is written as is read as the same: the   *)
(* strings of the elements of lists and sets are plain words, and no       *)
(* element of a vector or a map has the empty string.                      *)
Legible(con, s) == IF con \in {"list", "set"} THEN IsPlain(s) ELSE s # EmptyString

(* The conversions of a type over a set of strings, both ways, and the     *)
(* values that have an element which is not read as it is written.         *)
BasicCast(c, strings) ==
  LET from == [s \in strings |-> FromBasic(c, s)]
  IN  [from |-> from,
       to |-> [y \in {from[s] : s \in strings} \ {BadCast} |-> y],
       lossy |-> {}]

ContainerCast(con, cast, strings) ==
  LET from == [s \in strings |-> FromElements(con, cast.from, s)]
      values == {from[s] : s \in strings} \ {BadCast}
  IN  [from |-> from,
       to |-> [y \in values |-> ToElements(con, cast.to, y)],
       lossy |-> {y \in values :
                    \E e \in Elements(y) :
                      e \in cast.lossy \/ ~ Legible(con, cast.to[e])}]

(* For each k, the conversions of the first k constructors of a type.      *)
CastsOf(ty, strings) ==
  LET casts[k \in 1 .. Len(ty)] ==
        IF k = 1 THEN BasicCast(ty[1], strings)
        ELSE ContainerCast(ty[k], casts[k - 1], strings)
  IN  casts

CastOf(ty, strings) == CastsOf(ty, strings)[Len(ty)]
=============================================================================
