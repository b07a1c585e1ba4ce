--------------------------- MODULE MCConfigRegistry ---------------------------
(* Small instances of ConfigRegistry, with the conversions of LexcalCast,  *)
(* for TLC.                                                                *)
EXTENDS YamlConfig

A == <<"a">>
B == <<"b">>
Upper == <<"B">>  \* not a valid name

One == Scalar(Word("1"))
Two == Scalar(Word("2"))

(* "a" is a map with a member "b", whose name comes a second time as       *)
(* "a.b" and has a sequence there; then a name with an invalid character.  *)
(* In the second document "a.b" comes before "a", as a sequence in quotes, *)
(* and "a" has the key "b" twice.                                          *)
MCRoots ==
  {Mapping(<<Entry(A, Mapping(<<Entry(B, One)>>)),
             Entry(A \o B, Sequence(<<Two, Sequence(<<One>>), Null>>)),
             Entry(Upper, One)>>),
   Mapping(<<Entry(A \o B, Scalar(Emit(Sequence(<<One, Two>>)))),
             Entry(A, Mapping(<<Entry(B, Sequence(<<One>>)),
                                Entry(B, Sequence(<<Two>>))>>))>>)}

MCTypeOf ==
  [int |-> Basic("int"),
   vector |-> Of("vector", Of("list", Basic("string"))),
   map |-> Of("map", Of("set", Basic("int")))]
MCTypes == DOMAIN MCTypeOf

Parsed == {Document(root) : root \in MCRoots}
NamesOfDocs == {n.name : n \in Members(Parsed)}
ValidNames == {n \in NamesOfDocs : \A i \in DOMAIN n : n[i] # "B"}
TextsOfDocs == {n.text : n \in Members(Parsed)}
StringsOfDocs == Closure(ReadFrom(TextsOfDocs), {MCTypeOf[ty] : ty \in MCTypes})
Conversions == [c \in MCTypes \X TextsOfDocs |->
                  CastOf(MCTypeOf[c[1]], StringsOfDocs).from[c[2]]] @@ <<>>
Results == {Conversions[c] : c \in DOMAIN Conversions} \ {BadCast}

(* TLC evaluates the definitions above once (@@ makes a table of a         *)
(* function), and those that stand for constants each time.                *)
MCDocs == Parsed
MCNames == NamesOfDocs
MCValid == ValidNames
MCTexts == TextsOfDocs
MCStrings == StringsOfDocs
MCFromStr == Conversions
MCVals == Results

(* The listener of "a.b" looks "a" up, and throws at will.                 *)
MCHook == [n \in NamesOfDocs |-> IF n = A \o B THEN A ELSE None]
MCThrowing == {A \o B}
=============================================================================
