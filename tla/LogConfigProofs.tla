---------------------------- MODULE LogConfigProofs ----------------------------
(***************************************************************************)
(* The configuration of the loggers, for any number of loaders, names,     *)
(* YAML nodes and patterns.                                                *)
(***************************************************************************)
EXTENDS LogConfig, WellFoundedInduction, TLAPS

-----------------------------------------------------------------------------
(* Numbers.                                                                *)

(* A set of natural numbers that is not empty has a first member.          *)
LEMMA HasFirst ==
  ASSUME NEW S, S \subseteq Nat, S # {}
  PROVE  \E i \in S : \A j \in S : i <= j
<1>1. PICK i \in S : \A j \in S : ~ (<<j, i>> \in OpToRel(<, Nat))
  BY WFMin, NatLessThanWellFounded, Zenon
<1>2. ASSUME NEW j \in S PROVE i <= j
  <2>1. ~ (j < i)
    BY <1>1 DEF OpToRel
  <2> QED
    BY <2>1
<1> QED
  BY <1>2

(* Induction, for a set of numbers.                                        *)
LEMMA UpTo ==
  ASSUME NEW m \in Nat, NEW S, 0 \in S,
         \A k \in 0 .. m : k \in S /\ k + 1 <= m => k + 1 \in S
  PROVE  0 .. m \subseteq S
<1> DEFINE Bad == {k \in 0 .. m : k \notin S}
<1> SUFFICES ASSUME Bad # {} PROVE FALSE
  OBVIOUS
<1>1. PICK b \in Bad : \A j \in Bad : b <= j
  <2>1. Bad \subseteq Nat
    OBVIOUS
  <2> QED
    BY <2>1, HasFirst
<1>2. b # 0 /\ b - 1 \in 0 .. m
  OBVIOUS
<1>3. b - 1 \notin Bad
  BY <1>1, <1>2
<1> QED
  BY <1>2, <1>3

-----------------------------------------------------------------------------
(* The conversions of LogDefineCast.                                       *)

(* A level that was read is one of LogLevel, and the name it is written    *)
(* with is that of the same level.                                         *)
LEMMA LevelRead == \A s : LevelFromString(s) \in 0 .. 5
<1> TAKE s
<1> DEFINE Named == {k \in DOMAIN LevelNames :
                       s \in {LevelNames[k], LowerNames[k]}}
<1>1. DOMAIN LevelNames = 1 .. 5
  BY DEF LevelNames
<1>2. LevelFromString(s) = IF Named = {} THEN UNKONW ELSE CHOOSE k \in Named : TRUE
  BY DEF LevelFromString
<1>3. Named \subseteq 1 .. 5
  BY <1>1
<1> QED
  BY <1>2, <1>3 DEF UNKONW

LEMMA LevelKept == \A k \in 0 .. 5 : LevelFromString(WriteLevel(k)) = k
<1> TAKE k \in 0 .. 5
<1> DEFINE Named(s) == {l \in DOMAIN LevelNames :
                          s \in {LevelNames[l], LowerNames[l]}}
<1>1. DOMAIN LevelNames = 1 .. 5
  BY DEF LevelNames
<1>2. \A s : LevelFromString(s) =
               IF Named(s) = {} THEN UNKONW ELSE CHOOSE l \in Named(s) : TRUE
  BY DEF LevelFromString
<1>3. CASE k = 0
  <2>1. Named(None) = {}
    BY LogDefineCastAssumption
  <2> QED
    BY <1>2, <1>3, <2>1 DEF WriteLevel, UNKONW
<1>4. CASE k \in 1 .. 5
  <2>1. Named(LevelNames[k]) = {k}
    BY <1>1, <1>4 DEF LevelNames, LowerNames
  <2>2. WriteLevel(k) = LevelNames[k]
    BY <1>1, <1>4 DEF WriteLevel, LevelToString, UNKONW
  <2> HIDE DEF Named
  <2> QED
    BY <1>2, <2>1, <2>2
<1> QED
  BY <1>3, <1>4

(* What the loop over the nodes of the appenders has at each of them.      *)
LEMMA ReadUpToStep ==
  ASSUME NEW A, NEW s \in Seq(A)
  PROVE  /\ ReadUpTo(s)[0] = <<>>
         /\ \A k \in 1 .. Len(s) :
              ReadUpTo(s)[k] =
                IF Usable(s[k])
                THEN Append(ReadUpTo(s)[k - 1], ReadAppender(s[k]))
                ELSE ReadUpTo(s)[k - 1]
<1> DEFINE Body(f, k) == IF k = 0 THEN <<>>
                         ELSE IF Usable(s[k])
                              THEN Append(f[k - 1], ReadAppender(s[k]))
                              ELSE f[k - 1]
           Loop(f, m) == f = [k \in 0 .. m |-> Body(f, k)]
           S == {m \in Nat : \E f : Loop(f, m)}
<1>0. Len(s) \in Nat
  OBVIOUS
<1>1. 0 \in S
  <2> DEFINE f == [k \in {0} |-> <<>>]
  <2>1. f = [k \in 0 .. 0 |-> Body(f, k)]
    OBVIOUS
  <2> HIDE DEF f, Body
  <2> QED
    BY <2>1
<1>2. ASSUME NEW m \in Nat, m \in S PROVE m + 1 \in S
  <2>1. PICK f : Loop(f, m)
    BY <1>2
  <2> DEFINE g == [k \in 0 .. m + 1 |-> IF k = m + 1 THEN Body(f, k) ELSE f[k]]
  <2>2. \A k \in 0 .. m : g[k] = f[k] /\ f[k] = Body(f, k)
    <3> HIDE DEF Body
    <3>1. f = [k \in 0 .. m |-> Body(f, k)]
      BY <2>1
    <3>2. \A k \in 0 .. m : f[k] = Body(f, k)
      BY <3>1
    <3>3. \A k \in 0 .. m : k \in 0 .. m + 1 /\ k # m + 1
      OBVIOUS
    <3> QED
      BY <3>2, <3>3
  <2>3. \A k \in 0 .. m + 1 : Body(g, k) = Body(f, k)
    <3>1. ASSUME NEW k \in 0 .. m + 1, k # 0 PROVE g[k - 1] = f[k - 1]
      <4>1. k - 1 \in 0 .. m
        BY <3>1
      <4> QED
        BY <2>2, <4>1
    <3> HIDE DEF g
    <3> QED
      BY <3>1
  <2>4. g = [k \in 0 .. m + 1 |-> Body(g, k)]
    <3> HIDE DEF Body
    <3>1. ASSUME NEW k \in 0 .. m + 1 PROVE g[k] = Body(g, k)
      <4>1. k = m + 1 \/ k \in 0 .. m
        OBVIOUS
      <4>2. g[m + 1] = Body(f, m + 1)
        OBVIOUS
      <4> QED
        BY <2>2, <2>3, <4>1, <4>2
    <3> QED
      BY <3>1
  <2> HIDE DEF g, Body
  <2> QED
    BY <2>4
<1>3. Len(s) \in S
  <2>1. 0 .. Len(s) \subseteq S
    <3> HIDE DEF S
    <3> QED
      BY <1>0, <1>1, <1>2, UpTo
  <2> QED
    BY <1>0, <2>1
<1>4. Loop(ReadUpTo(s), Len(s))
  <2>1. PICK f : Loop(f, Len(s))
    BY <1>3
  <2>2. ReadUpTo(s) = CHOOSE h : Loop(h, Len(s))
    BY DEF ReadUpTo
  <2> HIDE DEF Loop
  <2> QED
    BY <2>1, <2>2, Zenon
<1> HIDE DEF Body
<1>5. \A k \in 0 .. Len(s) : ReadUpTo(s)[k] = Body(ReadUpTo(s), k)
  BY <1>4
<1> QED
  BY <1>0, <1>5 DEF Body

(* The LogAppenderDefines that nodes of A stand for.                       *)
ReadFrom(A) == {ReadAppender(a) : a \in {b \in A : Usable(b)}}

LEMMA ReadUpToType ==
  ASSUME NEW A, NEW s \in Seq(A)
  PROVE  \A k \in 0 .. Len(s) : ReadUpTo(s)[k] \in Seq(ReadFrom(A))
<1> DEFINE S == {k \in 0 .. Len(s) : ReadUpTo(s)[k] \in Seq(ReadFrom(A))}
<1>0. Len(s) \in Nat
  OBVIOUS
<1>1. 0 \in S
  <2>1. ReadUpTo(s)[0] = <<>>
    BY ReadUpToStep
  <2>2. ReadUpTo(s)[0] \in Seq(ReadFrom(A))
    BY <2>1
  <2>3. 0 \in 0 .. Len(s)
    BY <1>0
  <2> QED
    BY <2>2, <2>3
<1>2. ASSUME NEW k \in 0 .. Len(s), k \in S, k + 1 <= Len(s) PROVE k + 1 \in S
  <2>1. /\ k + 1 \in 1 .. Len(s) /\ (k + 1) - 1 = k
        /\ ReadUpTo(s)[k] \in Seq(ReadFrom(A))
    BY <1>0, <1>2
  <2>2. ReadUpTo(s)[k + 1] =
          IF Usable(s[k + 1])
          THEN Append(ReadUpTo(s)[k], ReadAppender(s[k + 1]))
          ELSE ReadUpTo(s)[k]
    BY <2>1, ReadUpToStep
  <2>3. s[k + 1] \in A
    BY <2>1
  <2>4. Usable(s[k + 1]) => ReadAppender(s[k + 1]) \in ReadFrom(A)
    BY <2>3 DEF ReadFrom
  <2>5. ReadUpTo(s)[k + 1] \in Seq(ReadFrom(A))
    BY <2>1, <2>2, <2>4
  <2> QED
    BY <2>1, <2>5
<1> HIDE DEF S
<1>3. 0 .. Len(s) \subseteq S
  BY <1>0, <1>1, <1>2, UpTo
<1> QED
  BY <1>3 DEF S

(* An appender that is written is read as the same one.                    *)
LEMMA AppenderKept ==
  ASSUME NEW A, NEW y \in ReadFrom(A)
  PROVE  Usable(WriteAppender(y)) /\ ReadAppender(WriteAppender(y)) = y
<1>1. PICK a \in A : Usable(a) /\ y = ReadAppender(a)
  BY DEF ReadFrom
<1>2. CASE a.type = "FileLogAppender"
  <2>1. /\ y = [type |-> 1, level |-> UNKONW, formatter |-> a.formatter,
                file |-> a.file]
        /\ a.file # None
    BY <1>1, <1>2 DEF ReadAppender, Usable
  <2> QED
    BY <2>1 DEF WriteAppender, ReadAppender, Usable
<1>3. CASE a.type # "FileLogAppender"
  <2>1. y = [type |-> 2, level |-> UNKONW, formatter |-> a.formatter,
             file |-> None]
    BY <1>1, <1>3 DEF ReadAppender
  <2> QED
    BY <2>1 DEF WriteAppender, ReadAppender, Usable
<1> QED
  BY <1>2, <1>3

(* Nodes that are all usable are all read, in their order.                 *)
LEMMA AllRead ==
  ASSUME NEW W, NEW w \in Seq(W), \A i \in 1 .. Len(w) : Usable(w[i])
  PROVE  ReadUpTo(w)[Len(w)] = [i \in 1 .. Len(w) |-> ReadAppender(w[i])]
<1> DEFINE Part(k) == [i \in 1 .. k |-> ReadAppender(w[i])]
           S == {k \in 0 .. Len(w) : ReadUpTo(w)[k] = Part(k)}
<1>0. Len(w) \in Nat
  OBVIOUS
<1>1. 0 \in S
  BY <1>0, ReadUpToStep
<1>2. ASSUME NEW k \in 0 .. Len(w), k \in S, k + 1 <= Len(w) PROVE k + 1 \in S
  <2>1. /\ k \in Nat /\ k + 1 \in 1 .. Len(w) /\ (k + 1) - 1 = k
        /\ ReadUpTo(w)[k] = Part(k)
    BY <1>0, <1>2
  <2>2. ReadUpTo(w)[k + 1] = Append(Part(k), ReadAppender(w[k + 1]))
    BY <2>1, ReadUpToStep
  <2>3. Append(Part(k), ReadAppender(w[k + 1])) = Part(k + 1)
    BY <2>1
  <2>4. k + 1 \in 0 .. Len(w)
    BY <1>0, <1>2
  <2> HIDE DEF Part
  <2> QED
    BY <2>2, <2>3, <2>4
<1> HIDE DEF S
<1>3. 0 .. Len(w) \subseteq S
  BY <1>0, <1>1, <1>2, UpTo
<1> QED
  BY <1>0, <1>3 DEF S

(* So are those that the appenders of a LogDefine are written to.          *)
LEMMA AppendersKept ==
  ASSUME NEW A, NEW a \in Seq(ReadFrom(A))
  PROVE  LET w == [i \in DOMAIN a |-> WriteAppender(a[i])]
         IN  ReadUpTo(w)[Len(w)] = a
<1> DEFINE W == {WriteAppender(y) : y \in ReadFrom(A)}
           w == [i \in DOMAIN a |-> WriteAppender(a[i])]
<1>0. Len(a) \in Nat /\ DOMAIN a = 1 .. Len(a)
  OBVIOUS
<1>1. w \in Seq(W) /\ Len(w) = Len(a) /\ \A i \in 1 .. Len(a) : w[i] = WriteAppender(a[i])
  <2>1. \A i \in 1 .. Len(a) : WriteAppender(a[i]) \in W
    OBVIOUS
  <2> HIDE DEF W
  <2> QED
    BY <1>0, <2>1
<1> HIDE DEF w, W
<1>2. \A i \in 1 .. Len(a) : Usable(w[i]) /\ ReadAppender(w[i]) = a[i]
  BY <1>0, <1>1, AppenderKept
<1>3. ReadUpTo(w)[Len(w)] = [i \in 1 .. Len(a) |-> ReadAppender(w[i])]
  BY <1>1, <1>2, AllRead
<1>4. ReadUpTo(w)[Len(w)] = [i \in 1 .. Len(a) |-> a[i]]
  BY <1>2, <1>3
<1> QED
  BY <1>0, <1>4 DEF w

(* A LogDefine that was read is written and read again as it was.          *)
LEMMA DefineKept ==
  ASSUME NEW x, x.appenders \in Seq(Range(x.appenders))
  PROVE  FromYaml(ToYaml(FromYaml(x))) = FromYaml(x)
<1> DEFINE A == Range(x.appenders)
           d == FromYaml(x)
           w == [i \in DOMAIN d.appenders |-> WriteAppender(d.appenders[i])]
<1>1. /\ d = [level |-> LevelFromString(x.level), formatter |-> x.formatter,
              appenders |-> d.appenders]
      /\ d.appenders \in Seq(ReadFrom(A))
  <2>1. ReadUpTo(x.appenders)[Len(x.appenders)] \in Seq(ReadFrom(A))
    BY ReadUpToType
  <2> QED
    BY <2>1 DEF FromYaml
<1>2. d.level \in 0 .. 5
  BY <1>1, LevelRead
<1>3. ToYaml(d) = [level |-> WriteLevel(d.level), formatter |-> d.formatter,
                   appenders |-> w]
  BY DEF ToYaml
<1>4. ReadUpTo(w)[Len(w)] = d.appenders
  BY <1>1, AppendersKept
<1> HIDE DEF w, d
<1>5. FromYaml(ToYaml(d)) =
        [level |-> LevelFromString(WriteLevel(d.level)),
         formatter |-> d.formatter, appenders |-> ReadUpTo(w)[Len(w)]]
  BY <1>3 DEF FromYaml
<1>6. FromYaml(ToYaml(d)) = d
  BY <1>1, <1>2, <1>4, <1>5, LevelKept
<1> QED
  BY <1>6 DEF d

-----------------------------------------------------------------------------
(* Types.                                                                  *)

AppenderNodes == UNION {Range(x.appenders) : x \in Nodes}
AppenderDefines == ReadFrom(AppenderNodes)

Formatters ==
  {Default, None} \cup {Parsed(x.formatter) : x \in Nodes}
                  \cup {Parsed(a.formatter) : a \in AppenderDefines}

Destinations == {Console} \cup {a.file : a \in AppenderDefines}

Appenders == [dest : Destinations, level : 0 .. 5, own : BOOLEAN,
              formatter : Formatters]

Places == {"idle", "next", "format", "clear", "add", "clearGone", "store"}

Frames == [pc : Places, new : Values, old : Values, todo : SUBSET Names,
           gone : SUBSET Names, rest : Seq(AppenderDefines)]

Typed ==
  /\ m_val \in Values
  /\ m_mutex \subseteq Loaders
  /\ m_loggers \subseteq Names
  /\ level \in [Names -> 0 .. 5]
  /\ formatter \in [Names -> Formatters]
  /\ appenders \in [Names -> Seq(Appenders)]
  /\ frame \in [Loaders -> Frames]
  /\ loads \in 0 .. MaxLoads
  /\ overlapped \in BOOLEAN

(* What the listener has to do, and that it has something to do where it   *)
(* is.                                                                     *)
FrameOk(t) ==
  /\ \A n \in frame[t].todo : frame[t].new[n] # None
  /\ \A n \in frame[t].gone : frame[t].new[n] = None
  /\ frame[t].pc \in {"format", "clear", "add"} => frame[t].todo # {}
  /\ frame[t].pc = "clearGone" => frame[t].gone # {} /\ frame[t].todo = {}
  /\ frame[t].pc = "store" => frame[t].todo = {} /\ frame[t].gone = {}

FrameInv == \A t \in Loaders : FrameOk(t)

LEMMA DefineType ==
  ASSUME NEW d \in Defines
  PROVE  /\ d.level \in 0 .. 5
         /\ Parsed(d.formatter) \in Formatters
         /\ d.appenders \in Seq(AppenderDefines)
<1>1. PICK x \in Nodes : d = FromYaml(x)
  BY DEF Defines
<1>2. x.appenders \in Seq(AppenderNodes)
  <2>1. x.appenders \in Seq(Range(x.appenders))
    BY LogConfigAssumption
  <2>2. Range(x.appenders) \subseteq AppenderNodes
    BY DEF AppenderNodes
  <2> QED
    BY <2>1, <2>2
<1>3. ReadUpTo(x.appenders)[Len(x.appenders)] \in Seq(AppenderDefines)
  BY <1>2, ReadUpToType DEF AppenderDefines
<1> QED
  BY <1>1, <1>3, LevelRead DEF FromYaml, Formatters

LEMMA ConfiguredType ==
  ASSUME NEW a \in AppenderDefines, NEW f \in Formatters
  PROVE  Configured(a, f) \in Appenders
<1>1. a.level = 0 /\ a.file \in Destinations /\ Parsed(a.formatter) \in Formatters
  BY DEF AppenderDefines, ReadFrom, ReadAppender, UNKONW, Destinations,
         Formatters
<1> QED
  BY <1>1 DEF Configured, Appender, Appenders, Destinations

(* The first of the names still to be configured, and to be removed.       *)
LEMMA MinType ==
  ASSUME NEW S, S \subseteq Names, S # {}
  PROVE  Min(S) \in S
<1>1. S \subseteq Nat
  BY LogConfigAssumption
<1> QED
  BY <1>1, HasFirst DEF Min

(* The name being configured, and its LogDefine.                           *)
LEMMA FirstType ==
  ASSUME Typed, NEW t \in Loaders, FrameOk(t), frame[t].todo # {}
  PROVE  /\ First(t) \in Names /\ First(t) \in frame[t].todo
         /\ Define(t) \in Defines
<1>1. frame[t] \in Frames
  BY DEF Typed
<1>2. First(t) \in frame[t].todo
  BY <1>1, MinType DEF First, Frames
<1> QED
  BY <1>1, <1>2 DEF Define, FrameOk, Frames, Values

-----------------------------------------------------------------------------
(* The frame of a loader that makes a step.                                *)
Moved(t, pc, todo, gone, rest) ==
  /\ frame'[t] = [pc |-> pc, new |-> frame[t].new, old |-> frame[t].old,
                  todo |-> todo, gone |-> gone, rest |-> rest]
  /\ \A s \in Loaders : s # t => frame'[s] = frame[s]
  /\ DOMAIN frame' = Loaders
  /\ frame' = [s \in Loaders |-> frame'[s]]

LEMMA Moves ==
  ASSUME Typed, NEW t \in Loaders
  PROVE  LET f == frame[t] IN
         /\ SetLevel(t) => Moved(t, "format", f.todo, f.gone, f.rest)
         /\ SetFormatter(t) => Moved(t, "clear", f.todo, f.gone, f.rest)
         /\ ClearAppender(t) => Moved(t, "add", f.todo, f.gone, Define(t).appenders)
         /\ AddAppender(t) => Moved(t, "add", f.todo, f.gone, Tail(f.rest))
         /\ NextDefine(t) => Moved(t, "next", f.todo \ {First(t)}, f.gone, f.rest)
         /\ ResetLevel(t) => Moved(t, "clearGone", f.todo, f.gone, f.rest)
         /\ ClearGone(t) => Moved(t, "next", f.todo, f.gone \ {Min(f.gone)}, f.rest)
         /\ EndNotify(t) => Moved(t, "store", f.todo, f.gone, f.rest)
<1>1. frame \in [Loaders -> Frames] /\ frame[t] \in Frames
  BY DEF Typed
<1>2. frame[t] = [pc |-> frame[t].pc, new |-> frame[t].new,
                  old |-> frame[t].old, todo |-> frame[t].todo,
                  gone |-> frame[t].gone, rest |-> frame[t].rest]
  BY <1>1 DEF Frames
<1>3. ASSUME NEW r, frame' = [frame EXCEPT ![t] = r]
      PROVE  /\ frame'[t] = r /\ \A s \in Loaders : s # t => frame'[s] = frame[s]
             /\ DOMAIN frame' = Loaders /\ frame' = [s \in Loaders |-> frame'[s]]
  BY <1>1, <1>3
<1> USE DEF Moved
<1>4. SetLevel(t) => Moved(t, "format", frame[t].todo, frame[t].gone, frame[t].rest)
  BY <1>2, <1>3 DEF SetLevel
<1>5. SetFormatter(t) =>
        Moved(t, "clear", frame[t].todo, frame[t].gone, frame[t].rest)
  BY <1>2, <1>3 DEF SetFormatter
<1>6. ClearAppender(t) =>
        Moved(t, "add", frame[t].todo, frame[t].gone, Define(t).appenders)
  BY <1>1, <1>2, <1>3 DEF ClearAppender
<1>7. AddAppender(t) =>
        Moved(t, "add", frame[t].todo, frame[t].gone, Tail(frame[t].rest))
  <2>1. AddAppender(t) => frame[t].pc = "add"
    BY DEF AddAppender
  <2> QED
    BY <1>2, <1>3, <2>1 DEF AddAppender
<1>8. NextDefine(t) =>
        Moved(t, "next", frame[t].todo \ {First(t)}, frame[t].gone, frame[t].rest)
  BY <1>1, <1>2, <1>3 DEF NextDefine
<1>9. ResetLevel(t) =>
        Moved(t, "clearGone", frame[t].todo, frame[t].gone, frame[t].rest)
  BY <1>2, <1>3 DEF ResetLevel
<1>10. ClearGone(t) =>
         Moved(t, "next", frame[t].todo, frame[t].gone \ {Min(frame[t].gone)},
               frame[t].rest)
  BY <1>1, <1>2, <1>3 DEF ClearGone
<1>11. EndNotify(t) =>
         Moved(t, "store", frame[t].todo, frame[t].gone, frame[t].rest)
  BY <1>2, <1>3 DEF EndNotify
<1> QED
  BY <1>4, <1>5, <1>6, <1>7, <1>8, <1>9, <1>10, <1>11, Zenon

(* A step of the listener that keeps the types of a logger keeps them all. *)
LEMMA MovedTyped ==
  ASSUME Typed, FrameInv, NEW t \in Loaders,
         NEW pc \in Places, NEW todo, todo \subseteq frame[t].todo,
         NEW gone, gone \subseteq frame[t].gone,
         NEW rest \in Seq(AppenderDefines), Moved(t, pc, todo, gone, rest),
         m_mutex' \subseteq m_mutex, UNCHANGED <<m_val, loadVars>>,
         pc \in {"format", "clear", "add"} => todo # {},
         pc = "clearGone" => gone # {} /\ todo = {},
         pc = "store" => todo = {} /\ gone = {},
         m_loggers' \subseteq Names, level' \in [Names -> 0 .. 5],
         formatter' \in [Names -> Formatters],
         appenders' \in [Names -> Seq(Appenders)]
  PROVE  Typed' /\ FrameInv'
<1>1. frame[t] \in Frames
  BY DEF Typed
<1>2. /\ frame'[t].pc = pc /\ frame'[t].new = frame[t].new
      /\ frame'[t].old = frame[t].old /\ frame'[t].todo = todo
      /\ frame'[t].gone = gone /\ frame'[t].rest = rest
  BY DEF Moved
<1>3. frame'[t] \in Frames
  BY <1>1 DEF Moved, Frames
<1>4. frame' \in [Loaders -> Frames]
  <2>1. \A s \in Loaders : frame'[s] \in Frames
    BY <1>3 DEF Moved, Typed
  <2> HIDE DEF Frames
  <2> QED
    BY <2>1 DEF Moved
<1>5. Typed'
  BY <1>4 DEF Typed, loadVars
<1>6. FrameOk(t)'
  BY <1>2 DEF FrameInv, FrameOk
<1>7. ASSUME NEW s \in Loaders, s # t PROVE FrameOk(s)'
  BY <1>7 DEF FrameInv, FrameOk, Moved
<1> QED
  BY <1>5, <1>6, <1>7 DEF FrameInv

LEMMA ListenerTyped ==
  ASSUME Typed, FrameInv, NEW t \in Loaders, Listener(t) \/ EndNotify(t)
  PROVE  Typed' /\ FrameInv'
<1> DEFINE G == Typed' /\ FrameInv'
<1> USE DEF loggerVars
<1>a. /\ frame[t] \in Frames /\ FrameOk(t)
      /\ frame[t].todo \subseteq Names /\ frame[t].gone \subseteq Names
      /\ frame[t].rest \in Seq(AppenderDefines)
  BY DEF Typed, FrameInv, Frames
<1>b. /\ m_loggers \subseteq Names /\ level \in [Names -> 0 .. 5]
      /\ formatter \in [Names -> Formatters]
      /\ appenders \in [Names -> Seq(Appenders)]
  BY DEF Typed
<1>c. frame[t].todo # {} => First(t) \in Names /\ First(t) \in frame[t].todo
  BY <1>a, FirstType
<1>d. frame[t].todo # {} =>
        /\ Define(t).level \in 0 .. 5
        /\ Parsed(Define(t).formatter) \in Formatters
        /\ Define(t).appenders \in Seq(AppenderDefines)
  BY <1>a, FirstType, DefineType
<1>e. frame[t].gone # {} => Min(frame[t].gone) \in Names
  BY <1>a, MinType
<1>f. {"format", "clear", "add", "next", "clearGone", "store"} \subseteq Places
  BY DEF Places
<1>g. \A n : [appenders EXCEPT ![n] = <<>>] \in [Names -> Seq(Appenders)]
  <2>1. <<>> \in Seq(Appenders)
    OBVIOUS
  <2> HIDE DEF Appenders
  <2> QED
    BY <1>b, <2>1
<1> HIDE DEF G
<1>1. ASSUME SetLevel(t) PROVE G
  <2>1. Moved(t, "format", frame[t].todo, frame[t].gone, frame[t].rest)
    BY <1>1, Moves
  <2>2. /\ frame[t].todo # {} /\ UNCHANGED <<m_val, m_mutex, loadVars>>
        /\ m_loggers' = m_loggers \cup {First(t)}
        /\ level' = [level EXCEPT ![First(t)] = Define(t).level]
        /\ formatter' = formatter /\ appenders' = appenders
    BY <1>1 DEF SetLevel
  <2>3. level' \in [Names -> 0 .. 5]
    BY <1>b, <1>c, <1>d, <2>2
  <2> QED
    BY <1>a, <1>b, <1>c, <1>f, <2>1, <2>2, <2>3, MovedTyped DEF G
<1>2. ASSUME SetFormatter(t) PROVE G
  <2> DEFINE f == Parsed(Define(t).formatter)
             n == First(t)
  <2>1. Moved(t, "clear", frame[t].todo, frame[t].gone, frame[t].rest)
    BY <1>2, Moves
  <2>2. /\ frame[t].todo # {} /\ UNCHANGED <<m_val, m_mutex, loadVars>>
        /\ formatter' = [formatter EXCEPT ![n] = IF f = None THEN @ ELSE f]
        /\ level' = level /\ m_loggers' = m_loggers
    BY <1>2, <1>a DEF SetFormatter, FrameOk
  <2>3. appenders' = [appenders EXCEPT ![n] =
          [i \in DOMAIN @ |-> IF f = None \/ @[i].own THEN @[i]
                              ELSE Appender(@[i].dest, @[i].level, None, f)]]
    BY <1>2 DEF SetFormatter
  <2>4. n \in Names /\ f \in Formatters
    BY <1>c, <1>d, <2>2
  <2> HIDE DEF f, n
  <2>5. formatter' \in [Names -> Formatters]
    BY <1>b, <2>2, <2>4
  <2>6. \A a \in Appenders : Appender(a.dest, a.level, None, f) \in Appenders
    BY <2>4 DEF Appender, Appenders
  <2>7. appenders' \in [Names -> Seq(Appenders)]
    <3> DEFINE s == appenders[n]
               r == [i \in DOMAIN s |->
                       IF f = None \/ s[i].own THEN s[i]
                       ELSE Appender(s[i].dest, s[i].level, None, f)]
    <3>1. s \in Seq(Appenders)
      BY <1>b, <2>4
    <3>2. r \in Seq(Appenders)
      <4>1. Len(s) \in Nat /\ DOMAIN s = 1 .. Len(s)
        BY <3>1
      <4>2. \A i \in 1 .. Len(s) : s[i] \in Appenders
        BY <3>1
      <4> HIDE DEF s
      <4>3. \A i \in 1 .. Len(s) : r[i] \in Appenders
        BY <2>6, <4>1, <4>2
      <4> QED
        BY <4>1, <4>3
    <3>3. appenders' = [appenders EXCEPT ![n] = r]
      BY <2>3
    <3> HIDE DEF r
    <3> QED
      BY <1>b, <2>4, <3>2, <3>3
  <2> QED
    BY <1>a, <1>b, <1>f, <2>1, <2>2, <2>5, <2>7, MovedTyped DEF G
<1>3. ASSUME ClearAppender(t) PROVE G
  <2>1. Moved(t, "add", frame[t].todo, frame[t].gone, Define(t).appenders)
    BY <1>3, Moves
  <2>2. /\ frame[t].todo # {} /\ UNCHANGED <<m_val, m_mutex, loadVars>>
        /\ appenders' = [appenders EXCEPT ![First(t)] = <<>>]
        /\ level' = level /\ m_loggers' = m_loggers /\ formatter' = formatter
    BY <1>3, <1>a DEF ClearAppender, FrameOk
  <2>3. appenders' \in [Names -> Seq(Appenders)]
    BY <1>b, <1>c, <1>g, <2>2
  <2> QED
    BY <1>a, <1>b, <1>d, <1>f, <2>1, <2>2, <2>3, MovedTyped DEF G
<1>4. ASSUME AddAppender(t) PROVE G
  <2>1. Moved(t, "add", frame[t].todo, frame[t].gone, Tail(frame[t].rest))
    BY <1>4, Moves
  <2>2. /\ frame[t].todo # {} /\ UNCHANGED <<m_val, m_mutex, loadVars>>
        /\ frame[t].rest # <<>>
        /\ appenders' = [appenders EXCEPT ![First(t)] =
             Append(@, Configured(Head(frame[t].rest), formatter[First(t)]))]
        /\ level' = level /\ m_loggers' = m_loggers /\ formatter' = formatter
    BY <1>4, <1>a DEF AddAppender, FrameOk
  <2>3. /\ Head(frame[t].rest) \in AppenderDefines
        /\ Tail(frame[t].rest) \in Seq(AppenderDefines)
    BY <1>a, <2>2
  <2>4. Configured(Head(frame[t].rest), formatter[First(t)]) \in Appenders
    BY <1>b, <1>c, <2>2, <2>3, ConfiguredType
  <2>5. appenders' \in [Names -> Seq(Appenders)]
    BY <1>b, <1>c, <2>2, <2>4
  <2> QED
    BY <1>a, <1>b, <1>f, <2>1, <2>2, <2>3, <2>5, MovedTyped DEF G
<1>5. ASSUME NextDefine(t) PROVE G
  <2>1. Moved(t, "next", frame[t].todo \ {First(t)}, frame[t].gone, frame[t].rest)
    BY <1>5, Moves
  <2>2. UNCHANGED <<m_val, m_mutex, loadVars, m_loggers, level, formatter, appenders>>
    BY <1>5 DEF NextDefine
  <2> QED
    BY <1>a, <1>b, <1>f, <2>1, <2>2, MovedTyped DEF G
<1>6. ASSUME ResetLevel(t) PROVE G
  <2>1. Moved(t, "clearGone", frame[t].todo, frame[t].gone, frame[t].rest)
    BY <1>6, Moves
  <2>2. /\ frame[t].todo = {} /\ frame[t].gone # {}
        /\ UNCHANGED <<m_val, m_mutex, loadVars>>
        /\ m_loggers' = m_loggers \cup {Min(frame[t].gone)}
        /\ level' = [level EXCEPT ![Min(frame[t].gone)] = 0]
        /\ formatter' = formatter /\ appenders' = appenders
    BY <1>6 DEF ResetLevel
  <2>3. level' \in [Names -> 0 .. 5]
    <3>1. 0 \in 0 .. 5
      OBVIOUS
    <3> QED
      BY <1>b, <1>e, <2>2, <3>1
  <2> QED
    BY <1>a, <1>b, <1>e, <1>f, <2>1, <2>2, <2>3, MovedTyped DEF G
<1>7. ASSUME ClearGone(t) PROVE G
  <2>1. Moved(t, "next", frame[t].todo, frame[t].gone \ {Min(frame[t].gone)},
              frame[t].rest)
    BY <1>7, Moves
  <2>2. /\ UNCHANGED <<m_val, m_mutex, loadVars>>
        /\ appenders' = [appenders EXCEPT ![Min(frame[t].gone)] = <<>>]
        /\ level' = level /\ m_loggers' = m_loggers /\ formatter' = formatter
    BY <1>7 DEF ClearGone
  <2>3. appenders' \in [Names -> Seq(Appenders)]
    BY <1>b, <1>g, <2>2
  <2> QED
    BY <1>a, <1>b, <1>f, <2>1, <2>2, <2>3, MovedTyped DEF G
<1>8. ASSUME EndNotify(t) PROVE G
  <2>1. Moved(t, "store", frame[t].todo, frame[t].gone, frame[t].rest)
    BY <1>8, Moves
  <2>2. /\ frame[t].todo = {} /\ frame[t].gone = {} /\ m_mutex' = m_mutex \ {t}
        /\ UNCHANGED <<m_val, loadVars, m_loggers, level, formatter, appenders>>
    BY <1>8 DEF EndNotify
  <2> QED
    BY <1>a, <1>b, <1>f, <2>1, <2>2, MovedTyped DEF G
<1> QED
  BY <1>1, <1>2, <1>3, <1>4, <1>5, <1>6, <1>7, <1>8 DEF Listener, G

LEMMA IdleType == Idle \in Frames
<1>1. [n \in Names |-> None] \in Values
  BY DEF Values
<1> HIDE DEF Values
<1> QED
  BY <1>1 DEF Idle, Frames, Places

(* The frame of a loader that begins.                                      *)
LEMMA LoadFrame ==
  ASSUME Typed, NEW t \in Loaders, NEW x \in Values, Load(t, x)
  PROVE  /\ frame'[t].pc = "next" /\ frame'[t].new = x /\ frame'[t].old = m_val
         /\ frame'[t].todo = {n \in Names : x[n] # None /\ x[n] # m_val[n]}
         /\ frame'[t].gone = {n \in Names : x[n] = None /\ m_val[n] # None}
         /\ \A s \in Loaders : s # t => frame'[s] = frame[s]
         /\ frame' \in [Loaders -> Frames]
<1> DEFINE todo == {n \in Names : x[n] # None /\ x[n] # m_val[n]}
           gone == {n \in Names : x[n] = None /\ m_val[n] # None}
           r == [pc |-> "next", new |-> x, old |-> m_val, todo |-> todo,
                 gone |-> gone, rest |-> <<>>]
<1>1. frame' = [frame EXCEPT ![t] = r]
  BY DEF Load, Differ
<1>2. todo \subseteq Names /\ gone \subseteq Names
  OBVIOUS
<1> HIDE DEF todo, gone
<1>3. r \in Frames
  <2>1. "next" \in Places /\ m_val \in Values
    BY DEF Typed, Places
  <2>2. <<>> \in Seq(AppenderDefines)
    OBVIOUS
  <2> HIDE DEF Values
  <2> QED
    BY <1>2, <2>1, <2>2 DEF Frames
<1>4. /\ r.pc = "next" /\ r.new = x /\ r.old = m_val /\ r.todo = todo
      /\ r.gone = gone
  OBVIOUS
<1> HIDE DEF r, Frames
<1>5. frame \in [Loaders -> Frames]
  BY DEF Typed
<1>6. frame'[t] = r /\ \A s \in Loaders : s # t => frame'[s] = frame[s]
  BY <1>1, <1>5
<1>7. frame' \in [Loaders -> Frames]
  BY <1>1, <1>3, <1>5
<1> QED
  BY <1>4, <1>6, <1>7 DEF todo, gone

LEMMA TypedStep == Typed /\ FrameInv /\ [Next]_vars => Typed' /\ FrameInv'
<1> SUFFICES ASSUME Typed, FrameInv, [Next]_vars PROVE Typed' /\ FrameInv'
  OBVIOUS
<1> USE DEF loggerVars, loadVars
<1>1. ASSUME NEW t \in Loaders, Listener(t) \/ EndNotify(t)
      PROVE  Typed' /\ FrameInv'
  BY <1>1, ListenerTyped
<1>2. ASSUME NEW t \in Loaders, Store(t) PROVE Typed' /\ FrameInv'
  <2>1. /\ frame'[t] = Idle /\ frame' \in [Loaders -> Frames]
        /\ \A s \in Loaders : s # t => frame'[s] = frame[s]
    BY <1>2, IdleType DEF Store, Typed
  <2>2. m_val' \in Values
    BY <1>2 DEF Store, Typed, Frames
  <2>3. Typed'
    BY <1>2, <2>1, <2>2 DEF Store, Typed
  <2>4. FrameOk(t)'
    BY <2>1 DEF FrameOk, Idle
  <2> QED
    BY <2>1, <2>3, <2>4 DEF FrameInv, FrameOk
<1>3. ASSUME NEW t \in Loaders, NEW x \in Values, Load(t, x)
      PROVE  Typed' /\ FrameInv'
  <2>1. frame' \in [Loaders -> Frames]
    BY <1>3, LoadFrame
  <2>2. loads' \in 0 .. MaxLoads
    BY <1>3, LogConfigAssumption DEF Load, Typed
  <2>3. overlapped' \in BOOLEAN
    BY <1>3 DEF Load
  <2>4. Typed'
    BY <1>3, <2>1, <2>2, <2>3 DEF Load, Typed
  <2>5. FrameOk(t)'
    <3>1. /\ frame'[t].pc = "next" /\ frame'[t].new = x
          /\ frame'[t].todo = {n \in Names : x[n] # None /\ x[n] # m_val[n]}
          /\ frame'[t].gone = {n \in Names : x[n] = None /\ m_val[n] # None}
      BY <1>3, LoadFrame
    <3> QED
      BY <3>1 DEF FrameOk
  <2>6. \A s \in Loaders : s # t => frame'[s] = frame[s]
    BY <1>3, LoadFrame
  <2> QED
    BY <2>4, <2>5, <2>6 DEF FrameInv, FrameOk
<1>4. ASSUME NEW n \in Names, GetLogger(n) PROVE Typed' /\ FrameInv'
  BY <1>4 DEF GetLogger, Typed, FrameInv, FrameOk
<1>5. CASE UNCHANGED vars
  BY <1>5 DEF vars, Typed, FrameInv, FrameOk
<1> QED
  BY <1>1, <1>2, <1>3, <1>4, <1>5 DEF Next

LEMMA InitTyped == Init => Typed /\ FrameInv
<1> SUFFICES ASSUME Init PROVE Typed /\ FrameInv
  OBVIOUS
<1>1. formatter \in [Names -> Formatters]
  BY DEF Init, Formatters
<1>2. appenders \in [Names -> Seq(Appenders)]
  <2> DEFINE a == Appender(Console, 1, None, Default)
  <2>1. a \in Appenders
    BY DEF Appender, Appenders, Destinations, Formatters
  <2> HIDE DEF a, Appenders
  <2>2. <<a>> \in Seq(Appenders) /\ <<>> \in Seq(Appenders)
    BY <2>1
  <2>3. appenders = [n \in Names |-> IF n = Root THEN <<a>> ELSE <<>>]
    BY DEF Init, a
  <2> QED
    BY <2>2, <2>3
<1>3. frame \in [Loaders -> Frames]
  BY IdleType DEF Init
<1>4. m_val \in Values
  BY DEF Init, Values
<1>5. Typed
  <2>1. level \in [Names -> 0 .. 5]
    BY DEF Init
  <2>2. overlapped \in BOOLEAN
    BY DEF Init
  <2>3. /\ m_mutex \subseteq Loaders /\ m_loggers \subseteq Names
        /\ loads \in 0 .. MaxLoads
    BY LogConfigAssumption DEF Init
  <2> QED
    BY <1>1, <1>2, <1>3, <1>4, <2>1, <2>2, <2>3 DEF Typed
<1>6. FrameInv
  BY DEF Init, FrameInv, FrameOk, Idle
<1> QED
  BY <1>5, <1>6

LEMMA TypesKept == Spec => [](Typed /\ FrameInv)
BY InitTyped, TypedStep, PTL DEF Spec

(* The configuration and the loggers keep their types, also while several  *)
(* threads configure them (log.cc:653-678, 829-895).                       *)
THEOREM TypeCorrect == Spec => []TypeOK
<1>1. ASSUME Typed PROVE TypeOK
  <2>1. ASSUME NEW n \in Names, NEW i \in DOMAIN appenders[n]
        PROVE  appenders[n][i] \in Appenders
    <3>1. appenders[n] \in Seq(Appenders)
      BY <1>1 DEF Typed
    <3> HIDE DEF Appenders
    <3> QED
      BY <3>1
  <2>2. ASSUME NEW n \in Names, NEW i \in DOMAIN appenders[n]
        PROVE  /\ DOMAIN appenders[n][i] = {"dest", "level", "own", "formatter"}
               /\ appenders[n][i].level \in 0 .. 5
               /\ appenders[n][i].own \in BOOLEAN
    BY <2>1 DEF Appenders
  <2>3. \A t \in Loaders : frame[t] \in Frames
    BY <1>1 DEF Typed
  <2> QED
    BY <1>1, <2>2, <2>3 DEF Typed, TypeOK, Frames, Places
<1> QED
  BY TypesKept, <1>1, PTL

-----------------------------------------------------------------------------
(* What is written of the loggers.                                         *)

(* A pattern that makes a formatter.                                       *)
Valid(f) == f # None /\ f \notin Invalid

(* An appender of a logger whose formatter is f: if it has none of its own,*)
(* it has the logger's.                                                    *)
Listed(a, f) ==
  /\ a.dest # None
  /\ Valid(a.formatter)
  /\ a.own \/ a.formatter = f

Writable(n) ==
  /\ Valid(formatter[n])
  /\ \A i \in DOMAIN appenders[n] : Listed(appenders[n][i], formatter[n])

WritableInv == \A n \in Names : Writable(n)

LEMMA ConfiguredListed ==
  ASSUME NEW a \in AppenderDefines, NEW f, Valid(f)
  PROVE  Listed(Configured(a, f), f)
<1>1. a.type = 1 => a.file # None
  BY DEF AppenderDefines, ReadFrom, ReadAppender, Usable
<1>2. Console # None
  BY LogConfigAssumption
<1> QED
  BY <1>1, <1>2 DEF Configured, Appender, Listed, Valid, Parsed

(* A step changes the formatter and the appenders of one logger at most.   *)
LEMMA OneChanges ==
  ASSUME WritableInv, NEW n \in Names,
         \A m \in Names : m # n => /\ formatter'[m] = formatter[m]
                                  /\ appenders'[m] = appenders[m],
         Writable(n)'
  PROVE  WritableInv'
<1>1. ASSUME NEW m \in Names, m # n PROVE Writable(m)'
  BY <1>1 DEF WritableInv, Writable
<1> QED
  BY <1>1 DEF WritableInv

LEMMA ListenerWritable ==
  ASSUME Typed, FrameInv, WritableInv, NEW t \in Loaders, Listener(t)
  PROVE  WritableInv'
<1> USE DEF loggerVars
<1>a. /\ frame[t] \in Frames /\ FrameOk(t)
      /\ frame[t].gone \subseteq Names
      /\ frame[t].rest \in Seq(AppenderDefines)
  BY DEF Typed, FrameInv, Frames
<1>b. /\ formatter \in [Names -> Formatters]
      /\ appenders \in [Names -> Seq(Appenders)]
  BY DEF Typed
<1>c. frame[t].todo # {} => First(t) \in Names
  BY <1>a, FirstType
<1>d. frame[t].gone # {} => Min(frame[t].gone) \in Names
  BY <1>a, MinType
<1>1. CASE UNCHANGED <<formatter, appenders>>
  BY <1>1 DEF WritableInv, Writable
<1>2. ASSUME NEW n \in Names, formatter' = formatter,
             appenders' = [appenders EXCEPT ![n] = <<>>]
      PROVE  WritableInv'
  <2>1. Writable(n)'
    BY <1>b, <1>2 DEF Writable, WritableInv
  <2> QED
    BY <1>b, <1>2, <2>1, OneChanges
<1>3. CASE SetFormatter(t)
  <2>0. PICK n, f : n = First(t) /\ f = Parsed(Define(t).formatter)
    OBVIOUS
  <2>1. /\ n \in Names
        /\ formatter' = [formatter EXCEPT ![n] = IF f = None THEN @ ELSE f]
        /\ appenders' = [appenders EXCEPT ![n] =
             [i \in DOMAIN @ |-> IF f = None \/ @[i].own THEN @[i]
                                 ELSE Appender(@[i].dest, @[i].level, None, f)]]
    BY <1>3, <1>a, <1>c, <2>0 DEF SetFormatter, FrameOk
  <2>2. f = None \/ Valid(f)
    BY <2>0 DEF Parsed, Valid
  <2> DEFINE old == appenders[n]
             new == appenders'[n]
  <2>3. /\ formatter'[n] = IF f = None THEN formatter[n] ELSE f
        /\ DOMAIN new = DOMAIN old
        /\ \A i \in DOMAIN old :
             new[i] = IF f = None \/ old[i].own THEN old[i]
                      ELSE Appender(old[i].dest, old[i].level, None, f)
    BY <1>b, <2>1
  <2>4. Writable(n)
    BY <2>1 DEF WritableInv
  <2>5. ASSUME NEW i \in DOMAIN old PROVE Listed(new[i], formatter'[n])
    <3>1. Listed(old[i], formatter[n])
      BY <2>4 DEF Writable
    <3>2. CASE f = None
      BY <2>3, <3>1, <3>2
    <3>3. CASE f # None /\ old[i].own
      BY <2>3, <3>1, <3>3 DEF Listed
    <3>4. CASE f # None /\ ~ old[i].own
      <4>1. new[i] = Appender(old[i].dest, old[i].level, None, f)
        BY <2>3, <3>4
      <4>2. new[i].dest = old[i].dest /\ new[i].formatter = f
        BY <4>1 DEF Appender
      <4>3. formatter'[n] = f /\ Valid(f)
        BY <2>2, <2>3, <3>4
      <4> HIDE DEF new, old
      <4> QED
        BY <3>1, <4>2, <4>3 DEF Listed
    <3> QED
      BY <3>2, <3>3, <3>4
  <2>6. Writable(n)'
    BY <2>2, <2>3, <2>4, <2>5 DEF Writable
  <2>7. \A m \in Names : m # n => /\ formatter'[m] = formatter[m]
                                  /\ appenders'[m] = appenders[m]
    BY <1>b, <2>1
  <2> QED
    BY <2>1, <2>6, <2>7, OneChanges
<1>4. CASE ClearAppender(t)
  <2>1. PICK n \in Names : n = First(t)
    BY <1>4, <1>a, <1>c DEF ClearAppender, FrameOk
  <2> QED
    BY <1>2, <1>4, <2>1 DEF ClearAppender
<1>5. CASE AddAppender(t)
  <2>0. PICK n, a : /\ n = First(t)
                    /\ a = Configured(Head(frame[t].rest), formatter[n])
    OBVIOUS
  <2>1. /\ n \in Names /\ formatter' = formatter /\ frame[t].rest # <<>>
        /\ appenders' = [appenders EXCEPT ![n] = Append(@, a)]
    BY <1>5, <1>a, <1>c, <2>0 DEF AddAppender, FrameOk
  <2>2. Writable(n)
    BY <2>1 DEF WritableInv
  <2>3. Head(frame[t].rest) \in AppenderDefines
    BY <1>a, <2>1
  <2>4. Listed(a, formatter[n])
    BY <2>0, <2>2, <2>3, ConfiguredListed DEF Writable
  <2>5. appenders'[n] = Append(appenders[n], a) /\ appenders[n] \in Seq(Appenders)
    BY <1>b, <2>1
  <2>6. \A i \in DOMAIN appenders'[n] :
          \/ i \in DOMAIN appenders[n] /\ appenders'[n][i] = appenders[n][i]
          \/ appenders'[n][i] = a
    <3> HIDE DEF Appenders
    <3> QED
      BY <2>5
  <2>7. Writable(n)'
    BY <2>1, <2>2, <2>4, <2>6 DEF Writable
  <2> QED
    BY <1>b, <2>1, <2>7, OneChanges
<1>6. CASE ClearGone(t)
  <2>1. PICK n \in Names : n = Min(frame[t].gone)
    BY <1>6, <1>a, <1>d DEF ClearGone, FrameOk
  <2> QED
    BY <1>2, <1>6, <2>1 DEF ClearGone
<1>7. CASE SetLevel(t) \/ NextDefine(t) \/ ResetLevel(t)
  BY <1>1, <1>7 DEF SetLevel, NextDefine, ResetLevel
<1> QED
  BY <1>3, <1>4, <1>5, <1>6, <1>7 DEF Listener

LEMMA WritableStep ==
  Typed /\ FrameInv /\ WritableInv /\ [Next]_vars => WritableInv'
<1> SUFFICES ASSUME Typed, FrameInv, WritableInv, [Next]_vars
             PROVE  WritableInv'
  OBVIOUS
<1> USE DEF loggerVars
<1>1. CASE UNCHANGED <<formatter, appenders>>
  BY <1>1 DEF WritableInv, Writable
<1>2. ASSUME NEW t \in Loaders, Listener(t) PROVE WritableInv'
  BY <1>2, ListenerWritable
<1>3. ASSUME NEW t \in Loaders, EndNotify(t) \/ Store(t) PROVE WritableInv'
  BY <1>1, <1>3 DEF EndNotify, Store
<1>4. ASSUME NEW t \in Loaders, NEW x \in Values, Load(t, x) PROVE WritableInv'
  BY <1>1, <1>4 DEF Load
<1>5. ASSUME NEW n \in Names, GetLogger(n) PROVE WritableInv'
  BY <1>1, <1>5 DEF GetLogger
<1>6. CASE UNCHANGED vars
  BY <1>1, <1>6 DEF vars
<1> QED
  BY <1>2, <1>3, <1>4, <1>5, <1>6 DEF Next

LEMMA InitWritable == Init => WritableInv
<1> SUFFICES ASSUME Init, NEW n \in Names PROVE Writable(n)
  BY DEF WritableInv
<1>1. formatter[n] = Default /\ Valid(Default) /\ Console # None
  BY LogConfigAssumption DEF Init, Valid
<1> DEFINE a == Appender(Console, 1, None, Default)
<1>2. appenders[n] \in {<<a>>, <<>>}
  BY DEF Init
<1>3. Listed(a, formatter[n])
  BY <1>1 DEF Listed, Appender
<1> HIDE DEF a
<1> QED
  BY <1>1, <1>2, <1>3 DEF Writable

LEMMA WritableKept == Spec => []WritableInv
BY TypesKept, InitWritable, WritableStep, PTL DEF Spec

(* An appender that is written is read as one that configures the same.    *)
LEMMA AppenderRestored ==
  ASSUME NEW f, NEW a \in Appenders, Listed(a, f)
  PROVE  /\ Usable(AppenderToYaml(a))
         /\ Configured(ReadAppender(AppenderToYaml(a)), f) =
              [a EXCEPT !.level = UNKONW]
<1> DEFINE y == ReadAppender(AppenderToYaml(a))
           own == IF a.own THEN a.formatter ELSE None
<1>1. [a EXCEPT !.level = UNKONW] =
        [dest |-> a.dest, level |-> UNKONW, own |-> a.own,
         formatter |-> a.formatter]
  BY DEF Appenders
<1>2. CASE a.dest = Console
  <2>1. /\ Usable(AppenderToYaml(a))
        /\ y.type = 2 /\ y.level = UNKONW /\ y.formatter = own
    BY <1>2 DEF AppenderToYaml, Usable, ReadAppender
  <2> HIDE DEF y
  <2>2. Configured(y, f) = Appender(a.dest, UNKONW, Parsed(own), f)
    BY <1>2, <2>1 DEF Configured
  <2> QED
    BY <1>1, <2>1, <2>2 DEF Appender, Parsed, Listed, Valid, Appenders, y
<1>3. CASE a.dest # Console
  <2>1. /\ Usable(AppenderToYaml(a))
        /\ y.type = 1 /\ y.file = a.dest /\ y.level = UNKONW /\ y.formatter = own
    BY <1>3 DEF AppenderToYaml, Usable, ReadAppender, Listed
  <2> HIDE DEF y
  <2>2. Configured(y, f) = Appender(a.dest, UNKONW, Parsed(own), f)
    BY <1>3, <2>1 DEF Configured
  <2> QED
    BY <1>1, <2>1, <2>2 DEF Appender, Parsed, Listed, Valid, Appenders, y
<1> QED
  BY <1>2, <1>3

LEMMA LoggerRestored ==
  ASSUME Typed, NEW n \in Names, Writable(n)
  PROVE  NewLogger(FromYaml(LoggerToYaml(n))) =
           [level |-> level[n], formatter |-> formatter[n],
            appenders |-> [i \in DOMAIN appenders[n] |->
                            [appenders[n][i] EXCEPT !.level = UNKONW]]]
<1> DEFINE s == appenders[n]
           f == formatter[n]
           W == {AppenderToYaml(a) : a \in Appenders}
           w == [i \in DOMAIN s |-> AppenderToYaml(s[i])]
           d == FromYaml(LoggerToYaml(n))
<1>1. /\ s \in Seq(Appenders) /\ level[n] \in 0 .. 5
      /\ DOMAIN s = 1 .. Len(s) /\ Len(s) \in Nat
  BY DEF Typed
<1>2. \A i \in 1 .. Len(s) : s[i] \in Appenders /\ Listed(s[i], f)
  <2> HIDE DEF Appenders
  <2> QED
    BY <1>1 DEF Writable
<1> HIDE DEF s
<1>3. /\ w \in Seq(W) /\ Len(w) = Len(s)
      /\ \A i \in 1 .. Len(s) : w[i] = AppenderToYaml(s[i])
  <2>1. \A i \in 1 .. Len(s) : AppenderToYaml(s[i]) \in W
    BY <1>2
  <2> HIDE DEF W
  <2> QED
    BY <1>1, <2>1
<1>4. /\ d.level = LevelFromString(WriteLevel(level[n])) /\ d.formatter = f
      /\ d.appenders = ReadUpTo(w)[Len(w)]
  BY DEF LoggerToYaml, FromYaml, s
<1>5. d.level = level[n] /\ Parsed(d.formatter) = f /\ f # None
  BY <1>1, <1>4, LevelKept DEF Writable, Valid, Parsed
<1> HIDE DEF w, W, d
<1>6. d.appenders = [i \in 1 .. Len(s) |-> ReadAppender(w[i])]
  <2>1. \A i \in 1 .. Len(w) : Usable(w[i])
    BY <1>2, <1>3, AppenderRestored
  <2> QED
    BY <1>3, <1>4, <2>1, AllRead
<1>7. NewLogger(d) =
        [level |-> level[n], formatter |-> f,
         appenders |-> [i \in DOMAIN d.appenders |-> Configured(d.appenders[i], f)]]
  BY <1>5 DEF NewLogger
<1>8. [i \in DOMAIN d.appenders |-> Configured(d.appenders[i], f)] =
        [i \in DOMAIN s |-> [s[i] EXCEPT !.level = UNKONW]]
  <2>1. \A i \in 1 .. Len(s) : Configured(ReadAppender(w[i]), f) =
                                [s[i] EXCEPT !.level = UNKONW]
    BY <1>2, <1>3, AppenderRestored
  <2>2. \A i \in 1 .. Len(s) : d.appenders[i] = ReadAppender(w[i])
    BY <1>6
  <2>3. DOMAIN d.appenders = 1 .. Len(s)
    BY <1>6
  <2> QED
    BY <1>1, <2>1, <2>2, <2>3
<1> QED
  BY <1>7, <1>8 DEF s, d

(* Any LogDefine that was read is read again, as it was, from the YAML     *)
(* that is written of it, and what LoggerManager::toYamlString writes of a *)
(* logger, at any time, configures one like it, but for the levels of its  *)
(* appenders (log.cc:311-331, 415-470, 735-827).                           *)
THEOREM WritingLosesNothing == Spec => []RoundTrip
<1>1. ASSUME Typed PROVE DefinesKept
  <2> SUFFICES ASSUME NEW n \in Names, m_val[n] # None
               PROVE  FromYaml(ToYaml(m_val[n])) = m_val[n]
    BY DEF DefinesKept
  <2>1. m_val[n] \in Defines
    BY <1>1 DEF Typed, Values
  <2>2. PICK x \in Nodes : m_val[n] = FromYaml(x)
    BY <2>1 DEF Defines
  <2> QED
    BY <2>2, DefineKept, LogConfigAssumption
<1>2. ASSUME Typed, WritableInv PROVE LoggersKept
  BY <1>2, LoggerRestored DEF LoggersKept, WritableInv, Typed
<1>3. Typed /\ WritableInv => RoundTrip
  BY <1>1, <1>2 DEF RoundTrip
<1> QED
  BY TypesKept, WritableKept, <1>3, PTL

-----------------------------------------------------------------------------
(* What a load has configured, while no two loads overlap.                 *)

(* A logger is as a LogDefine says; without one it has no appenders,       *)
(* unless it is the one that was never configured.                         *)
AsDefined(n, d) ==
  IF d = None
  THEN \/ appenders[n] = <<>>
       \/ n = Root /\ level[n] = 1 /\ Dests(appenders[n]) = <<Console>>
  ELSE /\ n \in m_loggers
       /\ level[n] = d.level
       /\ Parsed(d.formatter) \in {None, formatter[n]}
       /\ appenders[n] = [i \in DOMAIN d.appenders |->
                            Configured(d.appenders[i], formatter[n])]

(* It still writes to what a LogDefine says, or to nothing any more.       *)
WritesAs(n, d) ==
  \/ appenders[n] = <<>>
  \/ d # None /\ Dests(appenders[n]) = DefineDests(d)
  \/ n = Root /\ d = None /\ Dests(appenders[n]) = <<Console>>

AsNew(t, n) ==
  /\ AsDefined(n, frame[t].new[n])
  /\ frame[t].new[n] = None /\ frame[t].old[n] # None => appenders[n] = <<>>

WritesOld(t, n) == WritesAs(n, frame[t].old[n])

AsStored(n) == AsDefined(n, m_val[n])

Pending(t) == frame[t].todo \cup frame[t].gone

(* What is left of the LogAppenderDefines comes after those that the       *)
(* logger has appenders for.                                               *)
Adding(t) ==
  LET all == Define(t).appenders  has == appenders[First(t)]
  IN  /\ Len(has) + Len(frame[t].rest) = Len(all)
      /\ \A i \in 1 .. Len(has) :
           has[i] = Configured(all[i], formatter[First(t)])
      /\ \A i \in 1 .. Len(frame[t].rest) :
           frame[t].rest[i] = all[Len(has) + i]

(* The logger being configured, as far as the listener has come.           *)
Current(t) ==
  /\ frame[t].pc \in {"format", "clear", "add"} =>
       First(t) \in m_loggers /\ level[First(t)] = Define(t).level
  /\ frame[t].pc \in {"clear", "add"} =>
       Parsed(Define(t).formatter) \in {None, formatter[First(t)]}
  /\ frame[t].pc = "add" => Adding(t)

(* Those that are done are as the new value says, the others still write   *)
(* to what the old one says.                                               *)
Halfway(t) ==
  /\ frame[t].old = m_val
  /\ \A n \in Names \ Pending(t) : AsNew(t, n)
  /\ \A n \in Pending(t) :
       ~ (frame[t].pc = "add" /\ n = First(t)) => WritesOld(t, n)
  /\ Current(t)

Active(t) == frame[t].pc # "idle"

Configuring ==
  /\ \A s, t \in Loaders : Active(s) /\ Active(t) => s = t
  /\ \A t \in Loaders : Active(t) => Halfway(t)
  /\ (\A t \in Loaders : ~ Active(t)) => \A n \in Names : AsStored(n)

ConfigInv == ~ overlapped => Configuring

(* What an appender writes to does not depend on the logger's formatter.   *)
LEMMA DestsConfigured ==
  ASSUME NEW d, NEW f,
         NEW s, s = [i \in DOMAIN d.appenders |-> Configured(d.appenders[i], f)]
  PROVE  Dests(s) = DefineDests(d)
<1>1. \A a : Configured(a, f).dest = Configured(a, None).dest
  BY DEF Configured, Appender
<1> HIDE DEF Configured
<1> QED
  BY <1>1 DEF Dests, DefineDests

LEMMA DefinedWrites ==
  ASSUME NEW n, NEW d, AsDefined(n, d)
  PROVE  /\ WritesAs(n, d)
         /\ d # None => Dests(appenders[n]) = DefineDests(d)
BY DestsConfigured DEF AsDefined, WritesAs

LEMMA Untouched ==
  ASSUME NEW n, appenders'[n] = appenders[n], level'[n] = level[n],
         formatter'[n] = formatter[n], m_loggers \subseteq m_loggers',
         NEW t, frame'[t].new = frame[t].new, frame'[t].old = frame[t].old
  PROVE  /\ AsNew(t, n) => AsNew(t, n)'
         /\ WritesOld(t, n) => WritesOld(t, n)'
BY DEF AsNew, WritesOld, AsDefined, WritesAs

(* A step of the listener: what it has to do to logger c, the one that is  *)
(* being configured.                                                       *)
LEMMA HalfwayMoved ==
  ASSUME Typed, NEW t \in Loaders, FrameOk(t), Halfway(t), m_val' = m_val,
         NEW pc, NEW todo, NEW gone, NEW rest, Moved(t, pc, todo, gone, rest),
         NEW c \in Pending(t),
         todo \cup gone = Pending(t) \/ todo \cup gone = Pending(t) \ {c},
         m_loggers \subseteq m_loggers',
         \A n \in Names : n # c =>
           appenders'[n] = appenders[n] /\ level'[n] = level[n]
             /\ formatter'[n] = formatter[n],
         frame[t].pc = "add" => c = First(t),
         c \in todo \cup gone =>
           (pc = "add" /\ c = First(t)') \/ WritesOld(t, c)',
         c \notin todo \cup gone => AsNew(t, c)',
         Current(t)'
  PROVE  Halfway(t)'
<1>1. /\ frame'[t].pc = pc /\ frame'[t].new = frame[t].new
      /\ frame'[t].old = frame[t].old /\ frame'[t].todo = todo
      /\ frame'[t].gone = gone /\ frame'[t].rest = rest
  BY DEF Moved
<1>2. Pending(t)' = todo \cup gone
  BY <1>1 DEF Pending
<1>3. Pending(t) \subseteq Names
  BY DEF Typed, Frames, Pending
<1>4. frame'[t].old = m_val'
  BY <1>1 DEF Halfway
<1>5. ASSUME NEW n \in Names \ Pending(t)' PROVE AsNew(t, n)'
  <2>1. CASE n = c
    BY <1>2, <1>5, <2>1
  <2>2. CASE n # c
    <3>1. n \in Names \ Pending(t)
      BY <1>2, <1>5, <2>2
    <3>2. AsNew(t, n)
      BY <3>1 DEF Halfway
    <3> QED
      BY <1>1, <2>2, <3>2, Untouched
  <2> QED
    BY <2>1, <2>2
<1>6. ASSUME NEW n \in Pending(t)', ~ (pc = "add" /\ n = First(t)')
      PROVE  WritesOld(t, n)'
  <2>1. CASE n = c
    BY <1>2, <1>6, <2>1
  <2>2. CASE n # c
    <3>1. n \in Pending(t) /\ n \in Names
      BY <1>2, <1>3, <1>6, <2>2
    <3>2. WritesOld(t, n)
      BY <2>2, <3>1 DEF Halfway
    <3> QED
      BY <1>1, <2>2, <3>1, <3>2, Untouched
  <2> QED
    BY <2>1, <2>2
<1> QED
  BY <1>1, <1>4, <1>5, <1>6 DEF Halfway

(* While the names to do stay the same, so does the first of them.         *)
LEMMA FirstStays ==
  ASSUME NEW t, frame'[t].todo = frame[t].todo, frame'[t].new = frame[t].new
  PROVE  First(t)' = First(t) /\ Define(t)' = Define(t)
BY DEF First, Define

(* The names to do are none of those to be removed.                        *)
LEMMA PendingApart ==
  ASSUME NEW t, FrameOk(t)
  PROVE  \A n \in frame[t].todo : n \notin frame[t].gone
BY DEF FrameOk

LEMMA ListenerHalfway ==
  ASSUME Typed, NEW t \in Loaders, FrameOk(t), Halfway(t), Listener(t)
  PROVE  Halfway(t)'
<1> DEFINE f == frame[t]
           G == Halfway(t)'
<1>0. PICK c : c = First(t)
  OBVIOUS
<1> USE DEF loggerVars
<1>a. frame[t].todo # {} =>
        /\ c \in Names /\ c \in frame[t].todo /\ c \in Pending(t)
        /\ c \notin frame[t].gone /\ Define(t) \in Defines
  BY <1>0, FirstType, PendingApart DEF Pending
<1>b. /\ level \in [Names -> 0 .. 5] /\ formatter \in [Names -> Formatters]
      /\ appenders \in [Names -> Seq(Appenders)]
      /\ frame[t].todo \subseteq Names /\ frame[t].gone \subseteq Names
      /\ frame[t].rest \in Seq(AppenderDefines)
  BY DEF Typed, Frames
<1>c. frame[t].pc # "add" /\ frame[t].todo # {} => WritesOld(t, c)
  BY <1>a DEF Halfway
<1>d. frame[t].gone # {} =>
        /\ Min(frame[t].gone) \in frame[t].gone
        /\ Min(frame[t].gone) \in Pending(t)
        /\ frame[t].new[Min(frame[t].gone)] = None
  BY <1>b, MinType DEF Pending, FrameOk
<1> HIDE DEF G
<1>1. ASSUME SetLevel(t) PROVE G
  <2>1. Moved(t, "format", f.todo, f.gone, f.rest)
    BY <1>1, Moves
  <2>2. /\ f.pc = "next" /\ f.todo # {} /\ m_val' = m_val
        /\ m_loggers' = m_loggers \cup {c}
        /\ level' = [level EXCEPT ![c] = Define(t).level]
        /\ formatter' = formatter /\ appenders' = appenders
    BY <1>0, <1>1 DEF SetLevel
  <2>3. /\ frame'[t].todo = f.todo /\ frame'[t].new = f.new
        /\ frame'[t].old = f.old /\ frame'[t].pc = "format"
    BY <2>1 DEF Moved
  <2>4. First(t)' = c /\ Define(t)' = Define(t)
    BY <1>0, <2>3, FirstStays
  <2>5. Current(t)'
    BY <1>a, <1>b, <2>2, <2>3, <2>4 DEF Current
  <2>6. WritesOld(t, c)'
    BY <1>c, <2>2, <2>3 DEF WritesOld, WritesAs
  <2>7. \A n \in Names : n # c => level'[n] = level[n]
    BY <1>b, <2>2
  <2> QED
    BY <1>a, <2>1, <2>2, <2>5, <2>6, <2>7, HalfwayMoved DEF G, Pending
<1>2. ASSUME SetFormatter(t) PROVE G
  <2> DEFINE g == Parsed(Define(t).formatter)
  <2>1. Moved(t, "clear", f.todo, f.gone, f.rest)
    BY <1>2, Moves
  <2>2. /\ f.pc = "format" /\ f.todo # {} /\ m_val' = m_val
        /\ formatter' = [formatter EXCEPT ![c] = IF g = None THEN @ ELSE g]
        /\ level' = level /\ m_loggers' = m_loggers
    BY <1>0, <1>2 DEF SetFormatter, FrameOk
  <2>3. appenders' = [appenders EXCEPT ![c] =
          [i \in DOMAIN @ |-> IF g = None \/ @[i].own THEN @[i]
                              ELSE Appender(@[i].dest, @[i].level, None, g)]]
    BY <1>0, <1>2 DEF SetFormatter
  <2>4. /\ frame'[t].todo = f.todo /\ frame'[t].new = f.new
        /\ frame'[t].old = f.old /\ frame'[t].pc = "clear"
    BY <2>1 DEF Moved
  <2>5. First(t)' = c /\ Define(t)' = Define(t)
    BY <1>0, <2>4, FirstStays
  <2> HIDE DEF g
  <2>6. Current(t)'
    <3>1. c \in m_loggers' /\ level'[c] = Define(t).level
      BY <1>0, <2>2 DEF Halfway, Current
    <3>2. g \in {None, formatter'[c]}
      BY <1>a, <1>b, <2>2
    <3> QED
      BY <2>4, <2>5, <3>1, <3>2 DEF Current, g
  <2>7. WritesOld(t, c)'
    <3> DEFINE s == appenders[c]
               r == [i \in DOMAIN s |->
                       IF g = None \/ s[i].own THEN s[i]
                       ELSE Appender(s[i].dest, s[i].level, None, g)]
    <3>1. appenders'[c] = r
      BY <1>a, <1>b, <2>2, <2>3
    <3>2. DOMAIN r = DOMAIN s /\ \A i \in DOMAIN s : r[i].dest = s[i].dest
      <4> HIDE DEF s
      <4> QED
        BY DEF Appender
    <3>3. Dests(r) = Dests(s)
      <4> HIDE DEF r, s
      <4> QED
        BY <3>2 DEF Dests
    <3>4. s = <<>> => r = <<>>
      OBVIOUS
    <3> HIDE DEF r
    <3> QED
      BY <1>c, <2>2, <2>4, <3>1, <3>3, <3>4 DEF WritesOld, WritesAs
  <2>8. \A n \in Names : n # c =>
          appenders'[n] = appenders[n] /\ formatter'[n] = formatter[n]
    <3> DEFINE r == [i \in DOMAIN appenders[c] |->
                       IF g = None \/ appenders[c][i].own THEN appenders[c][i]
                       ELSE Appender(appenders[c][i].dest,
                                     appenders[c][i].level, None, g)]
    <3>1. appenders' = [appenders EXCEPT ![c] = r]
      BY <2>3
    <3> HIDE DEF r
    <3> QED
      BY <1>b, <2>2, <3>1
  <2> QED
    BY <1>a, <2>1, <2>2, <2>6, <2>7, <2>8, HalfwayMoved DEF G, Pending
<1>3. ASSUME ClearAppender(t) PROVE G
  <2>1. Moved(t, "add", f.todo, f.gone, Define(t).appenders)
    BY <1>3, Moves
  <2>2. /\ f.pc = "clear" /\ f.todo # {} /\ m_val' = m_val
        /\ appenders' = [appenders EXCEPT ![c] = <<>>]
        /\ level' = level /\ m_loggers' = m_loggers /\ formatter' = formatter
    BY <1>0, <1>3 DEF ClearAppender, FrameOk
  <2>3. /\ frame'[t].todo = f.todo /\ frame'[t].new = f.new
        /\ frame'[t].rest = Define(t).appenders /\ frame'[t].pc = "add"
    BY <2>1 DEF Moved
  <2>4. First(t)' = c /\ Define(t)' = Define(t)
    BY <1>0, <2>3, FirstStays
  <2>5. appenders'[c] = <<>>
    BY <1>a, <1>b, <2>2
  <2>6. Adding(t)'
    <3> DEFINE all == Define(t).appenders
    <3>1. all \in Seq(AppenderDefines)
      BY <1>a, <2>2, DefineType
    <3> HIDE DEF all
    <3>2. /\ Len(<<>>) + Len(all) = Len(all)
          /\ \A i \in 1 .. Len(all) : all[i] = all[Len(<<>>) + i]
      BY <3>1
    <3>3. Define(t)'.appenders = all /\ frame'[t].rest = all
      BY <2>3, <2>4 DEF all
    <3> QED
      BY <2>4, <2>5, <3>2, <3>3 DEF Adding
  <2>7. Current(t)'
    BY <1>0, <2>2, <2>3, <2>4, <2>6 DEF Halfway, Current
  <2>8. \A n \in Names : n # c => appenders'[n] = appenders[n]
    BY <1>b, <2>2
  <2> QED
    BY <1>a, <2>1, <2>2, <2>4, <2>7, <2>8, HalfwayMoved DEF G, Pending
<1>4. ASSUME AddAppender(t) PROVE G
  <2> DEFINE has == appenders[c]
             all == Define(t).appenders
             a == Configured(Head(f.rest), formatter[c])
  <2>1. Moved(t, "add", f.todo, f.gone, Tail(f.rest))
    BY <1>4, Moves
  <2>2. /\ f.pc = "add" /\ f.todo # {} /\ m_val' = m_val /\ f.rest # <<>>
        /\ appenders' = [appenders EXCEPT ![c] = Append(@, a)]
        /\ level' = level /\ m_loggers' = m_loggers /\ formatter' = formatter
    BY <1>0, <1>4 DEF AddAppender, FrameOk
  <2>3. /\ frame'[t].todo = f.todo /\ frame'[t].new = f.new
        /\ frame'[t].rest = Tail(f.rest) /\ frame'[t].pc = "add"
    BY <2>1 DEF Moved
  <2>4. First(t)' = c /\ Define(t)' = Define(t)
    BY <1>0, <2>3, FirstStays
  <2>5. appenders'[c] = Append(has, a)
    BY <1>a, <1>b, <2>2
  <2>6. Adding(t)'
    <3>1. /\ Len(has) + Len(f.rest) = Len(all)
          /\ \A i \in 1 .. Len(has) : has[i] = Configured(all[i], formatter[c])
          /\ \A i \in 1 .. Len(f.rest) : f.rest[i] = all[Len(has) + i]
      BY <1>0, <2>2 DEF Halfway, Current, Adding
    <3>2. has \in Seq(Appenders)
      BY <1>a, <1>b, <2>2
    <3>3. Len(has) \in Nat /\ Len(f.rest) \in Nat /\ Len(f.rest) > 0
      BY <1>b, <2>2, <3>2
    <3>4. Head(f.rest) = all[Len(has) + 1]
      BY <1>b, <2>2, <3>1, <3>3
    <3>5. /\ Len(Append(has, a)) = Len(has) + 1
          /\ \A i \in 1 .. Len(has) : Append(has, a)[i] = has[i]
          /\ Append(has, a)[Len(has) + 1] = a
      BY <3>2
    <3>6. /\ Len(Tail(f.rest)) = Len(f.rest) - 1
          /\ \A i \in 1 .. Len(f.rest) - 1 : Tail(f.rest)[i] = f.rest[i + 1]
      BY <1>b, <2>2
    <3>7. \A i \in 1 .. Len(has) + 1 :
            Append(has, a)[i] = Configured(all[i], formatter[c])
      <4> TAKE i \in 1 .. Len(has) + 1
      <4>1. CASE i = Len(has) + 1
        BY <3>4, <3>5, <4>1
      <4>2. CASE i \in 1 .. Len(has)
        BY <3>1, <3>5, <4>2
      <4> QED
        BY <3>3, <4>1, <4>2
    <3>8. \A i \in 1 .. Len(f.rest) - 1 :
            Tail(f.rest)[i] = all[Len(has) + 1 + i]
      <4> TAKE i \in 1 .. Len(f.rest) - 1
      <4> HIDE DEF has, all
      <4>1. /\ i + 1 \in 1 .. Len(f.rest)
            /\ Len(has) + (i + 1) = Len(has) + 1 + i
        <5> DEFINE h == Len(has)
                   r == Len(f.rest)
        <5>1. h \in Nat /\ r \in Nat /\ i \in 1 .. r - 1
          BY <3>3
        <5> HIDE DEF h, r
        <5>2. i + 1 \in 1 .. r /\ h + (i + 1) = h + 1 + i
          BY <5>1
        <5> QED
          BY <5>2 DEF h, r
      <4> QED
        BY <3>1, <3>6, <4>1
    <3>9. Define(t)'.appenders = all /\ formatter'[c] = formatter[c]
      BY <2>2, <2>4
    <3> HIDE DEF has, all, a
    <3>10. Len(has) + 1 + (Len(f.rest) - 1) = Len(all)
      <4> DEFINE h == Len(has)
                 r == Len(f.rest)
      <4>1. h \in Nat /\ r \in Nat /\ h + r = Len(all)
        BY <3>1, <3>3
      <4> HIDE DEF h, r
      <4>2. h + 1 + (r - 1) = Len(all)
        BY <4>1
      <4> QED
        BY <4>2 DEF h, r
    <3>11. /\ Len(Append(has, a)) + Len(Tail(f.rest)) = Len(all)
           /\ \A i \in 1 .. Len(Append(has, a)) :
                Append(has, a)[i] = Configured(all[i], formatter[c])
           /\ \A i \in 1 .. Len(Tail(f.rest)) :
                Tail(f.rest)[i] = all[Len(Append(has, a)) + i]
      BY <3>5, <3>6, <3>7, <3>8, <3>10
    <3> QED
      BY <2>3, <2>4, <2>5, <3>9, <3>11 DEF Adding
  <2> HIDE DEF a, has, all
  <2>7. Current(t)'
    BY <1>0, <2>2, <2>3, <2>4, <2>6 DEF Halfway, Current
  <2>8. \A n \in Names : n # c => appenders'[n] = appenders[n]
    BY <1>b, <2>2
  <2> QED
    BY <1>0, <1>a, <2>1, <2>2, <2>4, <2>7, <2>8, HalfwayMoved DEF G, Pending
<1>5. ASSUME NextDefine(t) PROVE G
  <2>1. Moved(t, "next", f.todo \ {c}, f.gone, f.rest)
    BY <1>0, <1>5, Moves
  <2>2. /\ f.pc = "add" /\ f.todo # {} /\ f.rest = <<>>
        /\ UNCHANGED <<m_val, m_loggers, level, formatter, appenders>>
    BY <1>5 DEF NextDefine, FrameOk
  <2>3. frame'[t].new = f.new /\ frame'[t].old = f.old /\ frame'[t].pc = "next"
    BY <2>1 DEF Moved
  <2>4. AsNew(t, c)
    <3> DEFINE has == appenders[c]
               all == Define(t).appenders
    <3>1. /\ Len(has) + Len(<<>>) = Len(all)
          /\ \A i \in 1 .. Len(has) : has[i] = Configured(all[i], formatter[c])
      BY <1>0, <2>2 DEF Halfway, Current, Adding
    <3>2. has \in Seq(Appenders) /\ all \in Seq(AppenderDefines)
      BY <1>a, <1>b, <2>2, DefineType
    <3>3. Len(has) = Len(all) /\ DOMAIN has = DOMAIN all /\ DOMAIN has = 1 .. Len(has)
      BY <3>1, <3>2
    <3>4. has = [i \in DOMAIN all |-> Configured(all[i], formatter[c])]
      <4> HIDE DEF has, all
      <4> QED
        BY <3>1, <3>2, <3>3
    <3>5. Define(t) = f.new[c] /\ f.new[c] # None
      BY <1>0, <1>a, <2>2 DEF Define, FrameOk
    <3>6. /\ c \in m_loggers /\ level[c] = Define(t).level
          /\ Parsed(Define(t).formatter) \in {None, formatter[c]}
      BY <1>0, <2>2 DEF Halfway, Current
    <3> QED
      BY <3>4, <3>5, <3>6 DEF AsNew, AsDefined
  <2>5. AsNew(t, c)'
    BY <2>2, <2>3, <2>4, Untouched
  <2>6. Current(t)'
    BY <2>3 DEF Current
  <2>7. (f.todo \ {c}) \cup f.gone = Pending(t) \ {c}
    BY <1>a, <2>2 DEF Pending
  <2> QED
    BY <1>0, <1>a, <2>1, <2>2, <2>5, <2>6, <2>7, HalfwayMoved DEF G
<1>6. ASSUME ResetLevel(t) PROVE G
  <2>0. PICK m : m = Min(f.gone)
    OBVIOUS
  <2>1. Moved(t, "clearGone", f.todo, f.gone, f.rest)
    BY <1>6, Moves
  <2>2. /\ f.pc = "next" /\ f.gone # {} /\ m_val' = m_val
        /\ m_loggers' = m_loggers \cup {m}
        /\ level' = [level EXCEPT ![m] = 0]
        /\ formatter' = formatter /\ appenders' = appenders
    BY <1>6, <2>0 DEF ResetLevel
  <2>3. frame'[t].old = f.old /\ frame'[t].pc = "clearGone"
    BY <2>1 DEF Moved
  <2>4. Current(t)'
    BY <2>3 DEF Current
  <2>5. m \in Pending(t) /\ WritesOld(t, m)
    BY <1>d, <2>0, <2>2 DEF Halfway
  <2>6. WritesOld(t, m)'
    BY <2>2, <2>3, <2>5 DEF WritesOld, WritesAs
  <2>7. \A n \in Names : n # m => level'[n] = level[n]
    BY <1>b, <2>2
  <2> QED
    BY <2>1, <2>2, <2>4, <2>5, <2>6, <2>7, HalfwayMoved DEF G, Pending
<1>7. ASSUME ClearGone(t) PROVE G
  <2>0. PICK m : m = Min(f.gone)
    OBVIOUS
  <2>1. Moved(t, "next", f.todo, f.gone \ {m}, f.rest)
    BY <1>7, <2>0, Moves
  <2>2. /\ f.pc = "clearGone" /\ f.gone # {} /\ f.todo = {} /\ m_val' = m_val
        /\ appenders' = [appenders EXCEPT ![m] = <<>>]
        /\ level' = level /\ m_loggers' = m_loggers /\ formatter' = formatter
    BY <1>7, <2>0 DEF ClearGone, FrameOk
  <2>3. m \in Pending(t) /\ m \in Names /\ f.new[m] = None
    BY <1>b, <1>d, <2>0, <2>2
  <2>4. frame'[t].new = f.new /\ frame'[t].pc = "next"
    BY <2>1 DEF Moved
  <2>5. Current(t)'
    BY <2>4 DEF Current
  <2>6. appenders'[m] = <<>>
    BY <1>b, <2>2, <2>3
  <2>7. AsNew(t, m)'
    BY <2>3, <2>4, <2>6 DEF AsNew, AsDefined
  <2>8. \A n \in Names : n # m => appenders'[n] = appenders[n]
    BY <1>b, <2>2
  <2>9. f.todo \cup (f.gone \ {m}) = Pending(t) \ {m}
    BY <2>2 DEF Pending
  <2> QED
    BY <2>1, <2>2, <2>3, <2>5, <2>7, <2>8, <2>9, HalfwayMoved DEF G
<1> QED
  BY <1>1, <1>2, <1>3, <1>4, <1>5, <1>6, <1>7 DEF Listener, G

(* A step of the listener is one of a loader in setValue.                  *)
LEMMA ListenerActive ==
  ASSUME Typed, NEW t \in Loaders, Listener(t) \/ EndNotify(t)
  PROVE  /\ Active(t) /\ Active(t)' /\ overlapped' = overlapped
         /\ \A s \in Loaders : s # t => frame'[s] = frame[s]
<1>1. \A pc, todo, gone, rest :
        Moved(t, pc, todo, gone, rest) =>
          /\ frame'[t].pc = pc
          /\ \A s \in Loaders : s # t => frame'[s] = frame[s]
  BY DEF Moved
<1>2. Active(t) /\ overlapped' = overlapped
  BY DEF Listener, SetLevel, SetFormatter, ClearAppender, AddAppender,
         NextDefine, ResetLevel, ClearGone, EndNotify, Active, loadVars
<1>3. \E pc, todo, gone, rest :
        pc # "idle" /\ Moved(t, pc, todo, gone, rest)
  BY Moves DEF Listener
<1> QED
  BY <1>1, <1>2, <1>3 DEF Active

(* When the frames stay as they are, and the loggers but for their table.  *)
LEMMA LoggersStay ==
  ASSUME m_val' = m_val, appenders' = appenders, level' = level,
         formatter' = formatter, m_loggers \subseteq m_loggers',
         NEW t, frame'[t] = frame[t], Halfway(t)
  PROVE  Halfway(t)'
<1>1. Pending(t)' = Pending(t) /\ First(t)' = First(t) /\ Define(t)' = Define(t)
  BY FirstStays DEF Pending
<1>2. ASSUME NEW n PROVE /\ AsNew(t, n) => AsNew(t, n)'
                         /\ WritesOld(t, n) => WritesOld(t, n)'
  BY Untouched
<1>3. Current(t)'
  BY <1>1 DEF Halfway, Current, Adding
<1> QED
  BY <1>1, <1>2, <1>3 DEF Halfway

LEMMA StoredStays ==
  ASSUME m_val' = m_val, appenders' = appenders, level' = level,
         formatter' = formatter, m_loggers \subseteq m_loggers',
         NEW n, AsStored(n)
  PROVE  AsStored(n)'
BY DEF AsStored, AsDefined

(* What a load finds: nothing to do for a logger whose LogDefine stays.    *)
LEMMA LoadHalfway ==
  ASSUME Typed, NEW t \in Loaders, NEW x \in Values, Load(t, x),
         \A n \in Names : AsStored(n)
  PROVE  Halfway(t)'
<1>1. /\ frame'[t].pc = "next" /\ frame'[t].new = x /\ frame'[t].old = m_val
      /\ frame'[t].todo = {n \in Names : x[n] # None /\ x[n] # m_val[n]}
      /\ frame'[t].gone = {n \in Names : x[n] = None /\ m_val[n] # None}
  BY LoadFrame
<1>2. /\ m_val' = m_val /\ appenders' = appenders /\ level' = level
      /\ formatter' = formatter /\ m_loggers' = m_loggers
  BY DEF Load, loggerVars
<1>3. ASSUME NEW n \in Names, n \notin Pending(t)' PROVE AsNew(t, n)'
  <2>1. x[n] = m_val[n]
    BY <1>1, <1>3 DEF Pending
  <2>2. AsDefined(n, x[n])
    BY <2>1 DEF AsStored
  <2> QED
    BY <1>1, <1>2, <2>1, <2>2 DEF AsNew, AsDefined
<1>4. ASSUME NEW n \in Names PROVE WritesOld(t, n)'
  <2>1. WritesAs(n, m_val[n])
    BY DefinedWrites DEF AsStored
  <2> QED
    BY <1>1, <1>2, <2>1 DEF WritesOld, WritesAs
<1>5. Pending(t)' \subseteq Names
  BY <1>1 DEF Pending
<1>6. Current(t)'
  BY <1>1 DEF Current
<1> QED
  BY <1>1, <1>2, <1>3, <1>4, <1>5, <1>6 DEF Halfway

LEMMA ConfigStep ==
  Typed /\ FrameInv /\ ConfigInv /\ [Next]_vars => ConfigInv'
<1> SUFFICES ASSUME Typed, FrameInv, ConfigInv, [Next]_vars,
                    overlapped' = FALSE
             PROVE  Configuring'
  BY TypedStep DEF ConfigInv, Typed
<1> USE DEF loggerVars, loadVars
<1>1. ASSUME NEW t \in Loaders, Listener(t) PROVE Configuring'
  <2>1. /\ Active(t) /\ Active(t)' /\ overlapped' = overlapped
        /\ \A s \in Loaders : s # t => frame'[s] = frame[s]
    BY <1>1, ListenerActive
  <2>2. Configuring
    BY <2>1 DEF ConfigInv
  <2>3. \A s \in Loaders : s # t => ~ Active(s) /\ ~ Active(s)'
    BY <2>1, <2>2 DEF Configuring, Active
  <2>4. Halfway(t)'
    BY <1>1, <2>1, <2>2, ListenerHalfway DEF Configuring, FrameInv
  <2> QED
    BY <2>1, <2>3, <2>4 DEF Configuring
<1>2. ASSUME NEW t \in Loaders, EndNotify(t) PROVE Configuring'
  <2>1. /\ Active(t) /\ Active(t)' /\ overlapped' = overlapped
        /\ \A s \in Loaders : s # t => frame'[s] = frame[s]
    BY <1>2, ListenerActive
  <2>2. Configuring
    BY <2>1 DEF ConfigInv
  <2>3. \A s \in Loaders : s # t => ~ Active(s) /\ ~ Active(s)'
    BY <2>1, <2>2 DEF Configuring, Active
  <2>4. Halfway(t)'
    <3>1. Moved(t, "store", frame[t].todo, frame[t].gone, frame[t].rest)
      BY <1>2, Moves
    <3>2. /\ frame'[t].pc = "store" /\ frame'[t].new = frame[t].new
          /\ frame'[t].old = frame[t].old /\ frame'[t].todo = frame[t].todo
          /\ frame'[t].gone = frame[t].gone
      BY <3>1 DEF Moved
    <3>3. /\ m_val' = m_val /\ appenders' = appenders /\ level' = level
          /\ formatter' = formatter /\ m_loggers' = m_loggers
          /\ Pending(t) = {}
      BY <1>2 DEF EndNotify, Pending
    <3>4. Pending(t)' = {}
      BY <3>2, <3>3 DEF Pending
    <3>5. Halfway(t)
      BY <2>1, <2>2 DEF Configuring
    <3>6. \A n \in Names : AsNew(t, n)'
      BY <3>2, <3>3, <3>5, Untouched DEF Halfway
    <3>7. Current(t)'
      BY <3>2 DEF Current
    <3> QED
      BY <3>2, <3>3, <3>4, <3>5, <3>6, <3>7 DEF Halfway
  <2> QED
    BY <2>1, <2>3, <2>4 DEF Configuring
<1>3. ASSUME NEW t \in Loaders, Store(t) PROVE Configuring'
  <2>1. /\ Active(t) /\ overlapped' = overlapped /\ Pending(t) = {}
        /\ m_val' = frame[t].new /\ frame'[t].pc = "idle"
        /\ \A s \in Loaders : s # t => frame'[s] = frame[s]
        /\ UNCHANGED loggerVars
    BY <1>3 DEF Store, Active, Typed, FrameInv, FrameOk, Pending, Idle
  <2>2. Configuring
    BY <2>1 DEF ConfigInv
  <2>3. \A s \in Loaders : ~ Active(s)'
    BY <2>1, <2>2 DEF Configuring, Active
  <2>4. \A n \in Names : AsNew(t, n)
    BY <2>1, <2>2 DEF Configuring, Halfway
  <2>5. \A n \in Names : AsStored(n)'
    BY <2>1, <2>4 DEF AsNew, AsStored, AsDefined
  <2> QED
    BY <2>3, <2>5 DEF Configuring
<1>4. ASSUME NEW t \in Loaders, NEW x \in Values, Load(t, x)
      PROVE  Configuring'
  <2>1. overlapped = FALSE /\ \A s \in Loaders : ~ Active(s)
    BY <1>4 DEF Load, Active, Typed
  <2>2. \A n \in Names : AsStored(n)
    BY <2>1 DEF ConfigInv, Configuring
  <2>3. Halfway(t)'
    BY <1>4, <2>2, LoadHalfway
  <2>4. \A s \in Loaders : s # t => ~ Active(s)'
    BY <1>4, <2>1, LoadFrame DEF Active
  <2>5. Active(t)'
    BY <1>4, LoadFrame DEF Active
  <2> QED
    BY <2>3, <2>4, <2>5 DEF Configuring
<1>5. ASSUME /\ UNCHANGED <<m_val, appenders, level, formatter, frame, overlapped>>
             /\ m_loggers \subseteq m_loggers'
      PROVE  Configuring'
  <2>1. Configuring
    BY <1>5 DEF ConfigInv
  <2>2. \A t \in Loaders : Active(t)' <=> Active(t)
    BY <1>5 DEF Active
  <2>3. \A t \in Loaders : Halfway(t) => Halfway(t)'
    BY <1>5, LoggersStay
  <2>4. \A n \in Names : AsStored(n) => AsStored(n)'
    BY <1>5, StoredStays
  <2> QED
    BY <2>1, <2>2, <2>3, <2>4 DEF Configuring
<1>6. ASSUME NEW n \in Names, GetLogger(n) PROVE Configuring'
  BY <1>5, <1>6 DEF GetLogger
<1>7. CASE UNCHANGED vars
  BY <1>5, <1>7 DEF vars
<1> QED
  BY <1>1, <1>2, <1>3, <1>4, <1>6, <1>7 DEF Next

LEMMA InitConfig == Init => ConfigInv
<1> SUFFICES ASSUME Init PROVE Configuring
  BY DEF ConfigInv
<1>1. \A t \in Loaders : ~ Active(t)
  BY DEF Init, Active, Idle
<1>2. ASSUME NEW n \in Names PROVE AsStored(n)
  <2>1. m_val[n] = None /\ level[n] = 1
    BY DEF Init
  <2>2. CASE n # Root
    <3>1. appenders[n] = <<>>
      BY <2>2 DEF Init
    <3> QED
      BY <2>1, <3>1 DEF AsStored, AsDefined
  <2>3. CASE n = Root
    <3> DEFINE a == Appender(Console, 1, None, Default)
    <3>1. appenders[n] = <<a>>
      BY <2>3 DEF Init
    <3>2. a.dest = Console
      BY DEF Appender
    <3> HIDE DEF a
    <3>3. Dests(<<a>>) = <<Console>>
      BY <3>2 DEF Dests
    <3> QED
      BY <2>1, <2>3, <3>1, <3>3 DEF AsStored, AsDefined
  <2> QED
    BY <2>2, <2>3
<1> QED
  BY <1>1, <1>2 DEF Configuring

LEMMA ConfigKept == Spec => []ConfigInv
BY TypesKept, InitConfig, ConfigStep, PTL DEF Spec

(* As long as no two loads overlap, the loggers are as the variable says   *)
(* whenever no load is in progress (log.cc:837-890).                       *)
THEOREM LoadsConfigure == Spec => []ConfiguredAsStored
<1>1. ASSUME ConfigInv PROVE ConfiguredAsStored
  BY <1>1 DEF ConfigInv, Configuring, Active, AsStored, AsDefined,
              ConfiguredAsStored
<1> QED
  BY ConfigKept, <1>1, PTL

LEMMA AppenderWrites == \A a \in Appenders : a.dest \in Destinations
BY DEF Appenders

(* Nor does a logger ever write to appenders of both the old and the new   *)
(* value while one is in progress (log.cc:858, 878).                       *)
THEOREM LoadsNeverMix == Spec => []NeverMixed
<1>1. ASSUME Typed, FrameInv, ConfigInv PROVE NeverMixed
  <2> SUFFICES ASSUME ~ overlapped, NEW t \in Loaders, NEW n \in Names,
                      Active(t)
               PROVE  LET old == frame[t].old[n]  new == frame[t].new[n]
                      IN  \/ appenders[n] = <<>>
                          \/ old # None /\ Dests(appenders[n]) = DefineDests(old)
                          \/ /\ new # None
                             /\ IsPrefix(Dests(appenders[n]), DefineDests(new))
                          \/ /\ n = Root /\ old = None
                             /\ Dests(appenders[n]) = <<Console>>
    BY DEF NeverMixed, Active
  <2>1. Halfway(t) /\ FrameOk(t)
    BY <1>1 DEF ConfigInv, Configuring, FrameInv
  <2>2. frame[t].new[n] \in Defines \cup {None}
    BY <1>1 DEF Typed, Frames, Values
  <2>3. appenders[n] \in Seq(Appenders)
    BY <1>1 DEF Typed
  <2>4. CASE n \notin Pending(t)
    <3>1. AsNew(t, n)
      BY <2>1, <2>4 DEF Halfway
    <3>2. CASE frame[t].new[n] = None
      BY <3>1, <3>2 DEF AsNew, AsDefined
    <3>3. CASE frame[t].new[n] # None
      <4>1. Dests(appenders[n]) = DefineDests(frame[t].new[n])
        BY <3>1, <3>3, DefinedWrites DEF AsNew
      <4>2. Dests(appenders[n]) \in Seq(Destinations)
        <5>1. \A i \in DOMAIN appenders[n] : appenders[n][i].dest \in Destinations
          BY <2>3, AppenderWrites
        <5> QED
          BY <2>3, <5>1 DEF Dests
      <4> HIDE DEF Dests, DefineDests
      <4>3. IsPrefix(Dests(appenders[n]), Dests(appenders[n]))
        BY <4>2 DEF IsPrefix
      <4> QED
        BY <3>3, <4>1, <4>3
    <3> QED
      BY <3>2, <3>3
  <2>5. CASE n \in Pending(t) /\ ~ (frame[t].pc = "add" /\ n = First(t))
    BY <2>1, <2>5 DEF Halfway, WritesOld, WritesAs
  <2>6. CASE frame[t].pc = "add" /\ n = First(t)
    <3> DEFINE all == Define(t).appenders
               has == appenders[n]
    <3>1. /\ frame[t].todo # {} /\ frame[t].new[n] # None
          /\ Define(t) = frame[t].new[n] /\ Define(t) \in Defines
      BY <1>1, <2>1, <2>6, FirstType DEF FrameOk, Define
    <3>2. /\ Len(has) + Len(frame[t].rest) = Len(all)
          /\ \A i \in 1 .. Len(has) : has[i] = Configured(all[i], formatter[n])
      BY <2>1, <2>6 DEF Halfway, Current, Adding
    <3>3. all \in Seq(AppenderDefines) /\ frame[t].rest \in Seq(AppenderDefines)
      BY <1>1, <3>1, DefineType DEF Typed, Frames
    <3> DEFINE h == Len(has)
               r == Len(frame[t].rest)
               m == Len(all)
    <3>4. h \in Nat /\ r \in Nat /\ m \in Nat /\ h + r = m
      <4>1. h \in Nat
        BY <2>3
      <4>2. r \in Nat
        BY <3>3
      <4>3. m \in Nat
        <5> HIDE DEF all
        <5> QED
          BY <3>3
      <4>4. h + r = m
        BY <3>2
      <4> QED
        BY <4>1, <4>2, <4>3, <4>4
    <3> HIDE DEF h, r, m
    <3>5. h <= m /\ \A i \in 1 .. h : i \in 1 .. m
      BY <3>4
    <3> DEFINE p == Dests(has)
               q == DefineDests(Define(t))
    <3>6. p \in Seq(Destinations) /\ Len(p) = Len(has)
          /\ \A i \in 1 .. Len(has) : p[i] = has[i].dest
      <4>1. \A i \in DOMAIN has : has[i].dest \in Destinations
        BY <2>3, AppenderWrites
      <4> HIDE DEF has
      <4> QED
        BY <2>3, <4>1 DEF Dests, has
    <3>7. q \in Seq(Destinations) /\ Len(q) = Len(all)
          /\ \A i \in 1 .. Len(all) : q[i] = Configured(all[i], None).dest
      <4>1. \A a \in AppenderDefines : Configured(a, None).dest \in Destinations
        BY DEF Configured, Appender, Destinations
      <4>2. q = [i \in DOMAIN all |-> Configured(all[i], None).dest]
        <5> HIDE DEF Configured
        <5> QED
          BY DEF DefineDests, Dests
      <4> HIDE DEF all, q, Configured
      <4> QED
        BY <3>3, <4>1, <4>2
    <3>8. \A i \in 1 .. Len(p) : p[i] = q[i]
      <4>1. \A a : Configured(a, formatter[n]).dest = Configured(a, None).dest
        BY DEF Configured, Appender
      <4>2. \A i \in 1 .. Len(has) : i \in 1 .. Len(all)
        BY <3>5 DEF h, m
      <4> HIDE DEF p, q, all, has
      <4> QED
        BY <3>2, <3>6, <3>7, <4>1, <4>2
    <3>9. Len(p) <= Len(q)
      BY <3>6, <3>7, <3>5 DEF h, m
    <3> HIDE DEF p, q
    <3>10. IsPrefix(p, q)
      BY <3>6, <3>7, <3>8, <3>9 DEF IsPrefix
    <3> QED
      BY <2>6, <3>1, <3>10 DEF p, q
  <2> QED
    BY <2>4, <2>5, <2>6
<1> QED
  BY TypesKept, ConfigKept, <1>1, PTL
=============================================================================
