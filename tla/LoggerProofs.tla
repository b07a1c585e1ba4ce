---------------------------- MODULE LoggerProofs ----------------------------
(***************************************************************************)
(* What a Logger guarantees for any number of threads, loggers, appenders  *)
(* and formatters: messages reach every appender of the list, appenders in *)
(* a list have a formatter, and it is the right one.                       *)
(***************************************************************************)
EXTENDS Logger, SequenceTheorems, WellFoundedInduction, TLAPS

-----------------------------------------------------------------------------
(* What the operators on sequences do to the elements of a list.           *)

LEMMA AppendRange ==
  ASSUME NEW S, NEW s \in Seq(S), NEW e \in S
  PROVE  Range(Append(s, e)) = Range(s) \cup {e}
<1>1. Append(s, e) \in Seq(S) /\ Len(s) \in Nat
  BY AppendProperties, LenProperties
<1>7. Len(Append(s, e)) = Len(s) + 1
  BY AppendProperties
<1>8. Range(s) = {s[i] : i \in 1 .. Len(s)}
  BY RangeEquality
<1>9. Range(Append(s, e)) = {Append(s, e)[i] : i \in 1 .. Len(Append(s, e))}
  BY <1>1, RangeEquality, Zenon
<1>2. Range(s) = {s[i] : i \in 1 .. Len(s)}
      /\ Range(Append(s, e)) = {Append(s, e)[i] : i \in 1 .. Len(s) + 1}
  BY <1>7, <1>8, <1>9, Zenon
<1>3. \A i \in 1 .. Len(s) : Append(s, e)[i] = s[i]
  BY AppendProperties
<1>4. Append(s, e)[Len(s) + 1] = e
  BY AppendProperties
<1>5. \A i \in 1 .. Len(s) + 1 : i \in 1 .. Len(s) \/ i = Len(s) + 1
  BY <1>1
<1>6. 1 .. Len(s) \subseteq 1 .. Len(s) + 1 /\ Len(s) + 1 \in 1 .. Len(s) + 1
  BY <1>1
<1> QED
  BY <1>2, <1>3, <1>4, <1>5, <1>6, Zenon

LEMMA TailRange ==
  ASSUME NEW S, NEW s \in Seq(S), s # <<>>
  PROVE  /\ Range(s) = {Head(s)} \cup Range(Tail(s))
         /\ Head(s) \in S /\ Tail(s) \in Seq(S)
<1>1. Head(s) \in S /\ Tail(s) \in Seq(S) /\ Len(Tail(s)) = Len(s) - 1
  BY HeadTailProperties
<1>2. Len(s) \in Nat \ {0} /\ Head(s) = s[1]
  BY EmptySeq
<1>3. Range(s) = {s[i] : i \in 1 .. Len(s)}
      /\ Range(Tail(s)) = {Tail(s)[i] : i \in 1 .. Len(s) - 1}
  BY <1>1, RangeEquality
<1>4. \A i \in 1 .. Len(s) - 1 : Tail(s)[i] = s[i + 1]
  BY <1>1, HeadTailProperties
<1>5. \A i \in 1 .. Len(s) : i = 1 \/ i - 1 \in 1 .. Len(s) - 1
  BY <1>2
<1>6. ASSUME NEW x \in Range(s) PROVE x = Head(s) \/ x \in Range(Tail(s))
  <2>1. PICK i \in 1 .. Len(s) : x = s[i]
    BY <1>3
  <2>2. CASE i - 1 \in 1 .. Len(s) - 1
    <3>1. Tail(s)[i - 1] = s[i]
      BY <1>2, <1>4, <2>2
    <3> QED
      BY <1>3, <2>1, <2>2, <3>1
  <2> QED
    BY <1>2, <1>5, <2>1, <2>2
<1>7. ASSUME NEW x \in Range(Tail(s)) PROVE x \in Range(s)
  <2>1. PICK i \in 1 .. Len(s) - 1 : x = Tail(s)[i]
    BY <1>3
  <2>2. x = s[i + 1] /\ i + 1 \in 1 .. Len(s)
    BY <1>2, <1>4, <2>1
  <2> QED
    BY <1>3, <2>2
<1>8. Head(s) \in Range(s)
  BY <1>2, <1>3
<1> QED
  BY <1>1, <1>6, <1>7, <1>8

LEMMA HasLeast ==
  ASSUME NEW S, S \subseteq Nat, S # {}
  PROVE  Min(S) \in S
<1>1. PICK i \in S : \A j \in S : ~ (<<j, i>> \in OpToRel(<, Nat))
  BY WFMin, NatLessThanWellFounded, Zenon
<1>2. ASSUME NEW j \in S PROVE i <= j
  <2>1. ~ (j < i)
    BY <1>1 DEF OpToRel
  <2> QED
    BY <2>1
<1> QED
  BY <1>2, Zenon DEF Min

LEMMA RemoveFirstRange ==
  ASSUME NEW S, NEW s \in Seq(S), NEW e
  PROVE  /\ RemoveFirst(s, e) \in Seq(S)
         /\ Range(RemoveFirst(s, e)) \subseteq Range(s)
<1>1. CASE \E i \in 1 .. Len(s) : s[i] = e
  <2> DEFINE I == {i \in 1 .. Len(s) : s[i] = e}
             n == Min(I)
  <2>1. n \in 1 .. Len(s)
    <3>1. I \subseteq Nat /\ I # {}
      BY <1>1, LenProperties
    <3>2. n \in I
      BY <3>1, HasLeast
    <3> QED
      BY <3>2
  <2>2. RemoveFirst(s, e) = SubSeq(s, 1, n - 1) \o SubSeq(s, n + 1, Len(s))
    BY <1>1 DEF RemoveFirst, RemoveAt, SelectInSeq
  <2>3. ASSUME NEW a \in 1 .. Len(s) + 1, NEW b \in 0 .. Len(s)
        PROVE  SubSeq(s, a, b) \in Seq(S) /\ Range(SubSeq(s, a, b)) \subseteq Range(s)
    <3>1. \A i \in a .. b : s[i] \in Range(s) /\ s[i] \in S
      BY ElementOfSeq, LenProperties DEF Range
    <3>2. SubSeq(s, a, b) \in Seq(Range(s)) /\ SubSeq(s, a, b) \in Seq(S)
      BY <3>1, SubSeqProperties, LenProperties
    <3> QED
      BY <3>2, RangeOfSeq
  <2>4. n - 1 \in 0 .. Len(s) /\ n + 1 \in 1 .. Len(s) + 1
        /\ 1 \in 1 .. Len(s) + 1 /\ Len(s) \in 0 .. Len(s)
    BY <2>1, LenProperties
  <2>5. SubSeq(s, 1, n - 1) \in Seq(S) /\ SubSeq(s, n + 1, Len(s)) \in Seq(S)
    BY <2>3, <2>4
  <2>6. Range(SubSeq(s, 1, n - 1)) \subseteq Range(s)
        /\ Range(SubSeq(s, n + 1, Len(s))) \subseteq Range(s)
    BY <2>3, <2>4
  <2>7. ASSUME NEW a \in Seq(S), NEW b \in Seq(S),
               Range(a) \subseteq Range(s), Range(b) \subseteq Range(s)
        PROVE  a \o b \in Seq(S) /\ Range(a \o b) \subseteq Range(s)
    BY <2>7, RangeConcatenation, ConcatProperties
  <2> HIDE DEF n
  <2> QED
    BY <2>2, <2>5, <2>6, <2>7, Zenon
<1>2. CASE ~ \E i \in 1 .. Len(s) : s[i] = e
  BY <1>2 DEF RemoveFirst
<1> QED
  BY <1>1, <1>2

(* The iterator moves on: what is behind it and what is before it make up  *)
(* the same list.                                                          *)
LEMMA MoveOn ==
  ASSUME NEW S, NEW p \in Seq(S), NEW s \in Seq(S), s # <<>>
  PROVE  Append(p, Head(s)) \o Tail(s) = p \o s
<1>1. <<Head(s)>> \in Seq(S) /\ Tail(s) \in Seq(S) /\ Head(s) \in S
  BY HeadTailProperties
<1>2. s = <<Head(s)>> \o Tail(s)
  OBVIOUS
<1>3. Append(p, Head(s)) = p \o <<Head(s)>>
  BY <1>1, AppendIsConcat
<1> QED
  BY <1>1, <1>2, <1>3, ConcatAssociative

-----------------------------------------------------------------------------
(* Types.                                                                  *)

AddPcs == {"addCheck", "addSet", "addPush"}

ArgInv == \A t \in Threads : frame[t].pc \in AddPcs => frame[t].arg \in Appenders

(* A thread that changes its frame changes no other.                       *)
LEMMA FrameAfter ==
  ASSUME TypeOK, NEW t \in Threads, NEW fr, Goto(t, fr)
  PROVE  /\ \A s \in Threads : frame'[s] = IF s = t THEN fr ELSE frame[s]
         /\ fr \in Frames => frame' \in [Threads -> Frames]
BY DEF Goto, TypeOK

LEMMA TypeLog ==
  ASSUME TypeOK, ArgInv, NEW t \in Threads,
         \/ LogEnter(t) \/ LogToRoot(t) \/ LogNothing(t) \/ RootEnter(t)
         \/ RootNothing(t) \/ Write(t) \/ LogReturn(t)
  PROVE  TypeOK' /\ ArgInv'
<1> DEFINE f == frame[t]
<1>1. Goto(t, frame'[t]) /\ frame' \in [Threads -> Frames]
      /\ frame'[t].pc \notin AddPcs
  <2>t. /\ f \in Frames /\ Root \in Loggers /\ m_appenders[f.at] \in Seq(Appenders)
        /\ m_appenders[Root] \in Seq(Appenders) /\ frame \in [Threads -> Frames]
        /\ Idle \in Frames
    BY LoggerAssumption DEF TypeOK, Frames, Idle, Levels
  <2>1. ASSUME NEW l \in {f.at, Root}, Iterate(t, l)
        PROVE  \E fr \in Frames : Goto(t, fr) /\ fr.pc = "write"
    <3> DEFINE fr == [f EXCEPT !.pc = "write", !.outlet = l,
                               !.todo = m_appenders[l]]
    <3>1. fr \in Frames /\ fr.pc = "write"
      BY <2>t DEF Frames, TypeOK
    <3>2. Goto(t, fr)
      BY <2>1 DEF Iterate
    <3> QED
      BY <3>1, <3>2, Zenon
  <2>2. ASSUME Return(t) PROVE \E fr \in Frames : Goto(t, fr) /\ fr.pc = "idle"
    BY <2>2, <2>t DEF Return, Idle
  <2>3. ASSUME Write(t) PROVE \E fr \in Frames : Goto(t, fr) /\ fr.pc = "write"
    <3>1. f.todo \in Seq(Appenders) /\ f.wrote \in Seq(Appenders)
      BY <2>t DEF Frames
    <3>2. Tail(f.todo) \in Seq(Appenders)
          /\ Append(f.wrote, Head(f.todo)) \in Seq(Appenders)
      BY <2>3, <3>1, TailRange, AppendProperties DEF Write
    <3> DEFINE fr == [f EXCEPT !.wrote = Append(@, Head(f.todo)),
                               !.todo = Tail(@)]
    <3>3. fr \in Frames /\ fr.pc = "write"
      BY <2>3, <2>t, <3>2 DEF Write, Frames
    <3>4. Goto(t, fr)
      BY <2>3 DEF Write
    <3> QED
      BY <3>3, <3>4, Zenon
  <2>4. ASSUME LogToRoot(t)
        PROVE  \E fr \in Frames : Goto(t, fr) /\ fr.pc = "logRoot"
    <3> DEFINE fr == [f EXCEPT !.pc = "logRoot"]
    <3>1. fr \in Frames /\ fr.pc = "logRoot"
      BY <2>t DEF Frames
    <3>2. Goto(t, fr)
      BY <2>4 DEF LogToRoot
    <3> QED
      BY <3>1, <3>2, Zenon
  <2>5. \E fr \in Frames : Goto(t, fr) /\ fr.pc \in {"write", "idle", "logRoot"}
    BY <2>1, <2>2, <2>3, <2>4
       DEF LogEnter, LogNothing, RootEnter, RootNothing, LogReturn
  <2> QED
    BY <2>5, FrameAfter DEF AddPcs, Goto, TypeOK
<1>2. m_mutex' \in [Loggers -> Threads \cup {Free}]
  BY LoggerAssumption DEF TypeOK, LogEnter, LogToRoot, LogNothing, RootEnter,
     RootNothing, Write, LogReturn, Take, Release, logUnchanged
<1>3. UNCHANGED <<loggerVars, appenderVars, ops, historyVars>>
  BY DEF LogEnter, LogToRoot, LogNothing, RootEnter,
     RootNothing, Write, LogReturn, logUnchanged
<1>4. TypeOK'
  BY <1>1, <1>2, <1>3 DEF TypeOK, loggerVars, appenderVars, historyVars, added
<1>5. ArgInv'
  BY <1>1, FrameAfter DEF ArgInv
<1> QED
  BY <1>4, <1>5

LEMMA TypeAdd ==
  ASSUME TypeOK, ArgInv, NEW t \in Threads,
         \/ \E l \in Loggers, a \in Appenders : AddBegin(t, l, a)
         \/ AddCheck(t) \/ AddSet(t) \/ AddPush(t)
  PROVE  TypeOK' /\ ArgInv'
<1> DEFINE f == frame[t]
<1>t. f \in Frames /\ frame \in [Threads -> Frames] /\ Idle \in Frames
  BY LoggerAssumption DEF TypeOK, Frames, Idle, Levels
<1>1. ASSUME NEW l \in Loggers, NEW a \in Appenders, AddBegin(t, l, a)
      PROVE  TypeOK' /\ ArgInv'
  <2> DEFINE fr == [f EXCEPT !.pc = "addCheck", !.at = l, !.arg = a]
  <2>1. fr \in Frames /\ fr.arg \in Appenders
    BY <1>t DEF Frames
  <2>2. Goto(t, fr)
    BY <1>1 DEF AddBegin
  <2>3. frame' \in [Threads -> Frames] /\ ArgInv'
    BY <2>1, <2>2, FrameAfter DEF ArgInv
  <2>4. m_mutex' \in [Loggers -> Threads \cup {Free}]
    BY <1>1 DEF AddBegin, Take, TypeOK
  <2>5. /\ UNCHANGED <<loggerVars, appenderVars, raced, emptied>>
        /\ joined' \subseteq Loggers \X Appenders /\ readded' \subseteq added'
    <3>1. joined' = joined \cup {<<l, a>>} /\ added \subseteq added' /\ a \in added'
      BY <1>1 DEF AddBegin, added
    <3>2. readded \subseteq added /\ {a} \cap added \subseteq added
          /\ readded' = readded \cup ({a} \cap added)
      BY <1>1 DEF AddBegin, TypeOK
    <3>3. joined \cup {<<l, a>>} \subseteq Loggers \X Appenders
      BY DEF TypeOK
    <3> QED
      BY <1>1, <3>1, <3>2, <3>3 DEF AddBegin
  <2>6. ops \in 0 .. MaxOps /\ ops < MaxOps /\ ops' = ops + 1
    BY <1>1 DEF AddBegin, Begin, TypeOK
  <2>7. ops' \in 0 .. MaxOps
    BY <2>6, LoggerAssumption
  <2> QED
    BY <2>3, <2>4, <2>5, <2>7 DEF TypeOK, loggerVars, appenderVars
<1>2. CASE AddCheck(t)
  <2> DEFINE pc == IF a_formatter[f.arg] = Null THEN "addSet" ELSE "addPush"
             fr == [f EXCEPT !.pc = pc]
  <2>1. fr \in Frames /\ fr.arg = f.arg /\ f.arg \in Appenders
    BY <1>2, <1>t DEF Frames, AddCheck, ArgInv, AddPcs
  <2>2. Goto(t, fr)
    BY <1>2 DEF AddCheck
  <2>3. frame' \in [Threads -> Frames] /\ ArgInv'
    <3> HIDE DEF fr
    <3> QED
      BY <2>1, <2>2, FrameAfter DEF ArgInv
  <2> QED
    BY <1>2, <2>3 DEF AddCheck, TypeOK, loggerVars, appenderVars, historyVars, added
<1>3. CASE AddSet(t)
  <2> DEFINE fr == [f EXCEPT !.pc = "addPush"]
  <2>1. fr \in Frames /\ fr.arg = f.arg /\ f.arg \in Appenders /\ f.at \in Loggers
    BY <1>3, <1>t DEF Frames, AddSet, ArgInv, AddPcs
  <2>2. Goto(t, fr)
    BY <1>3 DEF AddSet
  <2>3. frame' \in [Threads -> Frames] /\ ArgInv'
    BY <2>1, <2>2, FrameAfter DEF ArgInv
  <2>4. a_formatter' \in [Appenders -> Formatters \cup {Null}]
    BY <1>3, <2>1 DEF AddSet, TypeOK
  <2> QED
    BY <1>3, <2>3, <2>4 DEF AddSet, TypeOK, loggerVars, historyVars, added
<1>4. CASE AddPush(t)
  <2>1. Goto(t, Idle) /\ f.arg \in Appenders /\ f.at \in Loggers
    BY <1>4, <1>t DEF Frames, AddPush, Return, ArgInv, AddPcs
  <2>2. frame' \in [Threads -> Frames] /\ ArgInv'
    BY <1>t, <2>1, FrameAfter DEF ArgInv, Idle, AddPcs
  <2>3. Append(m_appenders[f.at], f.arg) \in Seq(Appenders)
    BY <2>1, AppendProperties DEF TypeOK
  <2>4. m_appenders' \in [Loggers -> Seq(Appenders)]
        /\ m_mutex' \in [Loggers -> Threads \cup {Free}]
    BY <1>4, <2>3 DEF AddPush, Release, TypeOK
  <2> QED
    BY <1>4, <2>2, <2>4 DEF AddPush, TypeOK, appenderVars, historyVars, added
<1> QED
  BY <1>1, <1>2, <1>3, <1>4

LEMMA TypeReturn ==
  ASSUME TypeOK, ArgInv, NEW t \in Threads,
         Propagate(t) \/ SetFormatterReturn(t)
  PROVE  TypeOK' /\ ArgInv'
<1> DEFINE f == frame[t]
<1>t. f \in Frames /\ frame \in [Threads -> Frames] /\ Idle \in Frames
  BY LoggerAssumption DEF TypeOK, Frames, Idle, Levels
<1>1. CASE Propagate(t)
  <2> DEFINE fr == [f EXCEPT !.todo = Tail(@)]
  <2>1. f.todo \in Seq(Appenders) /\ f.todo # <<>> /\ f.at \in Loggers
    BY <1>1, <1>t DEF Propagate, Frames
  <2>2. Head(f.todo) \in Appenders /\ Tail(f.todo) \in Seq(Appenders)
    BY <2>1, TailRange
  <2>3. fr \in Frames /\ fr.pc \notin AddPcs
    BY <1>1, <1>t, <2>2 DEF Frames, Propagate, AddPcs
  <2>4. Goto(t, fr)
    BY <1>1 DEF Propagate
  <2>5. frame' \in [Threads -> Frames] /\ ArgInv'
    BY <2>3, <2>4, FrameAfter DEF ArgInv
  <2>6. a_formatter' \in [Appenders -> Formatters \cup {Null}]
    BY <1>1, <2>1, <2>2 DEF Propagate, TypeOK
  <2> QED
    BY <1>1, <2>5, <2>6 DEF Propagate, TypeOK, loggerVars, historyVars, added
<1>2. CASE SetFormatterReturn(t)
  <2>1. Goto(t, Idle)
    BY <1>2 DEF SetFormatterReturn, Return
  <2>2. frame' \in [Threads -> Frames] /\ ArgInv'
    BY <1>t, <2>1, FrameAfter DEF ArgInv, Idle, AddPcs
  <2> QED
    BY <1>2, <2>2 DEF SetFormatterReturn, Release, TypeOK, loggerVars,
       appenderVars, historyVars, added
<1> QED
  BY <1>1, <1>2

LEMMA TypeOther ==
  ASSUME TypeOK, ArgInv, NEW t \in Threads,
         NEW l \in Loggers, NEW a \in Appenders, NEW lv \in Levels,
         NEW g \in Formatters \cup {Null},
         \/ LogCall(t, l, lv) \/ SetLevel(t, l, lv)
         \/ DelAppender(t, l, a) \/ ClearAppender(t, l)
         \/ SetFormatter(t, l, g) \/ AppenderSetFormatter(t, a, g)
  PROVE  TypeOK' /\ ArgInv'
<1> DEFINE f == frame[t]
<1>t. f \in Frames /\ frame \in [Threads -> Frames] /\ Idle \in Frames
      /\ m_appenders[l] \in Seq(Appenders)
  BY LoggerAssumption DEF TypeOK, Frames, Idle, Levels
<1>o. ASSUME Begin(t) PROVE ops' \in 0 .. MaxOps
  BY <1>o, LoggerAssumption DEF Begin, TypeOK
<1>1. CASE LogCall(t, l, lv)
  <2> DEFINE fr == [f EXCEPT !.pc = "log", !.at = l, !.level = lv]
  <2>1. fr \in Frames /\ fr.pc \notin AddPcs /\ Goto(t, fr)
    BY <1>1, <1>t DEF Frames, LogCall, AddPcs
  <2>2. frame' \in [Threads -> Frames] /\ ArgInv'
    BY <2>1, FrameAfter DEF ArgInv
  <2> QED
    BY <1>1, <1>o, <2>2
       DEF LogCall, TypeOK, loggerVars, appenderVars, historyVars, added
<1>2. CASE SetLevel(t, l, lv)
  BY <1>2, <1>o DEF SetLevel, TypeOK, appenderVars, historyVars, ArgInv,
           added
<1>3. CASE DelAppender(t, l, a)
  <2>1. m_appenders' \in [Loggers -> Seq(Appenders)]
    BY <1>3, <1>t, RemoveFirstRange DEF DelAppender, TypeOK
  <2> QED
    BY <1>3, <1>o, <2>1
       DEF DelAppender, listUnchanged, TypeOK, appenderVars, historyVars, ArgInv,
           added
<1>4. CASE ClearAppender(t, l)
  <2>1. m_appenders' \in [Loggers -> Seq(Appenders)]
    BY <1>4, EmptySeq DEF ClearAppender, TypeOK
  <2> QED
    BY <1>4, <1>o, <2>1
       DEF ClearAppender, listUnchanged, TypeOK, appenderVars, historyVars, ArgInv,
           added
<1>5. CASE SetFormatter(t, l, g)
  <2> DEFINE fr == [f EXCEPT !.pc = "propagate", !.at = l,
                             !.todo = m_appenders[l]]
  <2>1. fr \in Frames /\ fr.pc \notin AddPcs /\ Goto(t, fr)
    BY <1>5, <1>t DEF Frames, SetFormatter, AddPcs
  <2>2. frame' \in [Threads -> Frames] /\ ArgInv'
    BY <2>1, FrameAfter DEF ArgInv
  <2>3. /\ m_formatter' \in [Loggers -> Formatters \cup {Null}]
        /\ m_mutex' \in [Loggers -> Threads \cup {Free}]
        /\ emptied' \subseteq Loggers
    BY <1>5 DEF SetFormatter, Take, TypeOK
  <2>4. added' = added
    BY <1>5 DEF SetFormatter, added
  <2> QED
    BY <1>5, <1>o, <2>2, <2>3, <2>4 DEF SetFormatter, TypeOK, appenderVars
<1>8. CASE AppenderSetFormatter(t, a, g)
  <2>1. (g # Null) \in BOOLEAN
    OBVIOUS
  <2>2. m_hasFormatter' \in [Appenders -> BOOLEAN]
    BY <1>8, <2>1 DEF AppenderSetFormatter, TypeOK
  <2>3. raced' \subseteq Appenders
    BY <1>8 DEF AppenderSetFormatter, TypeOK
  <2>4. added' = added
    BY <1>8 DEF AppenderSetFormatter, added
  <2> QED
    BY <1>8, <1>o, <2>2, <2>3, <2>4
       DEF AppenderSetFormatter, TypeOK, loggerVars, ArgInv
<1> QED
  BY <1>1, <1>2, <1>3, <1>4, <1>5, <1>8

LEMMA TypeStep ==
  ASSUME TypeOK, ArgInv, NEW t \in Threads, Continue(t) \/ Call(t)
  PROVE  TypeOK' /\ ArgInv'
<1>2. CASE Continue(t)
  <2>1. CASE AddCheck(t) \/ AddSet(t) \/ AddPush(t)
    BY <2>1, TypeAdd
  <2>2. CASE \/ LogEnter(t) \/ LogToRoot(t) \/ LogNothing(t) \/ RootEnter(t)
             \/ RootNothing(t) \/ Write(t) \/ LogReturn(t)
    BY <2>2, TypeLog
  <2>3. CASE Propagate(t) \/ SetFormatterReturn(t)
    BY <2>3, TypeReturn
  <2> QED
    BY <1>2, <2>1, <2>2, <2>3 DEF Continue
<1>3. CASE Call(t)
  <2>1. PICK l \in Loggers, a \in Appenders, g \in Formatters \cup {Null},
             lv \in Levels :
          \/ LogCall(t, l, lv) \/ SetLevel(t, l, lv)
          \/ AddBegin(t, l, a) \/ DelAppender(t, l, a) \/ ClearAppender(t, l)
          \/ SetFormatter(t, l, g) \/ AppenderSetFormatter(t, a, g)
    BY <1>3, Zenon DEF Call
  <2>2. CASE AddBegin(t, l, a)
    BY <2>2, TypeAdd
  <2>3. CASE ~ AddBegin(t, l, a)
    BY <2>1, <2>3, TypeOther
  <2> QED
    BY <2>2, <2>3
<1> QED
  BY <1>2, <1>3

-----------------------------------------------------------------------------
(* What each action does to the frame of the thread that takes it.         *)

LEMMA FrameOf ==
  ASSUME TypeOK, NEW t \in Threads,
         NEW f, f = frame[t], NEW F, F = frame'[t]
  PROVE
  /\ \A l, lv : LogCall(t, l, lv) =>
       /\ f.pc = "idle" /\ F.pc = "log" /\ F.at = l /\ F.wrote = f.wrote
  /\ LogEnter(t) =>
       /\ f.pc = "log" /\ F.pc = "write" /\ F.at = f.at
       /\ F.outlet = f.at /\ F.todo = m_appenders[f.at]
       /\ F.wrote = f.wrote
  /\ LogToRoot(t) =>
       /\ f.pc = "log" /\ F.pc = "logRoot" /\ F.at = f.at
       /\ F.wrote = f.wrote
  /\ RootEnter(t) =>
       /\ f.pc = "logRoot" /\ F.pc = "write" /\ F.at = f.at
       /\ F.outlet = Root /\ F.todo = m_appenders[Root]
       /\ F.wrote = f.wrote
  /\ Write(t) =>
       /\ f.pc = "write" /\ f.todo # <<>> /\ F.pc = "write"
       /\ F.at = f.at /\ F.outlet = f.outlet /\ F.todo = Tail(f.todo)
       /\ F.wrote = Append(f.wrote, Head(f.todo))
  /\ \A l, a : AddBegin(t, l, a) =>
       /\ f.pc = "idle" /\ F.pc = "addCheck" /\ F.at = l /\ F.arg = a
  /\ AddCheck(t) =>
       /\ f.pc = "addCheck"
       /\ F.pc = IF a_formatter[f.arg] = Null THEN "addSet" ELSE "addPush"
       /\ F.at = f.at /\ F.arg = f.arg
  /\ AddSet(t) =>
       /\ f.pc = "addSet" /\ F.pc = "addPush" /\ F.at = f.at
       /\ F.arg = f.arg
  /\ \A l, g : SetFormatter(t, l, g) =>
       /\ f.pc = "idle" /\ F.pc = "propagate" /\ F.at = l
       /\ F.todo = m_appenders[l]
  /\ Propagate(t) =>
       /\ f.pc = "propagate" /\ f.todo # <<>> /\ F.pc = "propagate"
       /\ F.at = f.at /\ F.todo = Tail(f.todo)
<1> f \in Frames /\ \A fr : Goto(t, fr) => F = fr
  BY FrameAfter DEF TypeOK
<1>1. ASSUME NEW l, NEW lv, LogCall(t, l, lv) PROVE
       /\ f.pc = "idle" /\ F.pc = "log" /\ F.at = l /\ F.wrote = f.wrote
  BY <1>1 DEF LogCall, Begin, Frames
<1>2. ASSUME LogEnter(t) PROVE
       /\ f.pc = "log" /\ F.pc = "write" /\ F.at = f.at
       /\ F.outlet = f.at /\ F.todo = m_appenders[f.at]
       /\ F.wrote = f.wrote
  BY <1>2 DEF LogEnter, Iterate, Frames
<1>3. ASSUME LogToRoot(t) PROVE
       /\ f.pc = "log" /\ F.pc = "logRoot" /\ F.at = f.at
       /\ F.wrote = f.wrote
  BY <1>3 DEF LogToRoot, Frames
<1>4. ASSUME RootEnter(t) PROVE
       /\ f.pc = "logRoot" /\ F.pc = "write" /\ F.at = f.at
       /\ F.outlet = Root /\ F.todo = m_appenders[Root]
       /\ F.wrote = f.wrote
  BY <1>4 DEF RootEnter, Iterate, Frames
<1>5. ASSUME Write(t) PROVE
       /\ f.pc = "write" /\ f.todo # <<>> /\ F.pc = "write"
       /\ F.at = f.at /\ F.outlet = f.outlet /\ F.todo = Tail(f.todo)
       /\ F.wrote = Append(f.wrote, Head(f.todo))
  BY <1>5 DEF Write, Frames
<1>6. ASSUME NEW l, NEW a, AddBegin(t, l, a) PROVE
       /\ f.pc = "idle" /\ F.pc = "addCheck" /\ F.at = l /\ F.arg = a
  BY <1>6 DEF AddBegin, Begin, Frames
<1>7. ASSUME AddCheck(t) PROVE
       /\ f.pc = "addCheck"
       /\ F.pc = IF a_formatter[f.arg] = Null THEN "addSet" ELSE "addPush"
       /\ F.at = f.at /\ F.arg = f.arg
  BY <1>7 DEF AddCheck, Frames
<1>8. ASSUME AddSet(t) PROVE
       /\ f.pc = "addSet" /\ F.pc = "addPush" /\ F.at = f.at
       /\ F.arg = f.arg
  BY <1>8 DEF AddSet, Frames
<1>9. ASSUME NEW l, NEW g, SetFormatter(t, l, g) PROVE
       /\ f.pc = "idle" /\ F.pc = "propagate" /\ F.at = l
       /\ F.todo = m_appenders[l]
  BY <1>9 DEF SetFormatter, Begin, Frames
<1>10. ASSUME Propagate(t) PROVE
       /\ f.pc = "propagate" /\ f.todo # <<>> /\ F.pc = "propagate"
       /\ F.at = f.at /\ F.todo = Tail(f.todo)
  BY <1>10 DEF Propagate, Frames
<1> QED
  BY <1>1, <1>2, <1>3, <1>4, <1>5, <1>6, <1>7, <1>8, <1>9, <1>10

LEMMA OthersStay ==
  ASSUME TypeOK, NEW t \in Threads, Continue(t) \/ Call(t), NEW s \in Threads,
         s # t
  PROVE  frame'[s] = frame[s]
<1> \A fr : Goto(t, fr) => frame'[s] = frame[s]
  BY FrameAfter
<1>1. CASE LogEnter(t) \/ LogToRoot(t) \/ LogNothing(t) \/ RootEnter(t)
           \/ RootNothing(t)
  BY <1>1 DEF LogEnter, LogToRoot, LogNothing, RootEnter, RootNothing, Return,
     Iterate
<1>2. CASE Write(t) \/ LogReturn(t) \/ AddCheck(t) \/ AddSet(t) \/ AddPush(t)
  BY <1>2 DEF Write, LogReturn, AddCheck, AddSet, AddPush, Return
<1>3. CASE Propagate(t) \/ SetFormatterReturn(t)
  BY <1>3 DEF Propagate, SetFormatterReturn, Return
<1>4. CASE Call(t)
  <2>1. ASSUME NEW l, NEW lv, LogCall(t, l, lv) \/ SetLevel(t, l, lv)
        PROVE  frame'[s] = frame[s]
    BY <2>1 DEF LogCall, SetLevel
  <2>2. ASSUME NEW l, NEW a,
               AddBegin(t, l, a) \/ DelAppender(t, l, a) \/ ClearAppender(t, l)
        PROVE  frame'[s] = frame[s]
    BY <2>2 DEF AddBegin, DelAppender, ClearAppender, listUnchanged
  <2>3. ASSUME NEW l, NEW a, NEW g, NEW h,
               SetFormatter(t, l, g) \/ AppenderSetFormatter(t, a, h)
        PROVE  frame'[s] = frame[s]
    BY <2>3 DEF SetFormatter, AppenderSetFormatter
  <2> QED
    BY <1>4, <2>1, <2>2, <2>3 DEF Call
<1> QED
  BY <1>1, <1>2, <1>3, <1>4 DEF Continue

-----------------------------------------------------------------------------
(* The locks of the loggers.                                               *)

(* The loggers whose lock a thread holds, by the step it is at.            *)
Held(t) ==
  {l \in Loggers :
     \/ frame[t].pc \in {"logRoot", "write", "propagate"} \cup AddPcs
        /\ l = frame[t].at
     \/ frame[t].pc = "write" /\ l = frame[t].outlet}

LockInv == \A t \in Threads, l \in Loggers : m_mutex[l] = t <=> l \in Held(t)

LEMMA OthersHold ==
  ASSUME TypeOK, NEW t \in Threads, Continue(t) \/ Call(t), NEW s \in Threads,
         s # t
  PROVE  Held(s)' = Held(s)
BY OthersStay DEF Held

LEMMA LockSame ==
  ASSUME TypeOK, LockInv, NEW t \in Threads, Continue(t) \/ Call(t),
         m_mutex' = m_mutex, Held(t)' = Held(t)
  PROVE  LockInv'
BY OthersHold DEF LockInv

LEMMA LockTaken ==
  ASSUME TypeOK, LockInv, NEW t \in Threads, Continue(t) \/ Call(t),
         NEW l \in Loggers, Take(t, l), Held(t)' = Held(t) \cup {l}
  PROVE  LockInv'
<1>1. \A s \in Threads : l \notin Held(s)
  BY LoggerAssumption DEF LockInv, Take
<1>2. \A k \in Loggers : m_mutex'[k] = IF k = l THEN t ELSE m_mutex[k]
  BY DEF Take, TypeOK
<1> QED
  BY <1>1, <1>2, OthersHold DEF LockInv

LEMMA LocksReleased ==
  ASSUME TypeOK, LockInv, NEW t \in Threads, Continue(t) \/ Call(t),
         Release(Held(t)), Held(t)' = {}
  PROVE  LockInv'
<1>1. \A k \in Loggers : m_mutex'[k] = IF k \in Held(t) THEN Free ELSE m_mutex[k]
  BY DEF Release
<1>2. \A s \in Threads : s # t => \A k \in Held(t) : k \notin Held(s)
  BY DEF LockInv, Held
<1> QED
  BY <1>1, <1>2, OthersHold, LoggerAssumption DEF LockInv

LEMMA LockStep ==
  ASSUME TypeOK, LockInv, NEW t \in Threads, Continue(t) \/ Call(t)
  PROVE  LockInv'
<1> DEFINE f == frame[t]
           F == frame'[t]
<1> f.at \in Loggers /\ f.outlet \in Loggers /\ Root \in Loggers
  BY LoggerAssumption DEF TypeOK, Frames
<1>r. ASSUME Return(t) PROVE Held(t)' = {}
  <2>1. F = Idle
    BY <1>r, FrameAfter DEF Return
  <2> QED
    BY <2>1 DEF Held, Idle, AddPcs
<1>1. CASE LogEnter(t)
  <2>1. Held(t) = {} /\ Held(t)' = {f.at} /\ Take(t, f.at)
    BY <1>1, FrameOf DEF Held, LogEnter, AddPcs
  <2> QED
    BY <2>1, LockTaken
<1>2. CASE LogToRoot(t)
  <2>1. Held(t) = {} /\ Held(t)' = {f.at} /\ Take(t, f.at)
    BY <1>2, FrameOf DEF Held, LogToRoot, AddPcs
  <2> QED
    BY <2>1, LockTaken
<1>3. CASE LogNothing(t)
  <2>1. Held(t) = {} /\ Held(t)' = {} /\ m_mutex' = m_mutex
    BY <1>3, <1>r DEF Held, LogNothing, AddPcs
  <2> QED
    BY <2>1, LockSame
<1>4. CASE RootEnter(t)
  <2>1. Held(t) = {f.at} /\ Held(t)' = {f.at, Root} /\ Take(t, Root)
    BY <1>4, FrameOf DEF Held, RootEnter, AddPcs
  <2> QED
    BY <2>1, LockTaken
<1>5. CASE RootNothing(t)
  <2>1. Held(t) = {f.at} /\ Held(t)' = {} /\ Release({f.at})
    BY <1>5, <1>r DEF Held, RootNothing, AddPcs
  <2> QED
    BY <2>1, LocksReleased
<1>6. CASE Write(t)
  <2>1. F.pc = f.pc /\ F.at = f.at /\ F.outlet = f.outlet
    BY <1>6, FrameOf DEF AddPcs
  <2>2. m_mutex' = m_mutex
    BY <1>6 DEF Write
  <2>3. Held(t)' = Held(t)
    BY <2>1 DEF Held, AddPcs
  <2> QED
    BY <2>2, <2>3, LockSame
<1>7. CASE LogReturn(t)
  <2>1. Held(t) = {f.at, f.outlet} /\ Held(t)' = {} /\ Release({f.at, f.outlet})
    BY <1>7, <1>r DEF Held, LogReturn, AddPcs
  <2> QED
    BY <2>1, LocksReleased
<1>8. CASE AddCheck(t) \/ AddSet(t)
  <2>1. f.pc \in AddPcs /\ F.pc \in AddPcs /\ F.at = f.at
    BY <1>8, FrameOf DEF AddPcs
  <2>2. m_mutex' = m_mutex
    BY <1>8 DEF AddCheck, AddSet
  <2>3. Held(t)' = Held(t)
    BY <2>1 DEF Held, AddPcs
  <2> QED
    BY <2>2, <2>3, LockSame
<1>9. CASE AddPush(t) \/ SetFormatterReturn(t)
  <2>1. Held(t) = {f.at} /\ Held(t)' = {} /\ Release({f.at})
    BY <1>9, <1>r DEF Held, AddPush, SetFormatterReturn, AddPcs
  <2> QED
    BY <2>1, LocksReleased
<1>10. CASE Propagate(t)
  <2>1. f.pc = "propagate" /\ F.pc = "propagate" /\ F.at = f.at
    BY <1>10, FrameOf DEF AddPcs
  <2>2. m_mutex' = m_mutex
    BY <1>10 DEF Propagate
  <2>3. Held(t)' = Held(t)
    BY <2>1 DEF Held, AddPcs
  <2> QED
    BY <2>2, <2>3, LockSame
<1>11. ASSUME NEW l \in Loggers, NEW lv, LogCall(t, l, lv)
       PROVE  LockInv'
  <2>1. Held(t) = {} /\ Held(t)' = {} /\ m_mutex' = m_mutex
    BY <1>11, FrameOf DEF Held, LogCall, AddPcs
  <2> QED
    BY <2>1, LockSame
<1>12. ASSUME NEW l \in Loggers, NEW a, NEW g,
              AddBegin(t, l, a) \/ SetFormatter(t, l, g)
       PROVE  LockInv'
  <2>1. f.pc = "idle" /\ F.pc \in {"addCheck", "propagate"} /\ F.at = l
    <3>1. CASE AddBegin(t, l, a)
      <4>1. f \in Frames /\ \A fr : Goto(t, fr) => F = fr
        BY FrameAfter DEF TypeOK
      <4> QED
        BY <3>1, <4>1 DEF AddBegin, Begin, Frames
    <3>2. CASE SetFormatter(t, l, g)
      BY <3>2, FrameOf
    <3> QED
      BY <1>12, <3>1, <3>2
  <2>2. Take(t, l)
    BY <1>12 DEF AddBegin, SetFormatter
  <2>3. Held(t) = {} /\ Held(t)' = {l}
    BY <2>1 DEF Held, AddPcs
  <2> QED
    BY <2>2, <2>3, LockTaken
<1>13. ASSUME frame' = frame, m_mutex' = m_mutex PROVE LockInv'
  BY <1>13, LockSame DEF Held
<1>14. ASSUME NEW l, NEW a, NEW lv, NEW g,
              \/ SetLevel(t, l, lv) \/ DelAppender(t, l, a)
              \/ ClearAppender(t, l) \/ AppenderSetFormatter(t, a, g)
       PROVE  LockInv'
  BY <1>13, <1>14
     DEF SetLevel, DelAppender, ClearAppender, AppenderSetFormatter, listUnchanged
<1>15. CASE Continue(t)
  BY <1>1, <1>2, <1>3, <1>4, <1>5, <1>6, <1>7, <1>8, <1>9, <1>10, <1>15
     DEF Continue
<1>16. CASE Call(t)
  BY <1>11, <1>12, <1>14, <1>16 DEF Call
<1> QED
  BY <1>15, <1>16

-----------------------------------------------------------------------------
(* Messages.                                                               *)

(* What a message has reached and what is left of the list under the       *)
(* iterator make up the list, which the lock keeps as it is.               *)
LogInv ==
  \A t \in Threads :
    /\ frame[t].pc \in {"idle", "log", "logRoot"} => frame[t].wrote = <<>>
    /\ frame[t].pc = "logRoot" => m_appenders[frame[t].at] = <<>>
    /\ frame[t].pc = "write" =>
         /\ frame[t].wrote \o frame[t].todo = m_appenders[frame[t].outlet]
         /\ frame[t].outlet = frame[t].at \/ m_appenders[frame[t].at] = <<>>

(* Only the thread that holds a logger's lock changes its appenders.       *)
LEMMA ListKept ==
  ASSUME TypeOK, LockInv, NEW t \in Threads, Continue(t) \/ Call(t),
         NEW s \in Threads, NEW l \in Held(s), s # t \/ frame[t].pc # "addPush"
  PROVE  m_appenders'[l] = m_appenders[l]
<1>1. m_mutex[l] = s /\ l \in Loggers /\ s # Free
  BY LoggerAssumption DEF LockInv, Held
<1>2. ASSUME NEW k, NEW a, DelAppender(t, k, a) \/ ClearAppender(t, k)
      PROVE  m_appenders'[l] = m_appenders[l]
  BY <1>1, <1>2 DEF DelAppender, ClearAppender, TypeOK
<1>3. ASSUME AddPush(t) PROVE m_appenders'[l] = m_appenders[l]
  <2>1. frame[t].pc = "addPush" /\ frame[t].at \in Loggers /\ s # t
    BY <1>3 DEF AddPush, TypeOK, Frames
  <2>2. m_mutex[frame[t].at] = t
    BY <2>1 DEF LockInv, Held, AddPcs
  <2> QED
    BY <1>1, <1>3, <2>1, <2>2 DEF AddPush, TypeOK
<1>4. CASE Continue(t) /\ ~ AddPush(t)
  BY <1>4 DEF Continue, LogEnter, LogToRoot, LogNothing, RootEnter, RootNothing,
     Write, LogReturn, AddCheck, AddSet, Propagate, SetFormatterReturn,
     logUnchanged, loggerVars
<1>5. ASSUME NEW k, NEW a, NEW lv, NEW g,
             \/ LogCall(t, k, lv) \/ SetLevel(t, k, lv) \/ AddBegin(t, k, a)
             \/ SetFormatter(t, k, g) \/ AppenderSetFormatter(t, a, g)
      PROVE  m_appenders'[l] = m_appenders[l]
  BY <1>5 DEF LogCall, SetLevel, AddBegin, SetFormatter, AppenderSetFormatter,
     loggerVars
<1>6. CASE Call(t)
  BY <1>2, <1>5, <1>6 DEF Call
<1> QED
  BY <1>3, <1>4, <1>6

LEMMA LogStep ==
  ASSUME TypeOK, ArgInv, LockInv, LogInv, NEW t \in Threads,
         Continue(t) \/ Call(t)
  PROVE  LogInv'
<1> DEFINE f == frame[t]
           F == frame'[t]
           Good(u) ==
             /\ frame[u].pc \in {"idle", "log", "logRoot"} => frame[u].wrote = <<>>
             /\ frame[u].pc = "logRoot" => m_appenders[frame[u].at] = <<>>
             /\ frame[u].pc = "write" =>
                  /\ frame[u].wrote \o frame[u].todo = m_appenders[frame[u].outlet]
                  /\ \/ frame[u].outlet = frame[u].at
                     \/ m_appenders[frame[u].at] = <<>>
<1>t. f.at \in Loggers /\ f.outlet \in Loggers /\ Root \in Loggers
      /\ f.todo \in Seq(Appenders) /\ f.wrote \in Seq(Appenders)
      /\ m_appenders \in [Loggers -> Seq(Appenders)]
  BY LoggerAssumption DEF TypeOK, Frames
<1>g. Good(t)
  BY DEF LogInv
<1>o. ASSUME NEW s \in Threads, s # t PROVE Good(s)'
  <2>1. frame'[s] = frame[s]
    BY <1>o, OthersStay
  <2>2. frame[s].at \in Loggers /\ frame[s].outlet \in Loggers
    BY DEF TypeOK, Frames
  <2>3. CASE frame[s].pc = "logRoot"
    <3>1. m_appenders'[frame[s].at] = m_appenders[frame[s].at]
      BY <1>o, <2>2, <2>3, ListKept DEF Held
    <3> QED
      BY <2>1, <2>3, <3>1 DEF LogInv
  <2>4. CASE frame[s].pc = "write"
    <3>1. m_appenders'[frame[s].at] = m_appenders[frame[s].at]
          /\ m_appenders'[frame[s].outlet] = m_appenders[frame[s].outlet]
      BY <1>o, <2>2, <2>4, ListKept DEF Held
    <3> QED
      BY <2>1, <2>4, <3>1 DEF LogInv
  <2> QED
    BY <2>1, <2>3, <2>4 DEF LogInv
<1>r. ASSUME Return(t) PROVE Good(t)'
  <2>1. F = Idle
    BY <1>r, FrameAfter DEF Return
  <2> QED
    BY <2>1 DEF Idle
<1>1. ASSUME LogEnter(t) PROVE Good(t)'
  <2>1. F.pc = "write" /\ F.at = f.at /\ F.outlet = f.at
        /\ F.todo = m_appenders[f.at] /\ F.wrote = <<>>
    BY <1>1, <1>g, FrameOf
  <2>2. m_appenders' = m_appenders
    BY <1>1 DEF LogEnter, logUnchanged, loggerVars
  <2>3. m_appenders[f.at] = <<>> \o m_appenders[f.at]
    BY <1>t, ConcatEmptySeq
  <2> QED
    BY <2>1, <2>2, <2>3
<1>2. ASSUME LogToRoot(t) PROVE Good(t)'
  <2>1. F.pc = "logRoot" /\ F.at = f.at /\ F.wrote = <<>>
    BY <1>2, <1>g, FrameOf
  <2> QED
    BY <1>2, <2>1 DEF LogToRoot, logUnchanged, loggerVars
<1>3. ASSUME RootEnter(t) PROVE Good(t)'
  <2>1. F.pc = "write" /\ F.at = f.at /\ F.outlet = Root
        /\ F.todo = m_appenders[Root] /\ F.wrote = <<>>
        /\ m_appenders[f.at] = <<>>
    BY <1>3, <1>g, FrameOf
  <2>2. m_appenders' = m_appenders
    BY <1>3 DEF RootEnter, logUnchanged, loggerVars
  <2>3. m_appenders[Root] = <<>> \o m_appenders[Root]
    BY <1>t, ConcatEmptySeq
  <2> QED
    BY <2>1, <2>2, <2>3
<1>4. ASSUME Write(t) PROVE Good(t)'
  <2>1. F.pc = "write" /\ F.at = f.at /\ F.outlet = f.outlet
        /\ f.pc = "write" /\ f.todo # <<>>
        /\ F.wrote = Append(f.wrote, Head(f.todo)) /\ F.todo = Tail(f.todo)
    BY <1>4, FrameOf
  <2>2. m_appenders' = m_appenders
    BY <1>4 DEF Write, logUnchanged, loggerVars
  <2>3. F.wrote \o F.todo = f.wrote \o f.todo
    BY <1>t, <2>1, MoveOn
  <2> QED
    BY <1>g, <2>1, <2>2, <2>3
<1>5. ASSUME \/ LogNothing(t) \/ RootNothing(t) \/ LogReturn(t) \/ AddPush(t)
             \/ SetFormatterReturn(t)
      PROVE  Good(t)'
  BY <1>5, <1>r DEF LogNothing, RootNothing, LogReturn, AddPush,
     SetFormatterReturn
<1>6. ASSUME AddCheck(t) \/ AddSet(t) \/ Propagate(t) PROVE Good(t)'
  <2>1. F.pc \in {"addSet", "addPush", "propagate"}
    BY <1>6, FrameOf
  <2> QED
    BY <2>1
<1>7. ASSUME NEW l, NEW lv, LogCall(t, l, lv) PROVE Good(t)'
  <2>1. F.pc = "log" /\ F.wrote = <<>>
    BY <1>7, <1>g, FrameOf
  <2> QED
    BY <2>1
<1>8. ASSUME NEW l, NEW a, NEW g,
             AddBegin(t, l, a) \/ SetFormatter(t, l, g)
      PROVE  Good(t)'
  <2>f. f \in Frames /\ \A fr : Goto(t, fr) => F = fr
    BY FrameAfter DEF TypeOK
  <2>1. F.pc \in {"addCheck", "propagate"}
    BY <1>8, <2>f DEF AddBegin, SetFormatter, Frames
  <2> QED
    BY <2>1
<1>9. ASSUME NEW l, NEW a, NEW lv, NEW g,
             \/ SetLevel(t, l, lv) \/ DelAppender(t, l, a)
             \/ ClearAppender(t, l) \/ AppenderSetFormatter(t, a, g)
      PROVE  Good(t)'
  <2>1. f.pc = "idle" /\ F = f
    BY <1>9 DEF SetLevel, DelAppender, ClearAppender, AppenderSetFormatter,
       listUnchanged, Begin
  <2> QED
    BY <1>g, <2>1
<1>10. Good(t)'
  <2>1. CASE Continue(t)
    BY <1>1, <1>2, <1>3, <1>4, <1>5, <1>6, <2>1 DEF Continue
  <2>2. CASE Call(t)
    BY <1>7, <1>8, <1>9, <2>2 DEF Call
  <2> QED
    BY <2>1, <2>2
<1> QED
  BY <1>o, <1>10 DEF LogInv

-----------------------------------------------------------------------------
(* Formatters: what an appender was given for itself.                      *)

(* A thread that is about to set the formatter of an appender has seen it  *)
(* without one; own formatters given since then are marked in raced.       *)
OwnInv ==
  /\ \A a \in Appenders : m_hasFormatter[a] => own[a] \in Formatters
  /\ OwnFormatterKept
  /\ \A t \in Threads :
       frame[t].pc = "addSet" /\ frame[t].arg \notin raced =>
         ~ m_hasFormatter[frame[t].arg]

(* Only four actions change what a list holds or an appender formats with. *)
LEMMA OnlyThese ==
  ASSUME NEW t \in Threads, Continue(t) \/ Call(t)
  PROVE  \/ AddPush(t)
         \/ \E l \in Loggers, a \in Appenders :
              DelAppender(t, l, a) \/ ClearAppender(t, l)
         \/ AddSet(t) \/ Propagate(t)
         \/ \E a \in Appenders, g \in Formatters \cup {Null} :
              AppenderSetFormatter(t, a, g)
         \/ UNCHANGED <<m_appenders, appenderVars>>
<1>1. CASE Continue(t)
  BY <1>1 DEF Continue, LogEnter, LogToRoot, LogNothing, RootEnter, RootNothing,
     Write, LogReturn, AddCheck, SetFormatterReturn, logUnchanged, loggerVars
<1>2. ASSUME NEW l, NEW a, NEW lv, NEW g,
             \/ LogCall(t, l, lv) \/ SetLevel(t, l, lv) \/ AddBegin(t, l, a)
             \/ SetFormatter(t, l, g)
      PROVE  UNCHANGED <<m_appenders, appenderVars>>
  BY <1>2 DEF LogCall, SetLevel, AddBegin, SetFormatter, loggerVars
<1>3. CASE Call(t)
  <2>1. PICK l \in Loggers, a \in Appenders, g \in Formatters \cup {Null},
             lv \in Levels :
          \/ LogCall(t, l, lv) \/ SetLevel(t, l, lv)
          \/ AddBegin(t, l, a) \/ DelAppender(t, l, a) \/ ClearAppender(t, l)
          \/ SetFormatter(t, l, g) \/ AppenderSetFormatter(t, a, g)
    BY <1>3, Zenon DEF Call
  <2> QED
    BY <1>2, <2>1
<1> QED
  BY <1>1, <1>3

(* The lists after a step hold what they held, and what AddPush appends.   *)
LEMMA ListsAfter ==
  ASSUME TypeOK, ArgInv, NEW t \in Threads, Continue(t) \/ Call(t),
         NEW l \in Loggers, NEW a \in Range(m_appenders'[l])
  PROVE  /\ a \in Appenders
         /\ \/ a \in Range(m_appenders[l])
            \/ AddPush(t) /\ l = frame[t].at /\ a = frame[t].arg
<1>t. m_appenders \in [Loggers -> Seq(Appenders)]
      /\ Range(m_appenders[l]) \subseteq Appenders
  BY RangeOfSeq DEF TypeOK
<1>1. CASE AddPush(t)
  <2>1. frame[t].arg \in Appenders
    BY <1>1 DEF AddPush, ArgInv, AddPcs
  <2>2. Range(Append(m_appenders[l], frame[t].arg))
          = Range(m_appenders[l]) \cup {frame[t].arg}
    BY <1>t, <2>1, AppendRange
  <2> QED
    BY <1>1, <1>t, <2>1, <2>2 DEF AddPush
<1>2. ASSUME NEW k \in Loggers, NEW b \in Appenders, DelAppender(t, k, b)
      PROVE  a \in Range(m_appenders[l])
  <2>1. Range(RemoveFirst(m_appenders[l], b)) \subseteq Range(m_appenders[l])
    BY <1>t, RemoveFirstRange
  <2> QED
    BY <1>2, <1>t, <2>1 DEF DelAppender
<1>3. ASSUME NEW k \in Loggers, ClearAppender(t, k)
      PROVE  a \in Range(m_appenders[l])
  <2>1. Range(<<>>) = {}
    BY DEF Range
  <2> QED
    BY <1>3, <1>t, <2>1 DEF ClearAppender
<1>4. CASE AddSet(t) \/ Propagate(t) \/ UNCHANGED <<m_appenders, appenderVars>>
           \/ \E b \in Appenders, g \in Formatters \cup {Null} :
                AppenderSetFormatter(t, b, g)
  BY <1>4, <1>t DEF AddSet, Propagate, AppenderSetFormatter, loggerVars
<1> QED
  BY <1>t, <1>1, <1>2, <1>3, <1>4, OnlyThese

(* The steps by which a thread gets to where a formatter matters.          *)
LEMMA Arrival ==
  ASSUME TypeOK, NEW t \in Threads, Continue(t) \/ Call(t)
  PROVE  /\ frame'[t].pc = "addCheck" =>
              \E l \in Loggers, a \in Appenders : AddBegin(t, l, a)
         /\ frame'[t].pc = "addSet" => AddCheck(t)
         /\ frame'[t].pc = "addPush" => AddCheck(t) \/ AddSet(t)
         /\ frame'[t].pc = "propagate" =>
              \/ Propagate(t)
              \/ \E l \in Loggers, g \in Formatters \cup {Null} : SetFormatter(t, l, g)
<1> DEFINE f == frame[t]
           F == frame'[t]
           Away == F.pc \notin {"addCheck", "addSet", "addPush", "propagate"}
<1>r. ASSUME Return(t) PROVE Away
  <2>1. F = Idle
    BY <1>r, FrameAfter DEF Return
  <2> QED
    BY <2>1 DEF Idle
<1>1. ASSUME LogEnter(t) \/ LogToRoot(t) \/ RootEnter(t) \/ Write(t) PROVE Away
  <2>1. F.pc \in {"write", "logRoot"}
    BY <1>1, FrameOf
  <2> QED
    BY <2>1
<1>2. ASSUME \/ LogNothing(t) \/ RootNothing(t) \/ LogReturn(t) \/ AddPush(t)
             \/ SetFormatterReturn(t)
      PROVE  Away
  BY <1>2, <1>r DEF LogNothing, RootNothing, LogReturn, AddPush, SetFormatterReturn
<1>3. ASSUME NEW l, NEW a, NEW lv, NEW g,
             \/ SetLevel(t, l, lv) \/ DelAppender(t, l, a)
             \/ ClearAppender(t, l) \/ AppenderSetFormatter(t, a, g)
      PROVE  Away
  <2>1. f.pc = "idle" /\ F = f
    BY <1>3 DEF SetLevel, DelAppender, ClearAppender, AppenderSetFormatter,
       listUnchanged, Begin
  <2> QED
    BY <2>1
<1>4. ASSUME NEW l, NEW lv, LogCall(t, l, lv) PROVE Away
  <2>1. F.pc = "log"
    BY <1>4, FrameOf
  <2> QED
    BY <2>1
<1>5. AddCheck(t) => F.pc \in {"addSet", "addPush"}
  BY FrameOf
<1>6. AddSet(t) => F.pc = "addPush"
  BY FrameOf
<1>7. Propagate(t) => F.pc = "propagate"
  BY FrameOf
<1>8. \A l, a : AddBegin(t, l, a) => F.pc = "addCheck"
  BY FrameOf
<1>9. \A l, g : SetFormatter(t, l, g) => F.pc = "propagate"
  BY FrameOf
<1>10. CASE Continue(t)
  BY <1>1, <1>2, <1>5, <1>6, <1>7, <1>10 DEF Continue
<1>11. CASE Call(t)
  BY <1>3, <1>4, <1>8, <1>9, <1>11 DEF Call
<1> QED
  BY <1>10, <1>11

LEMMA OwnStep ==
  ASSUME TypeOK, ArgInv, OwnInv, NEW t \in Threads, Continue(t) \/ Call(t)
  PROVE  OwnInv'
<1> DEFINE f == frame[t]
           Own(a) == m_hasFormatter[a] => own[a] \in Formatters
           Kept(a) == a \notin raced /\ m_hasFormatter[a] => a_formatter[a] = own[a]
           Unseen(s, a) ==
             frame[s].pc = "addSet" /\ a = frame[s].arg /\ a \notin raced =>
               ~ m_hasFormatter[a]
<1>o. \A a \in Appenders : Own(a) /\ Kept(a) /\ \A s \in Threads : Unseen(s, a)
  BY DEF OwnInv, OwnFormatterKept
<1>1. ASSUME NEW b \in Appenders, NEW g \in Formatters \cup {Null},
             AppenderSetFormatter(t, b, g), NEW a \in Appenders
      PROVE  Own(a)' /\ Kept(a)' /\ \A s \in Threads : Unseen(s, a)'
  <2>1. /\ a_formatter' = [a_formatter EXCEPT ![b] = g]
        /\ m_hasFormatter' = [m_hasFormatter EXCEPT ![b] = g # Null]
        /\ own' = [own EXCEPT ![b] = g]
        /\ frame' = frame /\ raced \subseteq raced'
        /\ Adding(b) => b \in raced'
    BY <1>1 DEF AppenderSetFormatter
  <2>2. CASE a # b
    <3>1. a_formatter'[a] = a_formatter[a] /\ own'[a] = own[a]
          /\ m_hasFormatter'[a] = m_hasFormatter[a]
      BY <2>1, <2>2 DEF TypeOK
    <3> QED
      BY <1>o, <2>1, <3>1
  <2>3. CASE a = b
    <3>1. a_formatter'[a] = g /\ own'[a] = g /\ m_hasFormatter'[a] = (g # Null)
      BY <2>1, <2>3 DEF TypeOK
    <3>2. ASSUME NEW s \in Threads PROVE Unseen(s, a)'
      BY <2>1, <2>3 DEF Adding
    <3> QED
      BY <3>1, <3>2
  <2> QED
    BY <2>2, <2>3
<1>2. ASSUME AddSet(t), NEW a \in Appenders
      PROVE  Own(a)' /\ Kept(a)' /\ \A s \in Threads : Unseen(s, a)'
  <2>1. UNCHANGED <<m_hasFormatter, own, raced>>
    BY <1>2 DEF AddSet, historyVars
  <2>2. f.pc = "addSet" /\ frame'[t].pc = "addPush"
        /\ a_formatter' = [a_formatter EXCEPT ![f.arg] = m_formatter[f.at]]
    BY <1>2, FrameOf DEF AddSet
  <2>3. CASE a # f.arg
    <3>1. a_formatter'[a] = a_formatter[a]
      BY <2>2, <2>3 DEF TypeOK
    <3> QED
      BY <1>o, <2>1, <2>2, <3>1, OthersStay
  <2>4. CASE a = f.arg
    <3>1. a \in raced \/ ~ m_hasFormatter[a]
      BY <1>o, <2>2, <2>4
    <3> QED
      BY <1>o, <2>1, <2>2, <3>1, OthersStay
  <2> QED
    BY <2>3, <2>4
<1>3. ASSUME AddCheck(t), NEW a \in Appenders
      PROVE  Own(a)' /\ Kept(a)' /\ \A s \in Threads : Unseen(s, a)'
  <2>1. UNCHANGED <<a_formatter, m_hasFormatter, own, raced>>
    BY <1>3 DEF AddCheck, historyVars, appenderVars
  <2>2. frame'[t].pc = "addSet" /\ a = frame'[t].arg => a_formatter[a] = Null
    BY <1>3, FrameOf
  <2>3. a_formatter[a] = Null => a \in raced \/ ~ m_hasFormatter[a]
    BY <1>o, LoggerAssumption
  <2> QED
    BY <1>o, <2>1, <2>2, <2>3, OthersStay
<1>4. ASSUME Propagate(t), NEW a \in Appenders
      PROVE  Own(a)' /\ Kept(a)' /\ \A s \in Threads : Unseen(s, a)'
  <2>1. UNCHANGED <<m_hasFormatter, own, raced>>
    BY <1>4 DEF Propagate, historyVars
  <2>2. m_hasFormatter[a] => a_formatter'[a] = a_formatter[a]
    BY <1>4 DEF Propagate, Inherits, TypeOK
  <2>3. frame'[t].pc = "propagate"
    BY <1>4, FrameOf
  <2> QED
    BY <1>o, <2>1, <2>2, <2>3, OthersStay
<1>5. ASSUME ~ AddSet(t), ~ AddCheck(t), ~ Propagate(t),
             ~ \E b \in Appenders, g \in Formatters \cup {Null} :
                 AppenderSetFormatter(t, b, g),
             NEW a \in Appenders
      PROVE  Own(a)' /\ Kept(a)' /\ \A s \in Threads : Unseen(s, a)'
  <2>1. UNCHANGED appenderVars
    <3>1. ASSUME NEW l, NEW b,
                 AddPush(t) \/ DelAppender(t, l, b) \/ ClearAppender(t, l)
          PROVE  UNCHANGED appenderVars
      BY <3>1 DEF AddPush, DelAppender, ClearAppender, listUnchanged
    <3> QED
      BY <1>5, <3>1, OnlyThese
  <2>2. raced' = raced
    <3>1. ASSUME NEW l, NEW b, NEW lv, NEW g,
                 \/ LogCall(t, l, lv) \/ SetLevel(t, l, lv) \/ AddBegin(t, l, b)
                 \/ DelAppender(t, l, b) \/ ClearAppender(t, l)
                 \/ SetFormatter(t, l, g)
          PROVE  raced' = raced
      BY <3>1 DEF LogCall, SetLevel, AddBegin, DelAppender, ClearAppender,
         SetFormatter, listUnchanged, historyVars
    <3>2. CASE Continue(t)
      BY <1>5, <3>2 DEF Continue, LogEnter, LogToRoot, LogNothing, RootEnter,
         RootNothing, Write, LogReturn, AddPush, SetFormatterReturn,
         logUnchanged, historyVars
    <3>3. CASE Call(t)
      BY <1>5, <3>1, <3>3 DEF Call
    <3> QED
      BY <3>2, <3>3
  <2>3. frame'[t].pc # "addSet"
    BY <1>5, Arrival
  <2> QED
    BY <1>o, <2>1, <2>2, <2>3, OthersStay DEF appenderVars
<1>6. \A a \in Appenders : Own(a)' /\ Kept(a)' /\ \A s \in Threads : Unseen(s, a)'
  BY <1>1, <1>2, <1>3, <1>4, <1>5
<1>7. ArgInv'
  BY TypeStep
<1> QED
  BY <1>6, <1>7 DEF OwnInv, OwnFormatterKept, ArgInv, AddPcs

-----------------------------------------------------------------------------
(* Formatters: an appender added once follows its logger.                  *)

Joins(s, l, a) == frame[s].pc \in AddPcs /\ frame[s].at = l /\ frame[s].arg = a

(* The appender is in the logger's list, or about to be.                   *)
Belongs(l, a) ==
  a \in Range(m_appenders[l]) \/ \E s \in Threads : Joins(s, l, a)

InSync(l, a) ==
  m_hasFormatter[a] \/ a_formatter[a] = m_formatter[l]
    \/ (a_formatter[a] = Null /\ own[a] = Null)

(* The logger's new formatter has not come to the appender yet.            *)
Coming(l, a) ==
  \E s \in Threads : /\ frame[s].pc = "propagate" /\ frame[s].at = l
                     /\ a \in Range(frame[s].todo)

PlaceInv ==
  /\ \A a \in Appenders, l \in Loggers : Belongs(l, a) => <<l, a>> \in joined
  /\ \A a \in Appenders \ readded, l \in Loggers, k \in Loggers :
       Belongs(l, a) /\ Belongs(k, a) => l = k
  /\ \A t \in Threads :
       frame[t].pc = "propagate" =>
         Range(frame[t].todo) \subseteq Range(m_appenders[frame[t].at])

LEMMA NextBelongs ==
  ASSUME TypeOK, ArgInv, NEW t \in Threads, Continue(t) \/ Call(t),
         NEW l \in Loggers, NEW a \in Appenders, Belongs(l, a)'
  PROVE  Belongs(l, a) \/ AddBegin(t, l, a)
<1>1. CASE a \in Range(m_appenders'[l])
  BY <1>1, ListsAfter DEF Belongs, Joins, AddPush, AddPcs
<1>2. ASSUME NEW s \in Threads, Joins(s, l, a)'
      PROVE  Belongs(l, a) \/ AddBegin(t, l, a)
  <2>1. CASE s # t
    BY <1>2, <2>1, OthersStay DEF Joins, Belongs
  <2>2. CASE s = t /\ (AddCheck(t) \/ AddSet(t))
    <3>1. frame[t].pc \in AddPcs /\ frame'[t].at = frame[t].at
          /\ frame'[t].arg = frame[t].arg
      BY <2>2, FrameOf DEF AddPcs
    <3> QED
      BY <1>2, <2>2, <3>1 DEF Joins, Belongs
  <2>3. ASSUME s = t, NEW k \in Loggers, NEW b \in Appenders, AddBegin(t, k, b)
        PROVE  AddBegin(t, l, a)
    <3>1. frame'[t].at = k /\ frame'[t].arg = b
      BY <2>3, FrameOf
    <3> QED
      BY <1>2, <2>3, <3>1 DEF Joins
  <2>4. frame'[s].pc \in {"addCheck", "addSet", "addPush"}
    BY <1>2 DEF Joins, AddPcs
  <2> QED
    BY <2>1, <2>2, <2>3, <2>4, Arrival
<1> QED
  BY <1>1, <1>2 DEF Belongs

LEMMA HistoryGrows ==
  ASSUME NEW t \in Threads, Continue(t) \/ Call(t)
  PROVE  /\ joined \subseteq joined' /\ readded \subseteq readded'
         /\ emptied \subseteq emptied' /\ added \subseteq added'
         /\ \A l \in Loggers, a \in Appenders :
              AddBegin(t, l, a) => /\ <<l, a>> \in joined' /\ a \in added'
                                   /\ a \in added => a \in readded'
<1>1. ASSUME NEW l, NEW a, AddBegin(t, l, a)
      PROVE  /\ joined \subseteq joined' /\ readded \subseteq readded'
             /\ emptied \subseteq emptied'
             /\ <<l, a>> \in joined' /\ (a \in added => a \in readded')
  BY <1>1 DEF AddBegin
<1>2. CASE Continue(t)
  BY <1>2 DEF Continue, LogEnter, LogToRoot, LogNothing, RootEnter, RootNothing,
     Write, LogReturn, AddCheck, AddSet, AddPush, Propagate, SetFormatterReturn,
     logUnchanged, historyVars, AddBegin, Begin, added
<1>3. ASSUME NEW l, NEW a, NEW lv, NEW g,
             \/ LogCall(t, l, lv) \/ SetLevel(t, l, lv) \/ DelAppender(t, l, a)
             \/ ClearAppender(t, l) \/ SetFormatter(t, l, g)
             \/ AppenderSetFormatter(t, a, g)
      PROVE  joined' = joined /\ readded' = readded /\ emptied \subseteq emptied'
  BY <1>3 DEF LogCall, SetLevel, DelAppender, ClearAppender, SetFormatter,
     AppenderSetFormatter, listUnchanged, historyVars
<1>4. joined \subseteq joined' /\ readded \subseteq readded'
      /\ emptied \subseteq emptied'
  BY <1>1, <1>2, <1>3 DEF Call
<1>5. added \subseteq added'
  BY <1>4 DEF added
<1>6. ASSUME NEW l \in Loggers, NEW a \in Appenders, <<l, a>> \in joined'
      PROVE  a \in added'
  BY <1>6 DEF added
<1> QED
  BY <1>1, <1>4, <1>5, <1>6

(* setFormatter alone changes the formatter of a logger.                   *)
LEMMA LoggerFormatterStays ==
  ASSUME NEW t \in Threads, Continue(t) \/ Call(t),
         ~ \E k \in Loggers, g \in Formatters \cup {Null} : SetFormatter(t, k, g)
  PROVE  m_formatter' = m_formatter
<1>1. CASE Continue(t)
  BY <1>1 DEF Continue, LogEnter, LogToRoot, LogNothing, RootEnter, RootNothing,
     Write, LogReturn, AddCheck, AddSet, AddPush, Propagate, SetFormatterReturn,
     logUnchanged, loggerVars
<1>2. ASSUME NEW k, NEW b, NEW lv, NEW g,
             \/ LogCall(t, k, lv) \/ SetLevel(t, k, lv) \/ AddBegin(t, k, b)
             \/ DelAppender(t, k, b) \/ ClearAppender(t, k)
             \/ AppenderSetFormatter(t, b, g)
      PROVE  m_formatter' = m_formatter
  BY <1>2 DEF LogCall, SetLevel, AddBegin, DelAppender, ClearAppender,
     AppenderSetFormatter, listUnchanged, loggerVars
<1>3. CASE Call(t)
  BY <1>2, <1>3 DEF Call
<1> QED
  BY <1>1, <1>3

LEMMA PlaceStep ==
  ASSUME TypeOK, ArgInv, LockInv, PlaceInv, NEW t \in Threads,
         Continue(t) \/ Call(t)
  PROVE  PlaceInv'
<1>1. ASSUME NEW a \in Appenders, NEW l \in Loggers, Belongs(l, a)'
      PROVE  <<l, a>> \in joined'
  BY <1>1, NextBelongs, HistoryGrows DEF PlaceInv
<1>2. ASSUME NEW a \in Appenders \ readded', NEW l \in Loggers, NEW k \in Loggers,
             Belongs(l, a)', Belongs(k, a)'
      PROVE  l = k
  <2>1. a \notin readded
    BY HistoryGrows
  <2>2. CASE Belongs(l, a) /\ Belongs(k, a)
    BY <2>1, <2>2 DEF PlaceInv
  <2>3. ASSUME NEW j \in Loggers, AddBegin(t, j, a) PROVE l = k
    <3>1. a \notin added
      BY <2>3, HistoryGrows
    <3>2. ~ Belongs(l, a) /\ ~ Belongs(k, a)
      BY <3>1 DEF PlaceInv, added
    <3>3. AddBegin(t, l, a) /\ AddBegin(t, k, a)
      BY <1>2, <3>2, NextBelongs
    <3> QED
      BY <3>3, FrameOf
  <2> QED
    BY <1>2, <2>2, <2>3, NextBelongs
<1>3. ASSUME NEW s \in Threads, frame'[s].pc = "propagate"
      PROVE  Range(frame'[s].todo) \subseteq Range(m_appenders'[frame'[s].at])
  <2>1. CASE s # t
    <3>1. frame'[s] = frame[s] /\ frame[s].at \in Held(s)
      BY <1>3, <2>1, OthersStay DEF Held, TypeOK, Frames
    <3>2. m_appenders'[frame[s].at] = m_appenders[frame[s].at]
      BY <2>1, <3>1, ListKept
    <3> QED
      BY <1>3, <3>1, <3>2 DEF PlaceInv
  <2>2. CASE s = t /\ Propagate(t)
    <3>1. frame[t].pc = "propagate" /\ frame[t].todo # <<>>
          /\ frame'[t].at = frame[t].at /\ frame'[t].todo = Tail(frame[t].todo)
      BY <2>2, FrameOf
    <3>2. frame[t].todo \in Seq(Appenders)
      BY DEF TypeOK, Frames
    <3>3. Range(Tail(frame[t].todo)) \subseteq Range(frame[t].todo)
      BY <3>1, <3>2, TailRange
    <3>4. m_appenders' = m_appenders
      BY <2>2 DEF Propagate, loggerVars
    <3> QED
      BY <2>2, <3>1, <3>3, <3>4 DEF PlaceInv
  <2>3. ASSUME s = t, NEW l \in Loggers, NEW g \in Formatters \cup {Null},
               SetFormatter(t, l, g)
        PROVE  frame'[s].todo = m_appenders'[frame'[s].at]
    <3>1. frame'[t].at = l /\ frame'[t].todo = m_appenders[l]
      BY <2>3, FrameOf
    <3> QED
      BY <2>3, <3>1 DEF SetFormatter
  <2> QED
    BY <1>3, <2>1, <2>2, <2>3, Arrival
<1> QED
  BY <1>1, <1>2, <1>3 DEF PlaceInv

(* An appender without a formatter may be without: the program took it     *)
(* from the appender itself, or from a logger that the appender was given  *)
(* to.                                                                     *)
Excused(a) == own[a] = Null \/ \E k \in emptied : <<k, a>> \in joined

Fine(a) == a_formatter[a] = Null => Excused(a)

FormatterInv ==
  /\ \A l \in Loggers : m_formatter[l] = Null => l \in emptied
  /\ \A l \in Loggers : \A a \in Range(m_appenders[l]) : Fine(a)
  /\ \A t \in Threads : frame[t].pc = "addPush" => Fine(frame[t].arg)

(* An appender that belongs to a logger gets what the logger has.          *)
LEMMA GivenFine ==
  ASSUME TypeOK, FormatterInv, PlaceInv, NEW t \in Threads,
         Continue(t) \/ Call(t),
         NEW l \in Loggers, NEW a \in Appenders, Belongs(l, a),
         a_formatter'[a] = m_formatter[l]
  PROVE  Fine(a)'
<1>1. <<l, a>> \in joined' /\ emptied \subseteq emptied'
  BY HistoryGrows DEF PlaceInv
<1>2. m_formatter[l] = Null => l \in emptied
  BY DEF FormatterInv
<1> QED
  BY <1>1, <1>2 DEF Fine, Excused

LEMMA FineStays ==
  ASSUME TypeOK, ArgInv, FormatterInv, PlaceInv, NEW t \in Threads,
         Continue(t) \/ Call(t), NEW a \in Appenders, Fine(a)
  PROVE  Fine(a)'
<1> DEFINE f == frame[t]
<1>1. joined \subseteq joined' /\ emptied \subseteq emptied'
  BY HistoryGrows
<1>2. ASSUME a_formatter'[a] = a_formatter[a], own'[a] = own[a] PROVE Fine(a)'
  BY <1>1, <1>2 DEF Fine, Excused
<1>3. CASE AddSet(t)
  <2>1. f.at \in Loggers /\ Belongs(f.at, f.arg)
    BY <1>3 DEF AddSet, Belongs, Joins, AddPcs, TypeOK, Frames
  <2>2. CASE a = f.arg
    BY <1>3, <2>1, <2>2, GivenFine DEF AddSet, TypeOK
  <2>3. CASE a # f.arg
    BY <1>2, <1>3, <2>3 DEF AddSet, TypeOK
  <2> QED
    BY <2>2, <2>3
<1>4. CASE Propagate(t)
  <2> DEFINE h == Head(f.todo)
  <2>1. f.at \in Loggers /\ f.todo \in Seq(Appenders) /\ f.todo # <<>>
    BY <1>4 DEF Propagate, TypeOK, Frames
  <2>2. h \in Range(f.todo)
    BY <2>1 DEF Range
  <2>3. Belongs(f.at, h)
    BY <1>4, <2>2 DEF Propagate, PlaceInv, Belongs
  <2>4. own' = own /\ a_formatter' = [a_formatter EXCEPT ![h] =
                         IF Inherits(h) THEN m_formatter[f.at] ELSE @]
    BY <1>4 DEF Propagate
  <2>5. CASE a = h /\ Inherits(h)
    <3>1. a_formatter'[a] = m_formatter[f.at]
      BY <2>4, <2>5 DEF TypeOK
    <3> QED
      BY <2>1, <2>3, <2>5, <3>1, GivenFine
  <2>6. CASE ~ (a = h /\ Inherits(h))
    <3>1. a_formatter'[a] = a_formatter[a]
      BY <2>4, <2>6 DEF TypeOK
    <3> QED
      BY <1>2, <2>4, <3>1
  <2> QED
    BY <2>5, <2>6
<1>5. ASSUME NEW b \in Appenders, NEW g \in Formatters \cup {Null},
             AppenderSetFormatter(t, b, g)
      PROVE  Fine(a)'
  <2>1. CASE a = b
    BY <1>5, <2>1 DEF AppenderSetFormatter, TypeOK, Fine, Excused
  <2>2. CASE a # b
    BY <1>2, <1>5, <2>2 DEF AppenderSetFormatter, TypeOK
  <2> QED
    BY <2>1, <2>2
<1>6. ASSUME NEW l, NEW b,
             AddPush(t) \/ DelAppender(t, l, b) \/ ClearAppender(t, l)
      PROVE  Fine(a)'
  BY <1>2, <1>6 DEF AddPush, DelAppender, ClearAppender, listUnchanged,
     appenderVars
<1>7. CASE UNCHANGED <<m_appenders, appenderVars>>
  BY <1>2, <1>7 DEF appenderVars
<1> QED
  BY <1>3, <1>4, <1>5, <1>6, <1>7, OnlyThese

LEMMA FormatterStep ==
  ASSUME TypeOK, ArgInv, FormatterInv, PlaceInv, NEW t \in Threads,
         Continue(t) \/ Call(t)
  PROVE  FormatterInv'
<1> DEFINE f == frame[t]
<1>1. ASSUME NEW l \in Loggers, m_formatter'[l] = Null PROVE l \in emptied'
  <2>1. CASE m_formatter' = m_formatter
    BY <1>1, <2>1, HistoryGrows DEF FormatterInv
  <2>2. ASSUME NEW k \in Loggers, NEW g \in Formatters \cup {Null},
               SetFormatter(t, k, g)
        PROVE  l \in emptied'
    <3>1. m_formatter' = [m_formatter EXCEPT ![k] = g] /\ emptied \subseteq emptied'
          /\ (g = Null => k \in emptied')
      BY <2>2 DEF SetFormatter
    <3> QED
      BY <1>1, <3>1 DEF FormatterInv, TypeOK
  <2> QED
    BY <2>1, <2>2, LoggerFormatterStays
<1>2. ASSUME NEW l \in Loggers, NEW a \in Range(m_appenders'[l]) PROVE Fine(a)'
  <2>1. a \in Appenders
    BY ListsAfter
  <2>2. CASE a \in Range(m_appenders[l])
    BY <2>1, <2>2, FineStays DEF FormatterInv
  <2>3. CASE AddPush(t) /\ a = f.arg
    <3>1. f.pc = "addPush"
      BY <2>3 DEF AddPush
    <3>2. Fine(a)
      BY <2>3, <3>1 DEF FormatterInv
    <3> QED
      BY <2>1, <3>2, FineStays
  <2> QED
    BY <2>2, <2>3, ListsAfter
<1>3. ASSUME NEW s \in Threads, frame'[s].pc = "addPush",
             NEW b, b = frame'[s].arg
      PROVE  Fine(b)'
  <2>1. CASE s # t
    <3>1. frame'[s] = frame[s] /\ b \in Appenders
      BY <1>3, <2>1, OthersStay DEF ArgInv, AddPcs
    <3>2. Fine(b)
      BY <1>3, <3>1 DEF FormatterInv
    <3> QED
      BY <3>1, <3>2, FineStays
  <2>2. CASE AddCheck(t) /\ s = t
    <3>1. b = f.arg /\ a_formatter[f.arg] # Null
      BY <1>3, <2>2, FrameOf
    <3>2. a_formatter' = a_formatter
      BY <2>2 DEF AddCheck, appenderVars
    <3> QED
      BY <3>1, <3>2 DEF Fine
  <2>3. CASE AddSet(t) /\ s = t
    <3>1. f.arg \in Appenders /\ b = f.arg /\ f.at \in Loggers
      BY <1>3, <2>3, FrameOf DEF ArgInv, AddPcs, TypeOK, Frames
    <3>2. Belongs(f.at, f.arg)
      BY <2>3 DEF AddSet, Belongs, Joins, AddPcs
    <3>3. a_formatter'[b] = m_formatter[f.at]
      BY <2>3, <3>1 DEF AddSet, TypeOK
    <3> QED
      BY <3>1, <3>2, <3>3, GivenFine
  <2> QED
    BY <1>3, <2>1, <2>2, <2>3, Arrival
<1> QED
  BY <1>1, <1>2, <1>3 DEF FormatterInv

(* An appender without a formatter of its own has none while it is new to  *)
(* every logger, and its logger's once it is in a list.                    *)
Fresh(a) == a \notin added => m_hasFormatter[a] \/ a_formatter[a] = Null

Seen(s, l, a) ==
  frame[s].pc = "addCheck" /\ Joins(s, l, a) /\ a \notin readded =>
    m_hasFormatter[a] \/ a_formatter[a] = Null

Pushed(s, l, a) ==
  frame[s].pc = "addPush" /\ Joins(s, l, a) /\ a \notin readded => InSync(l, a)

Listed(l, a) ==
  a \in Range(m_appenders[l]) /\ a \notin readded => InSync(l, a) \/ Coming(l, a)

Follows(l, a) ==
  Fresh(a) /\ Listed(l, a) /\ \A s \in Threads : Seen(s, l, a) /\ Pushed(s, l, a)

SyncInv == \A l \in Loggers, a \in Appenders : Follows(l, a)

LEMMA Departure ==
  ASSUME NEW t \in Threads, Continue(t) \/ Call(t), frame[t].pc = "propagate"
  PROVE  Propagate(t) \/ SetFormatterReturn(t)
<1>1. CASE Continue(t)
  BY <1>1 DEF Continue, LogEnter, LogToRoot, LogNothing, RootEnter, RootNothing,
     Write, LogReturn, AddCheck, AddSet, AddPush
<1>2. CASE Call(t)
  BY <1>2 DEF Call, LogCall, SetLevel, AddBegin, DelAppender, ClearAppender,
     SetFormatter, AppenderSetFormatter, Begin
<1> QED
  BY <1>1, <1>2

(* Nobody else adds an appender that belongs to a logger whose lock the    *)
(* thread holds, unless it is added more than once.                        *)
LEMMA NobodyElseJoins ==
  ASSUME LockInv, PlaceInv, NEW t \in Threads, NEW s \in Threads, s # t,
         NEW k \in Loggers, k \in Held(t), NEW l \in Loggers,
         NEW a \in Appenders \ readded, Belongs(k, a), Joins(s, l, a)
  PROVE  FALSE
<1>1. l = k
  BY DEF PlaceInv, Belongs
<1>2. l \in Held(s)
  BY DEF Joins, Held
<1> QED
  BY <1>1, <1>2 DEF LockInv

LEMMA OwnGiven ==
  ASSUME TypeOK, SyncInv, NEW t \in Threads, Continue(t) \/ Call(t),
         NEW b \in Appenders, NEW g \in Formatters \cup {Null},
         AppenderSetFormatter(t, b, g), NEW l \in Loggers, NEW a \in Appenders
  PROVE  Follows(l, a)'
<1>1. UNCHANGED <<m_mutex, loggerVars, frame, joined, readded>>
      /\ a_formatter' = [a_formatter EXCEPT ![b] = g]
      /\ m_hasFormatter' = [m_hasFormatter EXCEPT ![b] = g # Null]
      /\ own' = [own EXCEPT ![b] = g]
  BY DEF AppenderSetFormatter
<1>2. CASE a = b
  <2>1. m_hasFormatter'[a] \/ (a_formatter'[a] = Null /\ own'[a] = Null)
    BY <1>1, <1>2 DEF TypeOK
  <2> QED
    BY <2>1 DEF Follows, Fresh, Seen, Pushed, Listed, InSync
<1>3. CASE a # b
  <2>1. m_hasFormatter'[a] = m_hasFormatter[a]
        /\ a_formatter'[a] = a_formatter[a] /\ own'[a] = own[a]
    BY <1>1, <1>3 DEF TypeOK
  <2>2. Follows(l, a)
    BY DEF SyncInv
  <2> QED
    BY <1>1, <2>1, <2>2 DEF Follows, Fresh, Seen, Pushed, Listed, InSync, Coming,
       Joins, loggerVars, added
<1> QED
  BY <1>2, <1>3

LEMMA AddSetFollows ==
  ASSUME TypeOK, ArgInv, LockInv, PlaceInv, SyncInv, NEW t \in Threads, AddSet(t),
         NEW l \in Loggers, NEW a \in Appenders
  PROVE  Follows(l, a)'
<1> DEFINE f == frame[t]
<1>0. Continue(t)
  BY DEF Continue
<1>1. /\ f.pc = "addSet" /\ frame'[t].pc = "addPush" /\ frame'[t].at = f.at
      /\ frame'[t].arg = f.arg /\ f.at \in Loggers /\ f.arg \in Appenders
  BY FrameOf DEF TypeOK, Frames, ArgInv, AddPcs
<1>2. /\ UNCHANGED <<m_mutex, loggerVars, m_hasFormatter, own, joined, readded>>
      /\ a_formatter' = [a_formatter EXCEPT ![f.arg] = m_formatter[f.at]]
  BY DEF AddSet, historyVars
<1>3. \A s \in Threads : s # t => frame'[s] = frame[s]
  BY <1>0, OthersStay
<1>4. Follows(l, a)
  BY DEF SyncInv
<1>5. Coming(l, a) => Coming(l, a)'
  BY <1>1, <1>3 DEF Coming
<1>6. CASE a # f.arg
  <2>1. a_formatter'[a] = a_formatter[a]
    BY <1>2, <1>6 DEF TypeOK
  <2>2. Fresh(a)' /\ Listed(l, a)'
    BY <1>2, <1>4, <1>5, <2>1 DEF Follows, Fresh, Listed, InSync, loggerVars, added
  <2>3. ASSUME NEW s \in Threads PROVE Seen(s, l, a)' /\ Pushed(s, l, a)'
    <3>1. CASE s = t
      BY <1>1, <1>6, <3>1 DEF Seen, Pushed, Joins
    <3>2. CASE s # t
      BY <1>2, <1>3, <1>4, <2>1, <3>2
         DEF Follows, Seen, Pushed, Joins, InSync, loggerVars
    <3> QED
      BY <3>1, <3>2
  <2> QED
    BY <2>2, <2>3 DEF Follows
<1>7. CASE a = f.arg
  <2>1. Belongs(f.at, a) /\ f.at \in Held(t) /\ a \in added
    BY <1>1, <1>7 DEF Belongs, Joins, Held, AddPcs, PlaceInv, added
  <2>2. InSync(f.at, a)'
    BY <1>1, <1>2, <1>7 DEF InSync, TypeOK, loggerVars
  <2>3. Fresh(a)'
    BY <1>2, <2>1 DEF Fresh, added
  <2>4. Listed(l, a)'
    <3>1. CASE a \in Range(m_appenders[l]) /\ a \notin readded
      <4>1. l = f.at
        BY <1>1, <2>1, <3>1 DEF PlaceInv, Belongs
      <4> QED
        BY <1>1, <2>2, <4>1 DEF Listed
    <3> QED
      BY <1>2, <3>1 DEF Listed, loggerVars
  <2>5. ASSUME NEW s \in Threads PROVE Seen(s, l, a)' /\ Pushed(s, l, a)'
    <3>1. CASE s = t
      BY <1>1, <2>2, <3>1 DEF Seen, Pushed, Joins
    <3>2. CASE s # t
      <4>1. a \in readded \/ ~ Joins(s, l, a)
        BY <1>1, <2>1, <3>2, NobodyElseJoins
      <4> QED
        BY <1>2, <1>3, <3>2, <4>1 DEF Seen, Pushed, Joins
    <3> QED
      BY <3>1, <3>2
  <2> QED
    BY <2>3, <2>4, <2>5 DEF Follows
<1> QED
  BY <1>6, <1>7

LEMMA PropagateFollows ==
  ASSUME TypeOK, ArgInv, LockInv, PlaceInv, SyncInv, NEW t \in Threads,
         Propagate(t), NEW l \in Loggers, NEW a \in Appenders
  PROVE  Follows(l, a)'
<1> DEFINE f == frame[t]
<1>0. Continue(t)
  BY DEF Continue
<1>1. /\ f.pc = "propagate" /\ f.todo # <<>> /\ frame'[t].pc = "propagate"
      /\ frame'[t].at = f.at /\ frame'[t].todo = Tail(f.todo)
      /\ f.at \in Loggers /\ f.todo \in Seq(Appenders)
  <2>1. f \in Frames
    BY DEF TypeOK
  <2>2. f.at \in Loggers /\ f.todo \in Seq(Appenders)
    BY <2>1 DEF Frames
  <2> QED
    BY <2>2, FrameOf
<1> DEFINE h == Head(f.todo)
<1>2. h \in Appenders /\ Range(f.todo) = {h} \cup Range(Tail(f.todo))
  BY <1>1, TailRange
<1>3. /\ UNCHANGED <<m_mutex, loggerVars, m_hasFormatter, own, joined, readded>>
      /\ a_formatter' = [a_formatter EXCEPT ![h] =
           IF ~ m_hasFormatter[h] THEN m_formatter[f.at] ELSE @]
  BY DEF Propagate, historyVars, Inherits
<1>4. \A s \in Threads : s # t => frame'[s] = frame[s]
  BY <1>0, OthersStay
<1>5. Follows(l, a)
  BY DEF SyncInv
<1>6. CASE a # h \/ m_hasFormatter[h]
  <2>1. a_formatter'[a] = a_formatter[a]
    BY <1>3, <1>6 DEF TypeOK
  <2>2. m_hasFormatter[a] \/ (Coming(l, a) => Coming(l, a)')
    BY <1>1, <1>2, <1>4, <1>6 DEF Coming
  <2>3. Fresh(a)' /\ Listed(l, a)'
    BY <1>3, <1>5, <2>1, <2>2 DEF Follows, Fresh, Listed, InSync, loggerVars, added
  <2>4. ASSUME NEW s \in Threads PROVE Seen(s, l, a)' /\ Pushed(s, l, a)'
    <3>1. CASE s = t
      BY <1>1, <3>1 DEF Seen, Pushed
    <3>2. CASE s # t
      BY <1>3, <1>4, <1>5, <2>1, <3>2
         DEF Follows, Seen, Pushed, Joins, InSync, loggerVars
    <3> QED
      BY <3>1, <3>2
  <2> QED
    BY <2>3, <2>4 DEF Follows
<1>7. CASE a = h /\ ~ m_hasFormatter[h]
  <2>1. Belongs(f.at, a) /\ f.at \in Held(t) /\ a \in added
    BY <1>1, <1>2, <1>7 DEF Belongs, Held, PlaceInv, added
  <2>2. a_formatter'[a] = m_formatter[f.at] /\ UNCHANGED m_formatter
    BY <1>2, <1>3, <1>7 DEF TypeOK, loggerVars
  <2>3. Fresh(a)'
    BY <1>3, <2>1 DEF Fresh, added
  <2>4. Listed(l, a)'
    <3>1. CASE a \in Range(m_appenders[l]) /\ a \notin readded
      <4>1. l = f.at
        BY <1>1, <2>1, <3>1 DEF PlaceInv, Belongs
      <4> QED
        BY <2>2, <4>1 DEF Listed, InSync
    <3> QED
      BY <1>3, <3>1 DEF Listed, loggerVars
  <2>5. ASSUME NEW s \in Threads PROVE Seen(s, l, a)' /\ Pushed(s, l, a)'
    <3>1. CASE s = t
      BY <1>1, <3>1 DEF Seen, Pushed
    <3>2. CASE s # t
      <4>1. a \in readded \/ ~ Joins(s, l, a)
        BY <1>1, <2>1, <3>2, NobodyElseJoins
      <4> QED
        BY <1>3, <1>4, <3>2, <4>1 DEF Seen, Pushed, Joins
    <3> QED
      BY <3>1, <3>2
  <2> QED
    BY <2>3, <2>4, <2>5 DEF Follows
<1> QED
  BY <1>6, <1>7

LEMMA SetFormatterFollows ==
  ASSUME TypeOK, ArgInv, LockInv, SyncInv, NEW t \in Threads,
         Continue(t) \/ Call(t),
         NEW k \in Loggers, NEW g \in Formatters \cup {Null}, SetFormatter(t, k, g),
         NEW l \in Loggers, NEW a \in Appenders
  PROVE  Follows(l, a)'
<1>1. /\ frame[t].pc = "idle" /\ frame'[t].pc = "propagate" /\ frame'[t].at = k
      /\ frame'[t].todo = m_appenders[k]
  BY FrameOf
<1>2. /\ UNCHANGED <<m_appenders, appenderVars, joined, readded>>
      /\ m_formatter' = [m_formatter EXCEPT ![k] = g] /\ m_mutex[k] = Free
  BY DEF SetFormatter, historyVars, Take
<1>3. \A s \in Threads : s # t => frame'[s] = frame[s]
  BY OthersStay
<1>4. Follows(l, a)
  BY DEF SyncInv
<1>5. Fresh(a)'
  BY <1>2, <1>4 DEF Follows, Fresh, appenderVars, added
<1>6. CASE l = k
  <2>1. Listed(l, a)'
    BY <1>1, <1>2, <1>6 DEF Listed, Coming
  <2>2. ASSUME NEW s \in Threads PROVE Seen(s, l, a)' /\ Pushed(s, l, a)'
    <3>1. CASE s = t
      BY <1>1, <3>1 DEF Seen, Pushed
    <3>2. CASE s # t
      <4>1. l \notin Held(s)
        BY <1>2, <1>6, LoggerAssumption DEF LockInv
      <4>2. ~ Joins(s, l, a)
        BY <4>1 DEF Joins, Held
      <4> QED
        BY <1>3, <3>2, <4>2 DEF Seen, Pushed, Joins
    <3> QED
      BY <3>1, <3>2
  <2> QED
    BY <1>5, <2>1, <2>2 DEF Follows
<1>7. CASE l # k
  <2>1. m_formatter'[l] = m_formatter[l]
    BY <1>2, <1>7 DEF TypeOK
  <2>2. Coming(l, a) => Coming(l, a)'
    BY <1>1, <1>3 DEF Coming
  <2>3. Listed(l, a)'
    BY <1>2, <1>4, <2>1, <2>2 DEF Follows, Listed, InSync, appenderVars
  <2>4. ASSUME NEW s \in Threads PROVE Seen(s, l, a)' /\ Pushed(s, l, a)'
    <3>1. CASE s = t
      BY <1>1, <3>1 DEF Seen, Pushed
    <3>2. CASE s # t
      BY <1>2, <1>3, <1>4, <2>1, <3>2
         DEF Follows, Seen, Pushed, Joins, InSync, appenderVars
    <3> QED
      BY <3>1, <3>2
  <2> QED
    BY <1>5, <2>3, <2>4 DEF Follows
<1> QED
  BY <1>6, <1>7

LEMMA OtherFollows ==
  ASSUME TypeOK, ArgInv, PlaceInv, SyncInv, NEW t \in Threads,
         Continue(t) \/ Call(t), UNCHANGED <<appenderVars, m_formatter>>,
         ~ AddSet(t), ~ Propagate(t),
         ~ \E k \in Loggers, g \in Formatters \cup {Null} : SetFormatter(t, k, g),
         NEW l \in Loggers, NEW a \in Appenders
  PROVE  Follows(l, a)'
<1> DEFINE f == frame[t]
<1>1. \A s \in Threads : s # t => frame'[s] = frame[s]
  BY OthersStay
<1>2. Follows(l, a) /\ added \subseteq added' /\ readded \subseteq readded'
  BY HistoryGrows DEF SyncInv
<1>3. Fresh(a)' /\ (InSync(l, a) => InSync(l, a)')
  BY <1>2 DEF Follows, Fresh, InSync, appenderVars
<1>4. Coming(l, a) => Coming(l, a)'
  <2>1. ASSUME NEW s \in Threads, frame[s].pc = "propagate",
               a \in Range(frame[s].todo)
        PROVE  s # t
    <3>1. SUFFICES ASSUME s = t PROVE FALSE
      OBVIOUS
    <3>2. SetFormatterReturn(t)
      BY <2>1, <3>1, Departure
    <3>3. Range(<<>>) = {}
      BY DEF Range
    <3> QED
      BY <2>1, <3>1, <3>2, <3>3 DEF SetFormatterReturn
  <2> QED
    BY <1>1, <2>1 DEF Coming
<1>5. Listed(l, a)'
  <2>1. CASE a \in Range(m_appenders[l])
    BY <1>2, <1>3, <1>4, <2>1 DEF Follows, Listed
  <2>2. CASE AddPush(t) /\ l = f.at /\ a = f.arg
    <3>1. Joins(t, l, a) /\ f.pc = "addPush"
      BY <2>2 DEF AddPush, Joins, AddPcs
    <3> QED
      BY <1>2, <1>3, <3>1 DEF Follows, Pushed, Listed
  <2> QED
    BY <2>1, <2>2, ListsAfter DEF Listed
<1>6. ASSUME NEW s \in Threads PROVE Seen(s, l, a)' /\ Pushed(s, l, a)'
  <2>1. CASE s # t
    BY <1>1, <1>2, <1>3, <2>1 DEF Follows, Seen, Pushed, Joins, appenderVars
  <2>2. CASE s = t
    <3>1. ASSUME NEW k \in Loggers, NEW b \in Appenders, AddBegin(t, k, b)
          PROVE  Seen(s, l, a)' /\ Pushed(s, l, a)'
      <4>1. frame'[t].pc = "addCheck" /\ frame'[t].arg = b
            /\ b \in added' /\ (b \in added => b \in readded')
        <5>1. frame'[t].pc = "addCheck" /\ frame'[t].arg = b
          BY <3>1, FrameOf
        <5>2. b \in added' /\ (b \in added => b \in readded')
          BY <3>1, HistoryGrows
        <5> QED
          BY <5>1, <5>2
      <4>2. CASE a = b
        BY <1>2, <2>2, <4>1, <4>2 DEF Follows, Fresh, Seen, Pushed, appenderVars
      <4>3. CASE a # b
        BY <2>2, <4>1, <4>3 DEF Seen, Pushed, Joins
      <4> QED
        BY <4>2, <4>3
    <3>2. CASE AddCheck(t)
      <4>1. /\ f.pc = "addCheck" /\ frame'[t].at = f.at /\ frame'[t].arg = f.arg
            /\ frame'[t].pc = IF a_formatter[f.arg] = Null THEN "addSet"
                              ELSE "addPush"
        BY <3>2, FrameOf
      <4>2. Seen(s, l, a)'
        BY <2>2, <4>1 DEF Seen
      <4>3. ASSUME frame'[t].pc = "addPush", frame'[t].at = l, frame'[t].arg = a,
                   a \notin readded
            PROVE  InSync(l, a)
        <5>1. a_formatter[a] # Null /\ Joins(t, l, a)
          BY <4>1, <4>3 DEF Joins, AddPcs
        <5> QED
          BY <1>2, <4>1, <4>3, <5>1 DEF Follows, Seen, InSync
      <4> QED
        BY <1>2, <1>3, <2>2, <4>2, <4>3 DEF Pushed, Joins
    <3>3. CASE frame'[t].pc \notin {"addCheck", "addPush"}
      BY <2>2, <3>3 DEF Seen, Pushed
    <3> QED
      BY <3>1, <3>2, <3>3, Arrival
  <2> QED
    BY <2>1, <2>2
<1> QED
  BY <1>3, <1>5, <1>6 DEF Follows

LEMMA SyncStep ==
  ASSUME TypeOK, ArgInv, LockInv, PlaceInv, SyncInv, NEW t \in Threads,
         Continue(t) \/ Call(t)
  PROVE  SyncInv'
<1> SUFFICES ASSUME NEW l \in Loggers, NEW a \in Appenders PROVE Follows(l, a)'
  BY DEF SyncInv
<1>1. CASE AddSet(t)
  BY <1>1, AddSetFollows
<1>2. CASE Propagate(t)
  BY <1>2, PropagateFollows
<1>3. CASE \E b \in Appenders, g \in Formatters \cup {Null} :
             AppenderSetFormatter(t, b, g)
  BY <1>3, OwnGiven
<1>4. CASE \E k \in Loggers, g \in Formatters \cup {Null} : SetFormatter(t, k, g)
  BY <1>4, SetFormatterFollows
<1>5. CASE /\ ~ AddSet(t) /\ ~ Propagate(t)
           /\ ~ \E b \in Appenders, g \in Formatters \cup {Null} :
                  AppenderSetFormatter(t, b, g)
           /\ ~ \E k \in Loggers, g \in Formatters \cup {Null} : SetFormatter(t, k, g)
  <2>1. UNCHANGED appenderVars
    <3>1. ASSUME NEW k, NEW b,
                 AddPush(t) \/ DelAppender(t, k, b) \/ ClearAppender(t, k)
          PROVE  UNCHANGED appenderVars
      BY <3>1 DEF AddPush, DelAppender, ClearAppender, listUnchanged
    <3> QED
      BY <1>5, <3>1, OnlyThese
  <2>2. m_formatter' = m_formatter
    BY <1>5, LoggerFormatterStays
  <2> QED
    BY <1>5, <2>1, <2>2, OtherFollows
<1> QED
  BY <1>1, <1>2, <1>3, <1>4, <1>5

-----------------------------------------------------------------------------
(* The inductive invariant and what follows from it.                       *)

IInv ==
  /\ TypeOK /\ ArgInv /\ LockInv
  /\ LogInv
  /\ FormatterInv /\ OwnInv
  /\ PlaceInv /\ SyncInv

LEMMA InitIInv == Init => IInv
<1> SUFFICES ASSUME Init PROVE IInv
  OBVIOUS
<1> USE DEF Init
<1>1. \A t \in Threads : frame[t] = Idle
  OBVIOUS
<1>2. Idle \in Frames
  BY LoggerAssumption DEF Idle, Frames, Levels
<1>3. TypeOK
  <2>1. FALSE \in BOOLEAN /\ <<>> \in Seq(Appenders) /\ 1 \in Levels
        /\ 0 \in 0 .. MaxOps
    BY LoggerAssumption DEF Levels
  <2> QED
    BY <1>2, <2>1, LoggerAssumption DEF TypeOK
<1>4. ArgInv /\ LogInv
  BY <1>1 DEF ArgInv, LogInv, Idle, AddPcs
<1>5. LockInv
  BY <1>1, LoggerAssumption DEF LockInv, Held, Idle, AddPcs
<1>6. \A l \in Loggers : Range(m_appenders[l]) = {}
  BY DEF Range
<1>7. FormatterInv /\ OwnInv
  BY <1>1, <1>6, LoggerAssumption
     DEF FormatterInv, Fine, Excused, OwnInv, OwnFormatterKept, Idle
<1>8. \A l, a : \A s \in Threads : ~ Joins(s, l, a)
  BY <1>1 DEF Joins, Idle, AddPcs
<1>9. PlaceInv
  BY <1>1, <1>6, <1>8 DEF PlaceInv, Belongs, Idle
<1>10. SyncInv
  BY <1>1, <1>6, <1>8 DEF SyncInv, Follows, Fresh, Seen, Pushed, Listed
<1> QED
  BY <1>3, <1>4, <1>5, <1>7, <1>9, <1>10 DEF IInv

LEMMA NextIInv == IInv /\ [Next]_vars => IInv'
<1>1. ASSUME IInv, NEW t \in Threads, Continue(t) \/ Call(t) PROVE IInv'
  BY <1>1, TypeStep, LockStep, LogStep, FormatterStep, OwnStep, PlaceStep,
     SyncStep DEF IInv
<1>2. ASSUME IInv, UNCHANGED vars PROVE IInv'
  <2>1. TypeOK' /\ ArgInv' /\ LockInv' /\ LogInv'
    BY <1>2 DEF IInv, vars, loggerVars, appenderVars, historyVars, TypeOK, ArgInv,
       LockInv, LogInv, Held, added
  <2>2. FormatterInv' /\ OwnInv'
    BY <1>2 DEF IInv, vars, loggerVars, appenderVars, historyVars, FormatterInv,
       Fine, Excused, OwnInv, OwnFormatterKept
  <2>3. PlaceInv'
    BY <1>2 DEF IInv, vars, loggerVars, appenderVars, historyVars, PlaceInv,
       Belongs, Joins
  <2>4. SyncInv'
    BY <1>2 DEF IInv, vars, loggerVars, appenderVars, historyVars, SyncInv,
       Follows, Fresh, Seen, Pushed, Listed, Joins, InSync, Coming, added
  <2> QED
    BY <2>1, <2>2, <2>3, <2>4 DEF IInv
<1> QED
  BY <1>1, <1>2 DEF Next

LEMMA Inductive == Spec => []IInv
BY InitIInv, NextIInv, PTL DEF Spec

(* Every variable keeps its type (log.cc:252-398).                         *)
THEOREM TypeCorrect == Spec => []TypeOK
BY Inductive, PTL DEF IInv

(* A message a logger accepts reaches every appender of the list exactly   *)
(* once and in order, for any number of threads that add, remove and clear *)
(* meanwhile (log.cc:266-274).                                             *)
THEOREM Delivered == Spec => DeliveredInFull
<1> DEFINE A == \A t \in Threads :
                  frame[t].pc = "write" /\ frame'[t].pc = "idle" =>
                    /\ frame[t].wrote = m_appenders[frame[t].outlet]
                    /\ frame[t].outlet = frame[t].at
                         \/ m_appenders[frame[t].at] = <<>>
<1>1. IInv /\ [Next]_vars => A
  <2> SUFFICES ASSUME IInv, [Next]_vars, NEW t \in Threads,
                      frame[t].pc = "write", frame'[t].pc = "idle"
               PROVE  /\ frame[t].wrote = m_appenders[frame[t].outlet]
                      /\ frame[t].outlet = frame[t].at
                           \/ m_appenders[frame[t].at] = <<>>
    OBVIOUS
  <2>1. PICK s \in Threads : Continue(s) \/ Call(s)
    BY DEF Next, vars
  <2>2. s = t
    BY <2>1, OthersStay DEF IInv
  <2>3. ~ Write(t)
    BY FrameOf DEF IInv
  <2>4. LogReturn(t)
    <3>1. CASE Continue(t)
      BY <2>3, <3>1 DEF Continue, LogEnter, LogToRoot, LogNothing, RootEnter,
         RootNothing, AddCheck, AddSet, AddPush, Propagate, SetFormatterReturn
    <3>2. CASE Call(t)
      BY <3>2 DEF Call, LogCall, SetLevel, AddBegin, DelAppender, ClearAppender,
         SetFormatter, AppenderSetFormatter, Begin
    <3> QED
      BY <2>1, <2>2, <3>1, <3>2
  <2>5. frame[t].todo = <<>> /\ frame[t].wrote \in Seq(Appenders)
    BY <2>4 DEF LogReturn, IInv, TypeOK, Frames
  <2>6. frame[t].wrote \o frame[t].todo = frame[t].wrote
    BY <2>5, ConcatEmptySeq
  <2> QED
    BY <2>6 DEF IInv, LogInv
<1> QED
  BY Inductive, <1>1, PTL DEF Spec, DeliveredInFull

(* An appender in a list has a formatter, unless the program took it from  *)
(* the appender or from a logger the appender was added to (log.cc:285-290,*)
(* 358-363, 413, 451).                                                     *)
THEOREM HasFormatter == Spec => []AppenderHasFormatter
<1>1. IInv => AppenderHasFormatter
  BY DEF IInv, FormatterInv, Fine, Excused, AppenderHasFormatter, Range
<1> QED
  BY Inductive, <1>1, PTL

(* No logger replaces the formatter an appender was given for itself,      *)
(* unless it was given during addAppender (log.cc:285-290, 358-362).       *)
THEOREM OwnKept == Spec => []OwnFormatterKept
<1>1. IInv => OwnFormatterKept
  BY DEF IInv, OwnInv
<1> QED
  BY Inductive, <1>1, PTL

(* An appender added once and without a formatter of its own formats as    *)
(* its logger does, whenever nobody holds the logger's lock                *)
(* (log.cc:280-291, 355-364).                                              *)
THEOREM Inherited == Spec => []InheritedInSync
<1>1. IInv => InheritedInSync
  <2> SUFFICES ASSUME IInv, NEW l \in Loggers, NEW i \in DOMAIN m_appenders[l],
                      NEW a, a = m_appenders[l][i], m_mutex[l] = Free,
                      ~ m_hasFormatter[a], a \notin readded
               PROVE  \/ a_formatter[a] = m_formatter[l]
                      \/ a_formatter[a] = Null /\ own[a] = Null
    BY DEF InheritedInSync
  <2>1. a \in Range(m_appenders[l]) /\ a \in Appenders
    BY RangeOfSeq DEF Range, IInv, TypeOK
  <2>2. InSync(l, a) \/ Coming(l, a)
    BY <2>1 DEF IInv, SyncInv, Follows, Listed
  <2>3. ~ Coming(l, a)
    <3>1. SUFFICES ASSUME NEW s \in Threads, frame[s].pc = "propagate",
                          frame[s].at = l
                   PROVE  FALSE
      BY DEF Coming
    <3>2. m_mutex[l] = s
      BY <3>1 DEF IInv, LockInv, Held
    <3> QED
      BY <3>2, LoggerAssumption
  <2> QED
    BY <2>2, <2>3 DEF InSync
<1> QED
  BY Inductive, <1>1, PTL
=============================================================================
