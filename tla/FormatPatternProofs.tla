-------------------------- MODULE FormatPatternProofs --------------------------
(***************************************************************************)
(* LogFormatter::init, for patterns of any length: its positions, what it  *)
(* makes of an accepted pattern, and which patterns it accepts.            *)
(***************************************************************************)
EXTENDS FormatPattern, TLAPS

(* Where the two loops are in each other.                                  *)
Positions ==
  /\ Size \in Nat
  /\ pc \in {"name", "push"} => i + 1 <= Size
  /\ pc = "push" /\ fmt_status = 0 => i + 1 <= n

IInv == TypeOK /\ Positions /\ SubstrInRange

LEMMA InvInit == Init => IInv
<1> SUFFICES ASSUME Init PROVE IInv
  OBVIOUS
<1>1. Size \in Nat
  <2>1. m_pattern \in Seq({m_pattern[k] : k \in DOMAIN m_pattern})
    BY FormatPatternAssumption DEF Init
  <2> QED
    BY <2>1 DEF Size
<1>2. pc = "scan" /\ i = 0 /\ n = 0 /\ fmt_status = 0 /\ fmt_begin = 0
      /\ m_error = FALSE
  BY DEF Init
<1>3. TypeOK
  <2>1. m_error \in BOOLEAN
    BY <1>2, Zenon
  <2>2. i \in 0 .. Size /\ n \in 0 .. Size /\ fmt_begin \in 0 .. Size
    BY <1>1, <1>2
  <2> QED
    BY <1>2, <2>1, <2>2 DEF TypeOK
<1>4. Positions
  BY <1>1, <1>2 DEF Positions
<1>5. SubstrInRange
  BY <1>2 DEF SubstrInRange
<1> QED
  BY <1>3, <1>4, <1>5 DEF IInv

LEMMA InvStep == IInv /\ [Next]_vars => IInv'
<1> SUFFICES ASSUME IInv, [Next]_vars PROVE IInv'
  OBVIOUS
<1> DEFINE L == Size
<1>1. m_pattern' = m_pattern /\ L \in Nat /\ L' = L
  <2>1. m_pattern' = m_pattern
    BY DEF Next, vars, Literal, Doubled, Collect, Percent, NameEnds,
           FormatBegins, FormatEnds, NextCharacter, PatternEnds, nameUnchanged,
           Push, PushError, Finish, pushUnchanged
  <2> QED
    BY <2>1 DEF IInv, Positions, Size
<1> USE <1>1 DEF IInv, TypeOK, Positions, SubstrInRange
<1>2. CASE Literal \/ Doubled
  BY <1>2 DEF Literal, Doubled, Collect
<1>3. CASE Percent
  BY <1>3 DEF Percent
<1>4. CASE NameEnds
  BY <1>4 DEF NameEnds, InName, nameUnchanged
<1>5. CASE FormatBegins
  <2>1. n' = n + 1 /\ fmt_begin' = n /\ fmt_status' = 1 /\ n < L
    BY <1>5 DEF FormatBegins, InName
  <2>2. UNCHANGED <<i, pc, m_error>> /\ pc = "name"
    BY <1>5 DEF FormatBegins, InName, nameUnchanged
  <2> QED
    BY <2>1, <2>2
<1>6. CASE FormatEnds
  <2>1. n' = n + 1 /\ fmt_status' = 0 /\ n < L /\ pc = "name" /\ pc' = "push"
    BY <1>6 DEF FormatEnds, InFormat
  <2>2. UNCHANGED <<i, fmt_begin, m_error>>
    BY <1>6 DEF FormatEnds, nameUnchanged
  <2> QED
    BY <2>1, <2>2
<1>7. CASE NextCharacter
  <2>1. n' = n + 1 /\ n < L /\ pc = "name"
    BY <1>7 DEF NextCharacter, InName, InFormat
  <2>2. UNCHANGED <<i, pc, fmt_status, fmt_begin, m_error>>
    BY <1>7 DEF NextCharacter, nameUnchanged
  <2> QED
    BY <2>1, <2>2
<1>8. CASE PatternEnds
  BY <1>8 DEF PatternEnds, nameUnchanged
<1>9. CASE Push
  BY <1>9 DEF Push, pushUnchanged
<1>10. CASE PushError
  BY <1>10 DEF PushError, pushUnchanged
<1>11. CASE Finish
  <2>1. m_error' \in BOOLEAN
    BY <1>11 DEF Finish
  <2> QED
    BY <1>11, <2>1 DEF Finish, pushUnchanged
<1>12. CASE UNCHANGED vars
  BY <1>12 DEF vars
<1> QED
  BY <1>2, <1>3, <1>4, <1>5, <1>6, <1>7, <1>8, <1>9, <1>10, <1>11, <1>12 DEF Next

(* No substr throws or gets a length that wrapped round, and no index is   *)
(* beyond the pattern, whatever the pattern (log.cc:519-571).              *)
THEOREM PositionsInRange == Spec => [](TypeOK /\ SubstrInRange)
<1>1. IInv => TypeOK /\ SubstrInRange
  BY DEF IInv
<1> QED
  BY InvInit, InvStep, <1>1, PTL DEF Spec

-----------------------------------------------------------------------------
(* What the scan has seen, and what is still ahead of it.                  *)

(* The position a is that of a "%", b that of a "{", of a format that is   *)
(* not closed and whose name is of these characters.                       *)
Opens(a, b, chars) ==
  /\ a < b
  /\ At(a) = Sign /\ At(b) = Open
  /\ \A x \in a + 1 .. b - 1 : At(x) \in chars
  /\ \A x \in b + 1 .. Size - 1 : At(x) # Close

(* What the conversion under way has seen of the pattern.                  *)
SeenInv ==
  pc \in {"name", "push"} =>
    /\ i < Size /\ At(i) = Sign /\ ~ DoubledAt(i)
    /\ pc = "name" /\ fmt_status = 0 =>
         \A x \in i + 1 .. n - 1 : At(x) \in Letters \cup {Close}
    /\ fmt_status = 1 =>
         /\ i < fmt_begin /\ fmt_begin < n
         /\ At(fmt_begin) = Open
         /\ \A x \in i + 1 .. fmt_begin - 1 : At(x) \in Letters \cup {Close}
         /\ \A x \in fmt_begin + 1 .. n - 1 : At(x) # Close
    /\ pc = "push" /\ fmt_status = 1 => n = Size

(* An unclosed format is never passed unnoticed: the conversion that is    *)
(* under way ends before it, or is its own and does not end.               *)
Ahead(a, b) ==
  /\ pc # "done" /\ i <= a
  /\ pc \in {"name", "push"} =>
       /\ i < a /\ fmt_status = 0 => n <= a
       /\ i = a => IF fmt_status = 0 THEN pc = "name" /\ n <= b ELSE b < n

AheadInv ==
  ~ m_error => \A a, b \in 0 .. Size - 1 : Opens(a, b, Letters) => Ahead(a, b)

LEMMA PatternStays ==
  ASSUME IInv, [Next]_vars
  PROVE  m_pattern' = m_pattern /\ Size' = Size /\ Size \in Nat
<1>1. m_pattern' = m_pattern
  BY DEF Next, vars, Literal, Doubled, Collect, Percent, NameEnds,
         FormatBegins, FormatEnds, NextCharacter, PatternEnds, nameUnchanged,
         Push, PushError, Finish, pushUnchanged
<1> QED
  BY <1>1 DEF IInv, Positions, Size

LEMMA SeenStep == IInv /\ SeenInv /\ [Next]_vars => SeenInv'
<1> SUFFICES ASSUME IInv, SeenInv, [Next]_vars PROVE SeenInv'
  OBVIOUS
<1> DEFINE L == Size
<1>1. m_pattern' = m_pattern /\ L' = L /\ L \in Nat
  BY PatternStays
<1>2. /\ i \in 0 .. L /\ n \in 0 .. L /\ fmt_begin \in 0 .. L
      /\ fmt_status \in {0, 1} /\ SubstrInRange
  BY DEF IInv, TypeOK, L
<1> HIDE DEF L
<1>3. CASE Literal \/ Doubled \/ Push \/ PushError \/ Finish
  BY <1>3 DEF Literal, Doubled, Collect, Push, PushError, Finish, SeenInv
<1>4. CASE Percent
  <2>1. /\ pc' = "name" /\ i' = i /\ i < L /\ At(i) = Sign /\ ~ DoubledAt(i)
        /\ n' = i + 1 /\ fmt_status' = 0
    BY <1>4 DEF Percent, L
  <2> QED
    BY <1>1, <1>2, <2>1 DEF SeenInv, At, DoubledAt, L
<1>5. CASE NameEnds
  <2>1. pc = "name" /\ pc' = "push" /\ fmt_status' = 0 /\ i' = i
    BY <1>5 DEF NameEnds, InName, nameUnchanged
  <2> QED
    BY <1>1, <1>2, <2>1 DEF SeenInv, At, DoubledAt, L
<1>6. CASE FormatBegins
  <2>1. /\ pc = "name" /\ fmt_status = 0 /\ At(n) = Open /\ i' = i
        /\ pc' = "name" /\ fmt_status' = 1 /\ fmt_begin' = n /\ n' = n + 1
    BY <1>6 DEF FormatBegins, InName, nameUnchanged
  <2>2. i < n
    BY <1>1, <1>2, <2>1 DEF SubstrInRange, L
  <2> QED
    BY <1>1, <1>2, <2>1, <2>2 DEF SeenInv, At, DoubledAt, L
<1>7. CASE FormatEnds
  <2>1. pc = "name" /\ pc' = "push" /\ fmt_status' = 0 /\ i' = i
    BY <1>7 DEF FormatEnds, InFormat, nameUnchanged
  <2> QED
    BY <1>1, <1>2, <2>1 DEF SeenInv, At, DoubledAt, L
<1>8. CASE NextCharacter
  <2>1. /\ pc = "name" /\ n < L /\ n' = n + 1
        /\ UNCHANGED <<pc, i, fmt_status, fmt_begin>>
        /\ fmt_status = 0 => At(n) \in Letters \cup {Close}
        /\ fmt_status = 1 => At(n) # Close
    BY <1>8 DEF NextCharacter, InName, InFormat, nameUnchanged, L
  <2>2. ASSUME fmt_status = 0, NEW x \in i + 1 .. n' - 1
        PROVE  At(x) \in Letters \cup {Close}
    <3>1. x = n \/ x \in i + 1 .. n - 1
      BY <1>1, <1>2, <2>1, <2>2
    <3> QED
      BY <2>1, <2>2, <3>1 DEF SeenInv
  <2>3. ASSUME fmt_status = 1, NEW x \in fmt_begin + 1 .. n' - 1
        PROVE  At(x) # Close
    <3>1. x = n \/ x \in fmt_begin + 1 .. n - 1
      BY <1>1, <1>2, <2>1, <2>3
    <3> QED
      BY <2>1, <2>3, <3>1 DEF SeenInv
  <2> QED
    BY <1>1, <1>2, <2>1, <2>2, <2>3 DEF SeenInv, At, DoubledAt, L
<1>9. CASE PatternEnds
  <2>1. /\ pc = "name" /\ pc' = "push" /\ n = L
        /\ UNCHANGED <<i, n, fmt_status, fmt_begin>>
    BY <1>9 DEF PatternEnds, nameUnchanged, L
  <2> QED
    BY <1>1, <1>2, <2>1 DEF SeenInv, At, DoubledAt, L
<1>10. CASE UNCHANGED vars
  <2>1. UNCHANGED <<pc, i, n, fmt_status, fmt_begin>>
    BY <1>10 DEF vars
  <2> QED
    BY <1>1, <2>1 DEF SeenInv, At, DoubledAt, L
<1> QED
  BY <1>3, <1>4, <1>5, <1>6, <1>7, <1>8, <1>9, <1>10 DEF Next

LEMMA Characters ==
  /\ Sign # Open /\ Sign # Close /\ Open # Close
  /\ Sign \notin Letters /\ Open \notin Letters /\ Close \notin Letters
<1>1. Sign # Open /\ Sign # Close /\ Open # Close
  BY Zenon DEF Sign, Open, Close
<1> QED
  BY <1>1, FormatPatternAssumption

(* An error is never taken back.                                           *)
LEMMA ErrorStays ==
  ASSUME TypeOK, [Next]_vars, ~ m_error'
  PROVE  ~ m_error
<1>1. CASE Literal \/ Doubled \/ Percent \/ NameEnds \/ FormatBegins
           \/ FormatEnds \/ NextCharacter \/ PatternEnds \/ Push
  <2>1. m_error' = m_error
    BY <1>1 DEF Literal, Doubled, Collect, Percent, NameEnds, FormatBegins,
                FormatEnds, NextCharacter, PatternEnds, nameUnchanged, Push
  <2> QED
    BY <2>1
<1>2. CASE PushError
  BY <1>2 DEF PushError
<1>3. CASE Finish
  <2>1. m_error' = (m_error \/ \E k \in DOMAIN vec :
                      vec[k].type = 1 /\ ~ IsKnown(vec[k].str))
    BY <1>3 DEF Finish
  <2> QED
    BY <2>1, Zenon
<1>4. CASE UNCHANGED vars
  BY <1>4 DEF vars
<1> QED
  BY <1>1, <1>2, <1>3, <1>4 DEF Next

LEMMA AheadStep == IInv /\ SeenInv /\ AheadInv /\ [Next]_vars => AheadInv'
<1> SUFFICES ASSUME IInv, SeenInv, AheadInv, [Next]_vars, ~ m_error',
                    NEW a \in 0 .. Size' - 1, NEW b \in 0 .. Size' - 1,
                    Opens(a, b, Letters)'
             PROVE  Ahead(a, b)'
  BY DEF AheadInv
<1> DEFINE L == Size
<1>1. m_pattern' = m_pattern /\ L' = L /\ L \in Nat
  BY PatternStays
<1>2. /\ i \in 0 .. L /\ n \in 0 .. L /\ fmt_begin \in 0 .. L
      /\ fmt_status \in {0, 1} /\ SubstrInRange /\ Positions
  BY DEF IInv, TypeOK, L
<1> HIDE DEF L
<1>3. /\ a \in Nat /\ b \in Nat /\ a < b /\ b < L
      /\ At(a) = Sign /\ At(b) = Open
      /\ \A x \in a + 1 .. b - 1 : At(x) \in Letters
      /\ \A x \in b + 1 .. L - 1 : At(x) # Close
  BY <1>1 DEF Opens, At, L
<1>4. Ahead(a, b)
  <2>1. ~ m_error
    BY ErrorStays DEF IInv
  <2> QED
    BY <1>1, <1>3, <2>1 DEF AheadInv, Opens, L
<1>5. pc # "done" /\ i <= a
  BY <1>4 DEF Ahead
<1>6. CASE Literal \/ Doubled
  <2>1. i # a
    <3>1. CASE Literal
      BY <1>3, <3>1 DEF Literal
    <3>2. CASE Doubled
      <4>1. At(i + 1) = Sign
        BY <3>2 DEF Doubled, DoubledAt
      <4>2. At(a + 1) # Sign
        <5>1. a + 1 = b \/ a + 1 \in a + 1 .. b - 1
          BY <1>3
        <5> QED
          BY <1>3, <5>1, Characters
      <4> QED
        BY <4>1, <4>2
    <3> QED
      BY <1>6, <3>1, <3>2
  <2>2. pc' = "scan" /\ i' = i + 1
    BY <1>6 DEF Literal, Doubled, Collect
  <2> QED
    BY <1>2, <1>3, <1>5, <2>1, <2>2 DEF Ahead
<1>7. CASE Percent
  <2>1. /\ pc' = "name" /\ i' = i /\ n' = i + 1 /\ fmt_status' = 0
    BY <1>7 DEF Percent
  <2> QED
    BY <1>2, <1>3, <1>5, <2>1 DEF Ahead
<1>8. CASE NameEnds
  <2>1. /\ pc = "name" /\ pc' = "push" /\ fmt_status = 0 /\ n < L
        /\ UNCHANGED <<i, n, fmt_status>>
        /\ At(n) \notin Letters \cup {Open, Close}
    BY <1>8 DEF NameEnds, InName, nameUnchanged, L
  <2>2. i # a
    <3> SUFFICES ASSUME i = a PROVE FALSE
      OBVIOUS
    <3>1. a + 1 <= n /\ n <= b
      BY <1>2, <1>4, <2>1 DEF Ahead, SubstrInRange
    <3>2. n = b \/ n \in a + 1 .. b - 1
      BY <1>2, <1>3, <3>1
    <3> QED
      BY <1>3, <2>1, <3>2
  <2> QED
    BY <1>2, <1>3, <1>4, <2>1, <2>2 DEF Ahead
<1>9. CASE FormatBegins
  <2>1. /\ pc = "name" /\ pc' = "name" /\ fmt_status = 0 /\ fmt_status' = 1
        /\ i' = i /\ n < L /\ n' = n + 1 /\ At(n) = Open
    BY <1>9 DEF FormatBegins, InName, nameUnchanged, L
  <2>2. ASSUME i = a PROVE n = b
    <3>1. a + 1 <= n /\ n <= b
      BY <1>2, <1>4, <2>1, <2>2 DEF Ahead, SubstrInRange
    <3>2. n = b \/ n \in a + 1 .. b - 1
      BY <1>2, <1>3, <3>1
    <3> QED
      BY <1>3, <2>1, <3>2, Characters
  <2> QED
    BY <1>2, <1>3, <1>5, <2>1, <2>2 DEF Ahead
<1>10. CASE FormatEnds
  <2>1. /\ pc = "name" /\ pc' = "push" /\ fmt_status = 1 /\ fmt_status' = 0
        /\ i' = i /\ n < L /\ n' = n + 1 /\ At(n) = Close
    BY <1>10 DEF FormatEnds, InFormat, nameUnchanged, L
  <2>2. n < a
    <3> SUFFICES ASSUME a <= n PROVE FALSE
      BY <1>2, <1>3
    <3>1. n = a \/ n = b \/ n \in a + 1 .. b - 1 \/ n \in b + 1 .. L - 1
      BY <1>1, <1>2, <1>3, <2>1
    <3> QED
      BY <1>3, <2>1, <3>1, Characters
  <2>3. i # a
    BY <1>2, <1>3, <2>1, <2>2 DEF SubstrInRange
  <2> QED
    BY <1>2, <1>3, <1>5, <2>1, <2>2, <2>3 DEF Ahead
<1>11. CASE NextCharacter
  <2>1. /\ pc = "name" /\ n < L /\ n' = n + 1
        /\ UNCHANGED <<pc, i, fmt_status>>
        /\ fmt_status = 0 => At(n) \in Letters \cup {Close}
    BY <1>11 DEF NextCharacter, InName, InFormat, nameUnchanged, L
  <2>2. ASSUME fmt_status = 0 PROVE n # a /\ n # b
    BY <1>3, <2>1, <2>2, Characters
  <2> QED
    BY <1>2, <1>3, <1>4, <2>1, <2>2 DEF Ahead
<1>12. CASE PatternEnds
  <2>1. /\ pc = "name" /\ pc' = "push" /\ n = L
        /\ UNCHANGED <<i, n, fmt_status>>
    BY <1>12 DEF PatternEnds, nameUnchanged, L
  <2> QED
    BY <1>1, <1>2, <1>3, <1>4, <2>1 DEF Ahead
<1>13. CASE Push
  <2>1. pc = "push" /\ fmt_status = 0 /\ i' = n /\ pc' = "scan"
    BY <1>13 DEF Push
  <2> QED
    BY <1>2, <1>3, <1>4, <2>1 DEF Ahead
<1>14. CASE PushError
  BY <1>14 DEF PushError
<1>15. CASE Finish
  <2>1. i = L
    BY <1>15 DEF Finish, L
  <2> QED
    BY <1>1, <1>3, <1>5, <2>1
<1>16. CASE UNCHANGED vars
  <2>1. UNCHANGED <<pc, i, n, fmt_status>>
    BY <1>16 DEF vars
  <2> QED
    BY <1>4, <2>1 DEF Ahead
<1> QED
  BY <1>6, <1>7, <1>8, <1>9, <1>10, <1>11, <1>12, <1>13, <1>14, <1>15,
     <1>16 DEF Next

-----------------------------------------------------------------------------
(* The items are the pattern.                                              *)

Chars == {m_pattern[k] : k \in DOMAIN m_pattern}
PatternInv == m_pattern \in Seq(Chars)

Items == [str : Seq(Chars), fmt : Seq(Chars), type : {0, 1}]

(* The items v, which end at the positions e, are the pattern so far.      *)
Covers(v, e) ==
  /\ v \in Seq(Items) /\ e \in Seq(0 .. Size) /\ Len(e) = Len(v)
  /\ \A k \in 1 .. Len(v) :
       Begin(e, k) < e[k] /\ IsWritten(v[k], Begin(e, k), e[k])

(* Where the items so far end.                                             *)
Last == Begin(ends, Len(vec) + 1)

(* What the conversion under way was written as, once it has ended.        *)
ConversionInv ==
  LET text == Substr(i, n - i) IN
  /\ str \in Seq(Chars) /\ fmt \in Seq(Chars)
  /\ pc = "name" /\ fmt_status = 0 =>
       fmt = <<>> /\ str = IF n = Size THEN Substr(i + 1, Size - i - 1) ELSE <<>>
  /\ pc = "name" /\ fmt_status = 1 =>
       fmt = <<>> /\ (n < Size => str = Substr(i + 1, fmt_begin - i - 1))
  /\ pc = "push" /\ fmt_status = 0 =>
       \/ fmt = <<>> /\ text = <<Sign>> \o str
       \/ text = <<Sign>> \o str \o <<Open>> \o fmt \o <<Close>>

TextInv ==
  ~ m_error =>
    /\ Covers(vec, ends)
    /\ IF pc = "done" THEN Last = Size
       ELSE Last <= i /\ nstr = Substr(Last, i - Last)

(* The characters of the pattern from the position b up to e.              *)
Cut(b, e) == SubSeq(m_pattern, b + 1, e)

LEMMA SubstrIsCut ==
  \A b, e \in Nat : b <= e => Substr(b, e - b) = Cut(b, e)
BY DEF Substr, Cut

LEMMA CutType ==
  ASSUME PatternInv, NEW b \in 0 .. Size, NEW e \in b .. Size
  PROVE  Cut(b, e) \in Seq(Chars) /\ Len(Cut(b, e)) = e - b
<1> DEFINE p == m_pattern
<1>1. p \in Seq(Chars) /\ Len(p) = Size
  BY DEF PatternInv, Size
<1>2. Size \in Nat
  BY <1>1
<1>3. b \in Nat /\ e \in Nat /\ b <= e /\ e <= Len(p)
  BY <1>1, <1>2
<1> HIDE DEF p
<1>4. SubSeq(p, b + 1, e) \in Seq(Chars) /\ Len(SubSeq(p, b + 1, e)) = e - b
  BY <1>1, <1>3
<1> QED
  BY <1>4 DEF Cut, p

LEMMA CutSplit ==
  ASSUME PatternInv, NEW b \in 0 .. Size, NEW c \in b .. Size,
         NEW e \in c .. Size
  PROVE  Cut(b, e) = Cut(b, c) \o Cut(c, e)
<1> DEFINE p == m_pattern
<1>1. p \in Seq(Chars) /\ Len(p) = Size
  BY DEF PatternInv, Size
<1>2. Size \in Nat
  BY <1>1
<1>3. b \in Nat /\ c \in Nat /\ e \in Nat /\ b <= c /\ c <= e /\ e <= Len(p)
  BY <1>1, <1>2
<1> HIDE DEF p
<1>4. /\ SubSeq(p, b + 1, e) \in Seq(Chars)
      /\ Len(SubSeq(p, b + 1, e)) = e - b
      /\ \A x \in 1 .. e - b : SubSeq(p, b + 1, e)[x] = p[b + x]
  BY <1>1, <1>3
<1>5. /\ SubSeq(p, b + 1, c) \in Seq(Chars)
      /\ Len(SubSeq(p, b + 1, c)) = c - b
      /\ \A x \in 1 .. c - b : SubSeq(p, b + 1, c)[x] = p[b + x]
  BY <1>1, <1>3
<1>6. /\ SubSeq(p, c + 1, e) \in Seq(Chars)
      /\ Len(SubSeq(p, c + 1, e)) = e - c
      /\ \A x \in 1 .. e - c : SubSeq(p, c + 1, e)[x] = p[c + x]
  BY <1>1, <1>3
<1>7. SubSeq(p, b + 1, e) = SubSeq(p, b + 1, c) \o SubSeq(p, c + 1, e)
  BY <1>3, <1>4, <1>5, <1>6
<1> QED
  BY <1>7 DEF Cut, p

LEMMA CutOne ==
  ASSUME PatternInv, NEW b \in 0 .. Size, b < Size
  PROVE  Cut(b, b + 1) = <<At(b)>> /\ At(b) \in Chars
<1> DEFINE p == m_pattern
           t == SubSeq(p, b + 1, b + 1)
<1>1. p \in Seq(Chars) /\ Len(p) = Size
  BY DEF PatternInv, Size
<1>2. Size \in Nat
  BY <1>1
<1>3. b \in Nat /\ b < Len(p)
  BY <1>1, <1>2
<1> HIDE DEF p
<1>4. t \in Seq(Chars) /\ Len(t) = 1 /\ t[1] = p[b + 1]
  BY <1>1, <1>3
<1>5. p[b + 1] \in Chars
  BY <1>1, <1>3
<1> HIDE DEF t
<1>6. \A c \in Chars : <<c>> \in Seq(Chars) /\ Len(<<c>>) = 1 /\ <<c>>[1] = c
  OBVIOUS
<1>7. \A c \in Chars : t[1] = c => t = <<c>>
  BY <1>4, <1>6
<1> QED
  BY <1>4, <1>5, <1>7 DEF Cut, At, p, t

LEMMA NoFormat ==
  ASSUME PatternInv, NEW b \in 0 .. Size, NEW e \in b + 1 .. Size,
         At(b) = Sign
  PROVE  Cut(b, e) = <<Sign>> \o Cut(b + 1, e)
<1>1. Size \in Nat
  BY DEF PatternInv, Size
<1>2. b < Size /\ b + 1 \in b .. Size /\ e \in b + 1 .. Size
  BY <1>1
<1> QED
  BY <1>2, CutOne, CutSplit

LEMMA WithFormat ==
  ASSUME PatternInv, NEW b \in 0 .. Size, NEW f \in b + 1 .. Size,
         NEW e \in f + 1 .. Size, e < Size,
         At(b) = Sign, At(f) = Open, At(e) = Close
  PROVE  Cut(b, e + 1) = <<Sign>> \o Cut(b + 1, f) \o <<Open>>
                           \o Cut(f + 1, e) \o <<Close>>
<1>1. Size \in Nat
  BY DEF PatternInv, Size
<1>2. Cut(b, f) = <<Sign>> \o Cut(b + 1, f)
  BY NoFormat
<1>3. Cut(b, f + 1) = Cut(b, f) \o <<Open>>
  <2>1. f \in 0 .. Size /\ f < Size /\ f \in b .. Size /\ f + 1 \in f .. Size
    BY <1>1
  <2> QED
    BY <2>1, CutOne, CutSplit
<1>4. Cut(b, e) = Cut(b, f + 1) \o Cut(f + 1, e)
  <2>1. f + 1 \in b .. Size /\ e \in f + 1 .. Size
    BY <1>1
  <2> QED
    BY <2>1, CutSplit
<1>5. Cut(b, e + 1) = Cut(b, e) \o <<Close>>
  <2>1. e \in 0 .. Size /\ e \in b .. Size /\ e + 1 \in e .. Size
    BY <1>1
  <2> QED
    BY <2>1, CutOne, CutSplit
<1> QED
  BY <1>2, <1>3, <1>4, <1>5

LEMMA ConversionStep ==
  ASSUME IInv, SeenInv, PatternInv, ConversionInv, [Next]_vars
  PROVE  ConversionInv'
<1> DEFINE L == Size
<1>1. m_pattern' = m_pattern /\ L' = L /\ L \in Nat
  BY PatternStays
<1>2. /\ i \in 0 .. L /\ n \in 0 .. L /\ fmt_begin \in 0 .. L
      /\ fmt_status \in {0, 1} /\ SubstrInRange
  BY DEF IInv, TypeOK, L
<1>3. Chars' = Chars
  BY <1>1 DEF Chars
<1>4. /\ str \in Seq(Chars) /\ fmt \in Seq(Chars) /\ <<>> \in Seq(Chars)
  BY DEF ConversionInv
<1>5. \A b, e \in 0 .. L : b <= e => Substr(b, e - b) = Cut(b, e)
                                     /\ Cut(b, e) \in Seq(Chars)
  BY <1>1, SubstrIsCut, CutType
<1> HIDE DEF L
<1>6. CASE Literal \/ Doubled \/ Push \/ PushError \/ Finish
  <2>1. pc' \in {"scan", "done"} /\ str' = str /\ fmt' = fmt
    BY <1>6 DEF Literal, Doubled, Collect, Push, PushError, Finish,
                pushUnchanged
  <2> QED
    BY <1>3, <1>4, <2>1 DEF ConversionInv
<1>7. CASE Percent
  <2>1. /\ pc' = "name" /\ i' = i /\ i < L /\ n' = i + 1 /\ fmt_status' = 0
        /\ str' = <<>> /\ fmt' = <<>>
    BY <1>7 DEF Percent, L
  <2>2. i + 1 = L => Substr(i + 1, L - i - 1) = <<>>
    <3> SUFFICES ASSUME i + 1 = L PROVE Substr(L, 0) = <<>>
      BY <1>1, <1>2
    <3>1. L - L = 0 /\ L \in 0 .. L /\ L <= L
      BY <1>1
    <3>2. Substr(L, 0) = Cut(L, L)
      BY <1>5, <3>1
    <3>3. Cut(L, L) \in Seq(Chars) /\ Len(Cut(L, L)) = 0
      BY <1>1, CutType DEF L
    <3> QED
      BY <3>2, <3>3
  <2>3. str' = IF n' = L THEN Substr(i + 1, L - i - 1) ELSE <<>>
    BY <2>1, <2>2
  <2>4. str' \in Seq(Chars)
    BY <1>4, <2>1
  <2> QED
    BY <1>1, <1>3, <1>4, <2>1, <2>3, <2>4 DEF ConversionInv, Substr, L
<1>8. CASE NameEnds
  <2>1. /\ pc = "name" /\ pc' = "push" /\ fmt_status = 0 /\ n < L
        /\ UNCHANGED <<i, n, fmt_status, fmt>>
        /\ str' = Substr(i + 1, n - i - 1)
    BY <1>8 DEF NameEnds, InName, nameUnchanged, L
  <2>2. /\ str' = Cut(i + 1, n) /\ Substr(i, n - i) = Cut(i, n)
        /\ str' \in Seq(Chars) /\ n \in i + 1 .. L
    <3>1. i + 1 <= n /\ i + 1 \in 0 .. L /\ n - i - 1 = n - (i + 1)
      BY <1>1, <1>2, <2>1 DEF SubstrInRange
    <3> QED
      BY <1>1, <1>2, <1>5, <2>1, <3>1
  <2>3. At(i) = Sign
    BY <2>1 DEF SeenInv
  <2>4. Substr(i, n - i) = <<Sign>> \o str'
    BY <1>2, <2>2, <2>3, NoFormat DEF L
  <2>5. fmt = <<>>
    BY <2>1 DEF ConversionInv
  <2> QED
    BY <1>1, <1>3, <1>4, <2>1, <2>2, <2>4, <2>5 DEF ConversionInv, Substr
<1>9. CASE FormatBegins
  <2>1. /\ pc = "name" /\ pc' = "name" /\ fmt_status = 0 /\ fmt_status' = 1
        /\ UNCHANGED <<i, fmt>> /\ fmt_begin' = n /\ n < L
        /\ str' = Substr(i + 1, n - i - 1)
    BY <1>9 DEF FormatBegins, InName, nameUnchanged, L
  <2>2. str' \in Seq(Chars)
    <3>1. i + 1 <= n /\ i + 1 \in 0 .. L /\ n - i - 1 = n - (i + 1)
      BY <1>1, <1>2, <2>1 DEF SubstrInRange
    <3> QED
      BY <1>2, <1>5, <2>1, <3>1
  <2>3. fmt = <<>>
    BY <2>1 DEF ConversionInv
  <2> QED
    BY <1>1, <1>3, <1>4, <2>1, <2>2, <2>3 DEF ConversionInv, Substr
<1>10. CASE FormatEnds
  <2>1. /\ pc = "name" /\ pc' = "push" /\ fmt_status = 1 /\ fmt_status' = 0
        /\ UNCHANGED <<i, str>> /\ n < L /\ n' = n + 1 /\ At(n) = Close
        /\ fmt' = Substr(fmt_begin + 1, n - fmt_begin - 1)
    BY <1>10 DEF FormatEnds, InFormat, nameUnchanged, L
  <2>2. /\ i + 1 <= fmt_begin /\ fmt_begin + 1 <= n
        /\ At(i) = Sign /\ At(fmt_begin) = Open
    BY <1>2, <2>1 DEF SubstrInRange, SeenInv
  <2>3. fmt' = Cut(fmt_begin + 1, n) /\ fmt' \in Seq(Chars)
    <3>1. fmt_begin + 1 \in 0 .. L /\ n - fmt_begin - 1 = n - (fmt_begin + 1)
      BY <1>1, <1>2, <2>1, <2>2
    <3> QED
      BY <1>2, <1>5, <2>1, <2>2, <3>1
  <2>4. str = Cut(i + 1, fmt_begin)
    <3>1. str = Substr(i + 1, fmt_begin - i - 1)
      BY <2>1 DEF ConversionInv, L
    <3>2. i + 1 \in 0 .. L /\ fmt_begin - i - 1 = fmt_begin - (i + 1)
      BY <1>1, <1>2, <2>1, <2>2
    <3> QED
      BY <1>2, <1>5, <2>2, <3>1, <3>2
  <2>5. Substr(i, n' - i) = Cut(i, n + 1)
    <3>1. i <= n + 1 /\ n + 1 \in 0 .. L
      BY <1>1, <1>2, <2>1, <2>2
    <3> QED
      BY <1>2, <1>5, <2>1, <3>1
  <2>6. Substr(i, n' - i) = <<Sign>> \o str \o <<Open>> \o fmt' \o <<Close>>
    <3>1. fmt_begin \in i + 1 .. Size /\ n \in fmt_begin + 1 .. Size
          /\ n < Size /\ i \in 0 .. Size
      BY <1>1, <1>2, <2>1, <2>2 DEF L
    <3>2. Cut(i, n + 1) = <<Sign>> \o Cut(i + 1, fmt_begin) \o <<Open>>
                            \o Cut(fmt_begin + 1, n) \o <<Close>>
      BY <2>1, <2>2, <3>1, WithFormat
    <3> QED
      BY <2>3, <2>4, <2>5, <3>2
  <2> QED
    BY <1>1, <1>3, <1>4, <2>1, <2>3, <2>6 DEF ConversionInv, Substr
<1>11. CASE NextCharacter
  <2>1. /\ pc = "name" /\ n < L /\ n' = n + 1
        /\ UNCHANGED <<pc, i, fmt_status, fmt_begin, fmt>>
        /\ str' = IF n + 1 = L /\ str = <<>> THEN Substr(i + 1, L - i - 1)
                  ELSE str
    BY <1>11 DEF NextCharacter, InName, InFormat, nameUnchanged, L
  <2>2. str' \in Seq(Chars)
    <3>1. i + 1 <= L /\ i + 1 \in 0 .. L /\ L - i - 1 = L - (i + 1)
          /\ L \in 0 .. L
      BY <1>1, <1>2, <2>1 DEF SubstrInRange
    <3>2. Substr(i + 1, L - i - 1) \in Seq(Chars)
      BY <1>5, <3>1
    <3> QED
      BY <1>4, <2>1, <3>2
  <2>3. n # L /\ n < L
    BY <1>1, <1>2, <2>1
  <2>4. /\ fmt = <<>>
        /\ fmt_status = 0 => str = <<>>
        /\ fmt_status = 1 => str = Substr(i + 1, fmt_begin - i - 1)
    BY <1>2, <2>1, <2>3 DEF ConversionInv, L
  <2>5. n' < L => str' = str
    BY <1>1, <1>2, <2>1
  <2>6. fmt_status = 0 =>
          str' = IF n' = L THEN Substr(i + 1, L - i - 1) ELSE <<>>
    BY <2>1, <2>4
  <2> QED
    BY <1>1, <1>2, <1>3, <2>1, <2>2, <2>4, <2>5, <2>6
       DEF ConversionInv, Substr, L
<1>12. CASE PatternEnds
  <2>1. /\ pc = "name" /\ pc' = "push" /\ n = L
        /\ UNCHANGED <<i, n, fmt_status, str, fmt>>
    BY <1>12 DEF PatternEnds, nameUnchanged, L
  <2>2. ASSUME fmt_status = 0
        PROVE  fmt = <<>> /\ Substr(i, n - i) = <<Sign>> \o str
    <3>1. fmt = <<>> /\ str = Substr(i + 1, n - i - 1)
      BY <2>1, <2>2 DEF ConversionInv, L
    <3>2. i + 1 <= n /\ i + 1 \in 0 .. L /\ n - i - 1 = n - (i + 1)
      BY <1>1, <1>2, <2>1 DEF SubstrInRange
    <3>3. str = Cut(i + 1, n) /\ Substr(i, n - i) = Cut(i, n)
          /\ n \in i + 1 .. L
      BY <1>1, <1>2, <1>5, <3>1, <3>2
    <3>4. At(i) = Sign
      BY <2>1 DEF SeenInv
    <3> QED
      BY <1>2, <3>1, <3>3, <3>4, NoFormat DEF L
  <2> QED
    BY <1>1, <1>3, <1>4, <2>1, <2>2 DEF ConversionInv, Substr
<1>13. CASE UNCHANGED vars
  <2>1. UNCHANGED <<pc, i, n, fmt_status, fmt_begin, str, fmt>>
    BY <1>13 DEF vars
  <2> QED
    BY <1>1, <1>3, <2>1 DEF ConversionInv, Substr, L
<1> QED
  BY <1>6, <1>7, <1>8, <1>9, <1>10, <1>11, <1>12, <1>13 DEF Next

LEMMA Elements ==
  ASSUME NEW S, NEW s \in Seq(S)
  PROVE  \A k \in 1 .. Len(s) : s[k] \in S
OBVIOUS

(* One more item, where the items so far end.                              *)
LEMMA OneMore ==
  ASSUME PatternInv, NEW v, NEW e, Covers(v, e),
         NEW item \in Items, NEW to \in 0 .. Size,
         Begin(e, Len(v) + 1) < to,
         IsWritten(item, Begin(e, Len(v) + 1), to)
  PROVE  /\ Covers(v \o <<item>>, e \o <<to>>)
         /\ Begin(e \o <<to>>, Len(v \o <<item>>) + 1) = to
<1>1. /\ v \in Seq(Items) /\ e \in Seq(0 .. Size) /\ Len(e) = Len(v)
      /\ \A k \in 1 .. Len(v) :
           Begin(e, k) < e[k] /\ IsWritten(v[k], Begin(e, k), e[k])
  BY DEF Covers
<1> DEFINE w == Append(v, item)
           f == Append(e, to)
           l == Len(v)
<1>2. v \o <<item>> = w /\ e \o <<to>> = f
  BY <1>1
<1>3. l \in Nat /\ w \in Seq(Items) /\ f \in Seq(0 .. Size)
      /\ Len(w) = l + 1 /\ Len(f) = l + 1
  BY <1>1
<1>4. /\ \A k \in 1 .. l : w[k] = v[k] /\ f[k] = e[k]
      /\ w[l + 1] = item /\ f[l + 1] = to
  BY <1>1
<1> HIDE DEF w, f
<1>5. ASSUME NEW k \in 1 .. l + 1 PROVE Begin(f, k) = Begin(e, k)
  <2>1. k = 1 \/ k - 1 \in 1 .. l
    BY <1>3, <1>5
  <2> QED
    BY <1>4, <2>1 DEF Begin
<1>6. ASSUME NEW k \in 1 .. l + 1
      PROVE  Begin(f, k) < f[k] /\ IsWritten(w[k], Begin(f, k), f[k])
  <2>1. CASE k = l + 1
    BY <1>3, <1>4, <1>5, <2>1
  <2>2. CASE k \in 1 .. l
    BY <1>1, <1>4, <1>5, <2>2
  <2> QED
    BY <1>3, <2>1, <2>2
<1>7. Begin(f, Len(w) + 1) = to
  BY <1>3, <1>4 DEF Begin
<1> HIDE DEF l
<1> QED
  BY <1>2, <1>3, <1>6, <1>7 DEF Covers

(* The text collected, if any, becomes an item that ends where the outer   *)
(* loop is.                                                                *)
LEMMA WithText ==
  ASSUME PatternInv, NEW v, NEW e, Covers(v, e), i \in 0 .. Size,
         Begin(e, Len(v) + 1) <= i,
         NEW s, s = Substr(Begin(e, Len(v) + 1), i - Begin(e, Len(v) + 1))
  PROVE  /\ Covers(v \o Text(s), e \o TextEnd(s))
         /\ Begin(e \o TextEnd(s), Len(v \o Text(s)) + 1) = i
<1>1. v \in Seq(Items) /\ e \in Seq(0 .. Size) /\ Len(e) = Len(v)
  BY DEF Covers
<1>2. Size \in Nat
  BY DEF PatternInv, Size
<1> DEFINE b == Begin(e, Len(v) + 1)
<1>3. b \in 0 .. Size
  <2>1. Len(v) = 0 \/ Len(v) \in 1 .. Len(e)
    BY <1>1
  <2>2. \A k \in 1 .. Len(e) : e[k] \in 0 .. Size
    BY <1>1, Elements
  <2> QED
    BY <1>1, <1>2, <2>1, <2>2 DEF Begin
<1> HIDE DEF b
<1>4. b <= i /\ s = Substr(b, i - b)
  BY DEF b
<1>5. s = Cut(b, i) /\ s \in Seq(Chars) /\ Len(s) = i - b
  <2>1. b \in Nat /\ i \in Nat /\ i \in b .. Size
    BY <1>2, <1>3, <1>4
  <2> QED
    BY <1>3, <1>4, <2>1, SubstrIsCut, CutType
<1>6. CASE s = <<>>
  <2>1. b = i
    BY <1>2, <1>3, <1>5, <1>6
  <2>2. v \o Text(s) = v /\ e \o TextEnd(s) = e
    BY <1>1, <1>6 DEF Text, TextEnd
  <2> QED
    BY <2>1, <2>2 DEF b
<1>7. CASE s # <<>>
  <2> DEFINE item == [str |-> s, fmt |-> <<>>, type |-> 0]
  <2>1. Text(s) = <<item>> /\ TextEnd(s) = <<i>>
    BY <1>7 DEF Text, TextEnd
  <2>2. b < i
    BY <1>2, <1>3, <1>4, <1>5, <1>7
  <2>3. item \in Items
    <3>1. <<>> \in Seq(Chars)
      OBVIOUS
    <3> QED
      BY <1>5, <3>1 DEF Items
  <2>4. IsWritten(item, b, i)
    BY <1>4 DEF IsWritten
  <2> HIDE DEF item
  <2>5. /\ Covers(v \o <<item>>, e \o <<i>>)
        /\ Begin(e \o <<i>>, Len(v \o <<item>>) + 1) = i
    BY <2>2, <2>3, <2>4, OneMore DEF b
  <2> QED
    BY <2>1, <2>5
<1> QED
  BY <1>6, <1>7

LEMMA TextStep ==
  ASSUME IInv, SeenInv, PatternInv, ConversionInv, TextInv, [Next]_vars
  PROVE  TextInv'
<1> DEFINE L == Size
<1>1. m_pattern' = m_pattern /\ L' = L /\ L \in Nat
  BY PatternStays
<1>2. i \in 0 .. L /\ n \in 0 .. L /\ fmt_status \in {0, 1} /\ Positions
  BY DEF IInv, TypeOK, L
<1> HIDE DEF L
<1> SUFFICES ASSUME ~ m_error' PROVE TextInv'
  BY DEF TextInv
<1>3. ~ m_error
  BY ErrorStays DEF IInv
<1>4. Covers(vec, ends)
  BY <1>3 DEF TextInv
<1> DEFINE Done == Covers(vec', ends')
           last == Begin(ends', Len(vec') + 1)
<1>5. Covers(vec, ends)' <=> Done
  BY <1>1 DEF Covers, IsWritten, Substr, Begin, Items, Chars, Size
<1>6. Last' = last
  BY DEF Last, Begin
<1>7. ASSUME pc # "done" PROVE Last <= i /\ nstr = Substr(Last, i - Last)
  BY <1>3, <1>7 DEF TextInv
<1> SUFFICES /\ Done
             /\ IF pc' = "done" THEN last = L
                ELSE last <= i' /\ nstr' = Substr(last, i' - last)
  BY <1>1, <1>5, <1>6 DEF TextInv, Substr, L
<1>8. Last \in 0 .. L
  <2>1. vec \in Seq(Items) /\ ends \in Seq(0 .. L) /\ Len(ends) = Len(vec)
    BY <1>4 DEF Covers, L
  <2>2. Len(vec) = 0 \/ Len(vec) \in 1 .. Len(ends)
    BY <2>1
  <2>3. \A k \in 1 .. Len(ends) : ends[k] \in 0 .. L
    BY <2>1, Elements
  <2> QED
    BY <1>1, <2>1, <2>2, <2>3 DEF Last, Begin
<1>9. ASSUME vec' = vec, ends' = ends PROVE Done /\ last = Last
  BY <1>4, <1>9 DEF Last
<1>10. CASE Literal \/ Doubled
  <2>1. /\ pc = "scan" /\ pc' = "scan" /\ i < L /\ i' = i + 1
        /\ nstr' = Append(nstr, At(i)) /\ vec' = vec /\ ends' = ends
    BY <1>10 DEF Literal, Doubled, DoubledAt, Collect, L
  <2>2. i + 1 \in 0 .. L /\ i \in Last .. L /\ i + 1 \in i .. L /\ Last <= i
        /\ Last \in Nat /\ i \in Nat /\ i + 1 \in Nat
    BY <1>1, <1>2, <1>7, <1>8, <2>1
  <2>3. nstr = Cut(Last, i) /\ nstr \in Seq(Chars)
    BY <1>7, <1>8, <2>1, <2>2, SubstrIsCut, CutType DEF L
  <2>4. Cut(Last, i + 1) = nstr \o <<At(i)>> /\ At(i) \in Chars
    BY <1>2, <1>8, <2>1, <2>2, <2>3, CutOne, CutSplit DEF L
  <2>5. nstr' = Cut(Last, i + 1)
    BY <2>1, <2>3, <2>4
  <2>6. nstr' = Substr(Last, i + 1 - Last)
    BY <2>2, <2>5, SubstrIsCut
  <2> QED
    BY <1>9, <2>1, <2>2, <2>6
<1>11. CASE Percent \/ NameEnds \/ FormatBegins \/ FormatEnds
            \/ NextCharacter \/ PatternEnds
  <2>1. /\ pc # "done" /\ pc' # "done" /\ UNCHANGED <<i, nstr, vec, ends>>
    BY <1>11 DEF Percent, NameEnds, InName, FormatBegins, FormatEnds,
                 InFormat, NextCharacter, PatternEnds, nameUnchanged
  <2> QED
    BY <1>7, <1>9, <2>1
<1>12. CASE Push
  <2> DEFINE item == [str |-> str, fmt |-> fmt, type |-> 1]
  <2>1. /\ pc = "push" /\ fmt_status = 0 /\ i' = n /\ pc' = "scan"
        /\ vec' = vec \o Text(nstr) \o <<item>> /\ nstr' = <<>>
        /\ ends' = ends \o TextEnd(nstr) \o <<n>>
    BY <1>12 DEF Push
  <2> DEFINE v == vec \o Text(nstr)
             e == ends \o TextEnd(nstr)
  <2>2. Covers(v, e) /\ Begin(e, Len(v) + 1) = i
    BY <1>2, <1>4, <1>7, <2>1, WithText DEF Last, L
  <2>3. item \in Items
    BY DEF ConversionInv, Items
  <2>4. IsWritten(item, i, n)
    <3>1. LET text == Substr(i, n - i)
          IN  \/ fmt = <<>> /\ text = <<Sign>> \o str
              \/ text = <<Sign>> \o str \o <<Open>> \o fmt \o <<Close>>
      BY <2>1 DEF ConversionInv
    <3>2. item.str = str /\ item.fmt = fmt /\ item.type = 1
      OBVIOUS
    <3> HIDE DEF item
    <3> QED
      BY <3>1, <3>2 DEF IsWritten
  <2>5. i < n
    BY <1>1, <1>2, <2>1 DEF Positions
  <2> HIDE DEF item, v, e
  <2>6. Done /\ last = n
    <3>1. vec' = v \o <<item>> /\ ends' = e \o <<n>>
      BY <2>1 DEF v, e
    <3> QED
      BY <1>2, <2>2, <2>3, <2>4, <2>5, <3>1, OneMore DEF L
  <2>7. Substr(n, n - n) = <<>>
    <3>1. n \in 0 .. Size /\ n \in n .. Size /\ n \in Nat /\ n <= n
          /\ n - n = 0
      BY <1>1, <1>2 DEF L
    <3>2. Substr(n, n - n) = Cut(n, n)
      BY <3>1, SubstrIsCut
    <3>3. Cut(n, n) \in Seq(Chars) /\ Len(Cut(n, n)) = 0
      BY <3>1, CutType
    <3> QED
      BY <3>2, <3>3
  <2> QED
    BY <1>1, <1>2, <2>1, <2>6, <2>7
<1>13. CASE PushError
  BY <1>13 DEF PushError
<1>14. CASE Finish
  <2>1. /\ pc = "scan" /\ pc' = "done" /\ i = L
        /\ vec' = vec \o Text(nstr) /\ ends' = ends \o TextEnd(nstr)
    BY <1>14 DEF Finish, L
  <2> DEFINE v == vec \o Text(nstr)
             e == ends \o TextEnd(nstr)
  <2>2. Covers(v, e) /\ Begin(e, Len(v) + 1) = i
    BY <1>2, <1>4, <1>7, <2>1, WithText DEF Last, L
  <2> HIDE DEF v, e
  <2>3. vec' = v /\ ends' = e
    BY <2>1 DEF v, e
  <2> QED
    BY <2>1, <2>2, <2>3
<1>15. CASE UNCHANGED vars
  <2>1. UNCHANGED <<pc, i, nstr, vec, ends>>
    BY <1>15 DEF vars
  <2>2. pc = "done" => Last = L
    BY <1>3 DEF TextInv, L
  <2> QED
    BY <1>7, <1>9, <2>1, <2>2
<1> QED
  BY <1>10, <1>11, <1>12, <1>13, <1>14, <1>15 DEF Next

-----------------------------------------------------------------------------
(* Which patterns are in error.                                            *)

Unknown(v) == \E k \in DOMAIN v : v[k].type = 1 /\ ~ IsKnown(v[k].str)

ErrorInv ==
  IF pc = "done"
  THEN /\ Unknown(vec) => m_error
       /\ m_error => Unclosed(m_pattern, Letters \cup {Close}) \/ Unknown(vec)
  ELSE m_error => Unclosed(m_pattern, Letters \cup {Close})

LEMMA OpensUnclosed ==
  ASSUME NEW chars, NEW a \in Nat, NEW b \in Nat, Size \in Nat, b < Size,
         Opens(a, b, chars)
  PROVE  Unclosed(m_pattern, chars)
<1> DEFINE j == a + 1
           k == b + 1
<1>1. j \in 1 .. Size /\ k \in j + 1 .. Size
  BY DEF Opens
<1>2. m_pattern[j] = Sign /\ m_pattern[k] = Open
  BY DEF Opens, At
<1>3. ASSUME NEW x \in j + 1 .. k - 1 PROVE m_pattern[x] \in chars
  <2>1. x - 1 \in a + 1 .. b - 1 /\ (x - 1) + 1 = x
    BY <1>3
  <2> QED
    BY <2>1 DEF Opens, At
<1>4. ASSUME NEW x \in k + 1 .. Size PROVE m_pattern[x] # Close
  <2>1. x - 1 \in b + 1 .. Size - 1 /\ (x - 1) + 1 = x
    BY <1>4
  <2> QED
    BY <2>1 DEF Opens, At
<1> HIDE DEF j, k
<1> QED
  BY <1>1, <1>2, <1>3, <1>4 DEF Unclosed, Size

LEMMA UnclosedOpens ==
  ASSUME NEW chars, Size \in Nat, Unclosed(m_pattern, chars)
  PROVE  \E a, b \in 0 .. Size - 1 : Opens(a, b, chars)
<1>1. PICK j \in 1 .. Size : \E k \in j + 1 .. Size :
        /\ m_pattern[j] = Sign /\ m_pattern[k] = Open
        /\ \A x \in j + 1 .. k - 1 : m_pattern[x] \in chars
        /\ \A x \in k + 1 .. Size : m_pattern[x] # Close
  BY DEF Unclosed, Size
<1>2. PICK k \in j + 1 .. Size :
        /\ m_pattern[j] = Sign /\ m_pattern[k] = Open
        /\ \A x \in j + 1 .. k - 1 : m_pattern[x] \in chars
        /\ \A x \in k + 1 .. Size : m_pattern[x] # Close
  BY <1>1
<1> DEFINE a == j - 1
           b == k - 1
<1>3. a \in 0 .. Size - 1 /\ b \in 0 .. Size - 1 /\ a < b
      /\ a + 1 = j /\ b + 1 = k
  OBVIOUS
<1>4. At(a) = Sign /\ At(b) = Open
  BY <1>2, <1>3 DEF At
<1>5. ASSUME NEW x \in a + 1 .. b - 1 PROVE At(x) \in chars
  <2>1. x + 1 \in j + 1 .. k - 1
    BY <1>5
  <2> QED
    BY <1>2, <2>1 DEF At
<1>6. ASSUME NEW x \in b + 1 .. Size - 1 PROVE At(x) # Close
  <2>1. x + 1 \in k + 1 .. Size
    BY <1>6
  <2> QED
    BY <1>2, <2>1 DEF At
<1> HIDE DEF a, b
<1> QED
  BY <1>3, <1>4, <1>5, <1>6 DEF Opens

LEMMA ErrorStep ==
  ASSUME IInv, SeenInv, TextInv, ErrorInv, [Next]_vars
  PROVE  ErrorInv'
<1> DEFINE U == Unclosed(m_pattern, Letters \cup {Close})
<1>1. U' = U /\ Size \in Nat
  BY PatternStays DEF Unclosed
<1>2. pc # "done" => (m_error => U)
  BY DEF ErrorInv
<1> HIDE DEF U
<1>3. CASE Literal \/ Doubled \/ Percent \/ NameEnds \/ FormatBegins
           \/ FormatEnds \/ NextCharacter \/ PatternEnds \/ Push
  <2>1. m_error' = m_error /\ pc # "done" /\ pc' # "done"
    BY <1>3 DEF Literal, Doubled, Collect, Percent, NameEnds, FormatBegins,
                FormatEnds, NextCharacter, PatternEnds, nameUnchanged, Push,
                InName, InFormat
  <2> QED
    BY <1>1, <1>2, <2>1 DEF ErrorInv, U
<1>4. CASE PushError
  <2>1. pc = "push" /\ fmt_status = 1 /\ pc' = "scan"
    BY <1>4 DEF PushError
  <2>2. /\ i < fmt_begin /\ fmt_begin < n /\ n = Size
        /\ At(i) = Sign /\ At(fmt_begin) = Open
        /\ \A x \in i + 1 .. fmt_begin - 1 : At(x) \in Letters \cup {Close}
        /\ \A x \in fmt_begin + 1 .. Size - 1 : At(x) # Close
    BY <2>1 DEF SeenInv
  <2>3. i \in Nat /\ fmt_begin \in Nat
    BY <1>1 DEF IInv, TypeOK
  <2>4. U
    BY <1>1, <2>2, <2>3, OpensUnclosed DEF Opens, U
  <2> QED
    BY <1>1, <2>1, <2>4 DEF ErrorInv, U
<1>5. CASE Finish
  <2>1. /\ pc = "scan" /\ pc' = "done" /\ vec' = vec \o Text(nstr)
    BY <1>5 DEF Finish
  <2>2. m_error' <=> m_error \/ Unknown(vec)
    BY <1>5, Zenon DEF Finish, Unknown
  <2>3. CASE m_error
    BY <1>1, <1>2, <2>1, <2>2, <2>3 DEF ErrorInv, U
  <2>4. CASE ~ m_error
    <3>1. vec \in Seq(Items)
      BY <2>4 DEF TextInv, Covers
    <3>2. Unknown(vec') <=> Unknown(vec)
      <4>1. CASE nstr = <<>>
        BY <2>1, <3>1, <4>1 DEF Text
      <4>2. CASE nstr # <<>>
        <5> DEFINE item == [str |-> nstr, fmt |-> <<>>, type |-> 0]
                   v == vec'
        <5>1. item.type = 0
          OBVIOUS
        <5>2. vec' = Append(vec, item)
          BY <2>1, <3>1, <4>2 DEF Text
        <5> HIDE DEF item
        <5>3. /\ DOMAIN vec = 1 .. Len(vec) /\ Len(vec) \in Nat
              /\ DOMAIN v = 1 .. Len(vec) + 1
              /\ v[Len(vec) + 1] = item
              /\ \A k \in 1 .. Len(vec) : v[k] = vec[k]
          BY <3>1, <5>2
        <5> HIDE DEF v
        <5>4. Unknown(v) <=> Unknown(vec)
          BY <5>1, <5>3 DEF Unknown
        <5> QED
          BY <5>4 DEF v
      <4> QED
        BY <4>1, <4>2
    <3>3. Unknown(vec)' <=> Unknown(vec')
      BY DEF Unknown, IsKnown
    <3> QED
      BY <2>1, <2>2, <2>4, <3>2, <3>3 DEF ErrorInv
  <2> QED
    BY <2>3, <2>4
<1>6. CASE UNCHANGED vars
  <2>1. UNCHANGED <<pc, vec, m_error>>
    BY <1>6 DEF vars
  <2>2. Unknown(vec)' <=> Unknown(vec)
    BY <2>1 DEF Unknown, IsKnown
  <2> QED
    BY <1>1, <2>1, <2>2 DEF ErrorInv, U
<1> QED
  BY <1>3, <1>4, <1>5, <1>6 DEF Next

-----------------------------------------------------------------------------
ScanInv == PatternInv /\ SeenInv /\ AheadInv /\ ConversionInv /\ TextInv
           /\ ErrorInv

LEMMA ScanInit == Init => ScanInv
<1> SUFFICES ASSUME Init PROVE ScanInv
  OBVIOUS
<1>1. /\ pc = "scan" /\ i = 0 /\ str = <<>> /\ fmt = <<>> /\ nstr = <<>>
      /\ vec = <<>> /\ ends = <<>> /\ ~ m_error
  BY DEF Init
<1>2. PatternInv
  BY FormatPatternAssumption DEF Init, PatternInv, Chars
<1>3. Size \in Nat
  BY <1>2 DEF PatternInv, Size
<1>4. SeenInv /\ ErrorInv
  BY <1>1 DEF SeenInv, ErrorInv
<1>5. AheadInv
  BY <1>1, <1>3 DEF AheadInv, Ahead
<1>6. ConversionInv
  BY <1>1 DEF ConversionInv
<1>7. TextInv
  <2>1. Covers(<<>>, <<>>)
    BY DEF Covers
  <2>2. Begin(<<>>, Len(<<>>) + 1) = 0
    BY DEF Begin
  <2>3. Substr(0, 0 - 0) = <<>>
    <3>1. 0 \in 0 .. Size /\ 0 \in 0 .. 0 /\ 0 <= 0 /\ 0 - 0 = 0
      BY <1>3
    <3>2. Substr(0, 0 - 0) = Cut(0, 0)
      BY <3>1, SubstrIsCut
    <3>3. Cut(0, 0) \in Seq(Chars) /\ Len(Cut(0, 0)) = 0
      BY <1>2, <3>1, CutType
    <3> QED
      BY <3>2, <3>3
  <2> QED
    BY <1>1, <2>1, <2>2, <2>3 DEF TextInv, Last
<1> QED
  BY <1>2, <1>4, <1>5, <1>6, <1>7 DEF ScanInv

LEMMA ScanStep == IInv /\ ScanInv /\ [Next]_vars => ScanInv'
<1> SUFFICES ASSUME IInv, ScanInv, [Next]_vars PROVE ScanInv'
  OBVIOUS
<1>1. PatternInv'
  BY PatternStays DEF ScanInv, PatternInv, Chars
<1> QED
  BY <1>1, SeenStep, AheadStep, ConversionStep, TextStep, ErrorStep
     DEF ScanInv

LEMMA Scanning == Spec => [](IInv /\ ScanInv)
BY InvInit, InvStep, ScanInit, ScanStep, PTL DEF Spec

(* The items of a pattern that is accepted are the pattern, cut into       *)
(* pieces one after the other, whatever its length (log.cc:519-591).       *)
THEOREM ItemsArePattern == Spec => []NothingLost
<1>1. IInv /\ ScanInv => NothingLost
  <2> SUFFICES ASSUME ScanInv, pc = "done", ~ m_error
               PROVE  /\ Begin(ends, Len(vec) + 1) = Size
                      /\ \A k \in DOMAIN vec :
                           /\ Begin(ends, k) < ends[k]
                           /\ IsWritten(vec[k], Begin(ends, k), ends[k])
    BY DEF NothingLost
  <2>1. Covers(vec, ends) /\ Last = Size
    BY DEF ScanInv, TextInv
  <2>2. DOMAIN vec = 1 .. Len(vec)
    BY <2>1 DEF Covers
  <2> QED
    BY <2>1, <2>2 DEF Covers, Last
<1> QED
  BY Scanning, <1>1, PTL

(* A pattern is in error exactly if a format is not closed or a conversion *)
(* is unknown, whatever its length (log.cc:581-585, 635-640).              *)
THEOREM ErrorsAreJustified == Spec => []ErrorJustified
<1>1. IInv /\ ScanInv => ErrorJustified
  <2> SUFFICES ASSUME IInv, ScanInv, pc = "done"
               PROVE  /\ Unclosed(m_pattern, Letters) \/ Unknown(vec) => m_error
                      /\ m_error => Unclosed(m_pattern, Letters \cup {Close})
                                    \/ Unknown(vec)
    BY DEF ErrorJustified, Unknown
  <2>1. ASSUME Unclosed(m_pattern, Letters), ~ m_error PROVE FALSE
    <3>1. Size \in Nat
      BY DEF IInv, Positions
    <3>2. PICK a \in 0 .. Size - 1, b \in 0 .. Size - 1 : Opens(a, b, Letters)
      BY <2>1, <3>1, UnclosedOpens
    <3> QED
      BY <2>1, <3>2 DEF ScanInv, AheadInv, Ahead
  <2> QED
    BY <2>1 DEF ScanInv, ErrorInv
<1> QED
  BY Scanning, <1>1, PTL
=============================================================================
