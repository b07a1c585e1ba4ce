----------------------------- MODULE FormatPattern -----------------------------
(***************************************************************************)
(* LogFormatter::init (mumu/log.cc:513-651), which splits a pattern such   *)
(* as "%d{%H:%M} [%p] %m%n" into items: literal text and conversions       *)
(* %name or %name{format}.                                                 *)
(*                                                                         *)
(* One step is one turn of a loop.  Positions count from 0, as in the      *)
(* code, and Substr(pos, len) is m_pattern.substr(pos, len).  Of the       *)
(* characters that mean nothing to the parser one or two stand for all.    *)
(***************************************************************************)
EXTENDS Naturals, Sequences

CONSTANTS
  Letters,   \* characters for which isalpha() holds
  Known,     \* those of Letters that are keys of s_format_items
  Patterns   \* the patterns given to the constructor

(* The characters that mean something, and what stands for a format that   *)
(* is not closed.                                                          *)
Sign == "%"
Open == "{"
Close == "}"
PatternError == <<"<<pattern_error>>">>

ASSUME FormatPatternAssumption ==
  /\ Known \subseteq Letters
  /\ {Sign, Open, Close} \cap Letters = {}
  /\ \A p \in Patterns : p \in Seq({p[k] : k \in DOMAIN p})

VARIABLES
  m_pattern,
  pc,          \* "scan": outer loop; "name": inner loop; "push"; "done"
  i, n,        \* where the outer and the inner loop are
  fmt_status,  \* 1 between the braces
  fmt_begin,   \* where the opening brace is
  str, fmt,    \* name and format of the conversion
  nstr,        \* the literal text collected
  vec,         \* the items so far: [str, fmt, type], type 1 a conversion
  m_error,
  ends         \* history, per item: where what it was written as ends

vars == <<m_pattern, pc, i, n, fmt_status, fmt_begin, str, fmt, nstr, vec, m_error,
          ends>>

Size == Len(m_pattern)
At(k) == m_pattern[k + 1]
Substr(pos, len) == SubSeq(m_pattern, pos + 1, pos + len)

(* m_pattern never changes.                                                *)
TypeOK ==
  /\ pc \in {"scan", "name", "push", "done"}
  /\ i \in 0 .. Size
  /\ n \in 0 .. Size
  /\ fmt_status \in {0, 1}
  /\ fmt_begin \in 0 .. Size
  /\ m_error \in BOOLEAN

Init ==
  /\ m_pattern \in Patterns
  /\ pc = "scan"
  /\ i = 0 /\ n = 0
  /\ fmt_status = 0 /\ fmt_begin = 0
  /\ str = <<>> /\ fmt = <<>> /\ nstr = <<>>
  /\ vec = <<>>
  /\ m_error = FALSE
  /\ ends = <<>>

-----------------------------------------------------------------------------
(* The outer loop.                                                         *)

Collect(c) ==
  /\ nstr' = Append(nstr, c)
  /\ i' = i + 1
  /\ UNCHANGED <<m_pattern, pc, n, fmt_status, fmt_begin, str, fmt, vec, m_error,
                 ends>>

Literal ==
  /\ pc = "scan" /\ i < Size
  /\ At(i) # Sign
  /\ Collect(At(i))

DoubledAt(k) == At(k) = Sign /\ k + 1 < Size /\ At(k + 1) = Sign

(* "%%": the first one is literal text; the second is looked at next, as   *)
(* the beginning of something.                                             *)
Doubled ==
  /\ pc = "scan" /\ i < Size
  /\ DoubledAt(i)
  /\ Collect(Sign)

(* Mutated form: n = i.                                                    *)
Percent_AtI ==
  /\ pc = "scan" /\ i < Size
  /\ At(i) = Sign /\ ~ DoubledAt(i)
  /\ pc' = "name"
  /\ n' = i
  /\ fmt_status' = 0 /\ fmt_begin' = 0
  /\ str' = <<>> /\ fmt' = <<>>
  /\ UNCHANGED <<m_pattern, i, nstr, vec, m_error, ends>>

Percent ==
  /\ pc = "scan" /\ i < Size
  /\ At(i) = Sign /\ ~ DoubledAt(i)
  /\ pc' = "name"
  /\ n' = i + 1
  /\ fmt_status' = 0 /\ fmt_begin' = 0
  /\ str' = <<>> /\ fmt' = <<>>
  /\ UNCHANGED <<m_pattern, i, nstr, vec, m_error, ends>>

-----------------------------------------------------------------------------
(* The inner loop.                                                         *)

InName == pc = "name" /\ n < Size /\ fmt_status = 0
InFormat == pc = "name" /\ n < Size /\ fmt_status = 1

nameUnchanged == <<m_pattern, i, nstr, vec, m_error, ends>>

NameEnds ==
  /\ InName /\ At(n) \notin Letters \cup {Open, Close}
  /\ str' = Substr(i + 1, n - i - 1)
  /\ pc' = "push"
  /\ UNCHANGED <<nameUnchanged, n, fmt_status, fmt_begin, fmt>>

FormatBegins ==
  /\ InName /\ At(n) = Open
  /\ str' = Substr(i + 1, n - i - 1)
  /\ fmt_status' = 1 /\ fmt_begin' = n
  /\ n' = n + 1
  /\ UNCHANGED <<nameUnchanged, pc, fmt>>

FormatEnds ==
  /\ InFormat /\ At(n) = Close
  /\ fmt' = Substr(fmt_begin + 1, n - fmt_begin - 1)
  /\ fmt_status' = 0
  /\ n' = n + 1
  /\ pc' = "push"
  /\ UNCHANGED <<nameUnchanged, fmt_begin, str>>

(* Mutated form: continue, without ++n.                                    *)
NextCharacter_NoProgress ==
  /\ (InName /\ At(n) \in Letters \cup {Close}) \/ (InFormat /\ At(n) # Close)
  /\ UNCHANGED vars

(* A character of the name, a closing brace there included, or of the      *)
(* format.  A name that the end of the pattern ends is taken here.         *)
NextCharacter ==
  /\ (InName /\ At(n) \in Letters \cup {Close}) \/ (InFormat /\ At(n) # Close)
  /\ n' = n + 1
  /\ str' = IF n + 1 = Size /\ str = <<>> THEN Substr(i + 1, Size - i - 1) ELSE str
  /\ UNCHANGED <<nameUnchanged, pc, fmt_status, fmt_begin, fmt>>

PatternEnds ==
  /\ pc = "name" /\ n = Size
  /\ pc' = "push"
  /\ UNCHANGED <<nameUnchanged, n, fmt_status, fmt_begin, str, fmt>>

-----------------------------------------------------------------------------
(* The items.                                                              *)

Text(s) == IF s = <<>> THEN <<>> ELSE <<[str |-> s, fmt |-> <<>>, type |-> 0]>>

(* Where the item that Text makes of s ends.                               *)
TextEnd(s) == IF s = <<>> THEN <<>> ELSE <<i>>

pushUnchanged == <<m_pattern, n, fmt_status, fmt_begin, str, fmt>>

(* Mutated form: i = n, so that ++i leaves a character out.                *)
Push_SkipsOne ==
  /\ pc = "push" /\ fmt_status = 0
  /\ vec' = vec \o Text(nstr) \o <<[str |-> str, fmt |-> fmt, type |-> 1]>>
  /\ ends' = ends \o TextEnd(nstr) \o <<n>>
  /\ nstr' = <<>>
  /\ i' = IF n < Size THEN n + 1 ELSE n
  /\ pc' = "scan"
  /\ UNCHANGED <<pushUnchanged, m_error>>

(* i = n - 1, then the ++i of the outer loop.                              *)
Push ==
  /\ pc = "push" /\ fmt_status = 0
  /\ vec' = vec \o Text(nstr) \o <<[str |-> str, fmt |-> fmt, type |-> 1]>>
  /\ ends' = ends \o TextEnd(nstr) \o <<n>>
  /\ nstr' = <<>>
  /\ i' = n
  /\ pc' = "scan"
  /\ UNCHANGED <<pushUnchanged, m_error>>

(* Mutated form: m_error is not set.                                       *)
PushError_NotSet ==
  /\ pc = "push" /\ fmt_status = 1
  /\ vec' = Append(vec, [str |-> PatternError, fmt |-> fmt, type |-> 0])
  /\ ends' = Append(ends, i + 1)
  /\ i' = i + 1
  /\ pc' = "scan"
  /\ UNCHANGED <<pushUnchanged, nstr, m_error>>

(* The format is not closed: what follows the "%" is literal text.         *)
PushError ==
  /\ pc = "push" /\ fmt_status = 1
  /\ m_error' = TRUE
  /\ vec' = Append(vec, [str |-> PatternError, fmt |-> fmt, type |-> 0])
  /\ ends' = Append(ends, i + 1)
  /\ i' = i + 1
  /\ pc' = "scan"
  /\ UNCHANGED <<pushUnchanged, nstr>>

IsKnown(s) == \E c \in Known : s = <<c>>

(* The last text, and the loop that makes m_items of vec.                  *)
Finish ==
  /\ pc = "scan" /\ i = Size
  /\ vec' = vec \o Text(nstr)
  /\ ends' = ends \o TextEnd(nstr)
  /\ m_error' = (m_error \/ \E k \in DOMAIN vec :
                   vec[k].type = 1 /\ ~ IsKnown(vec[k].str))
  /\ pc' = "done"
  /\ UNCHANGED <<pushUnchanged, i, nstr>>

-----------------------------------------------------------------------------
Next ==
  \/ Literal \/ Doubled \/ Percent
  \/ NameEnds \/ FormatBegins \/ FormatEnds \/ NextCharacter \/ PatternEnds
  \/ Push \/ PushError \/ Finish

Spec == Init /\ [][Next]_vars

(* One thread runs the constructor.                                        *)
FairSpec == Spec /\ WF_vars(Next)

-----------------------------------------------------------------------------
(* Properties.                                                             *)

(* The lengths given to substr are not negative (they are unsigned) and    *)
(* its positions are in the pattern (log.cc:544, 549, 558, 568).           *)
SubstrInRange ==
  pc = "name" =>
    /\ i + 1 <= n /\ n <= Size
    /\ fmt_status = 1 => i + 1 <= fmt_begin /\ fmt_begin + 1 <= n

(* Where the k-th item begins, the items ending where e says.              *)
Begin(e, k) == IF k = 1 THEN 0 ELSE e[k - 1]

(* The item is what the pattern says from one position to another.         *)
IsWritten(item, from, to) ==
  LET text == Substr(from, to - from)
  IN  \/ item.type = 0 /\ text = item.str
      \/ item.type = 1 /\ item.fmt = <<>> /\ text = <<Sign>> \o item.str
      \/ /\ item.type = 1
         /\ text = <<Sign>> \o item.str \o <<Open>> \o item.fmt \o <<Close>>

(* The items of a pattern that is accepted are the pattern, each character *)
(* in one item and in order (log.cc:519-580, 588-591).  It follows that    *)
(* "%%" is never one percent sign: the second one is always that of a      *)
(* conversion.                                                             *)
NothingLost ==
  pc = "done" /\ ~ m_error =>
    /\ Begin(ends, Len(vec) + 1) = Size
    /\ \A k \in DOMAIN vec :
         /\ Begin(ends, k) < ends[k]
         /\ IsWritten(vec[k], Begin(ends, k), ends[k])

(* A "%", a name of these characters and a "{" that no "}" follows.        *)
Unclosed(p, chars) ==
  \E j \in 1 .. Len(p) : \E k \in j + 1 .. Len(p) :
    /\ p[j] = Sign /\ p[k] = Open
    /\ \A x \in j + 1 .. k - 1 : p[x] \in chars
    /\ \A x \in k + 1 .. Len(p) : p[x] # Close

(* A pattern is in error if a format is not closed or an item is none of   *)
(* the known conversions, and not otherwise (log.cc:581-585, 635-640).     *)
(* The parser takes a "}" for a character of a name.                       *)
ErrorJustified ==
  LET unknown == \E k \in DOMAIN vec :
                   vec[k].type = 1 /\ ~ IsKnown(vec[k].str)
  IN  pc = "done" =>
        /\ Unclosed(m_pattern, Letters) \/ unknown => m_error
        /\ m_error => Unclosed(m_pattern, Letters \cup {Close}) \/ unknown

(* The loops end: i grows with every turn of the outer one.                *)
Terminates == <>(pc = "done")
=============================================================================
