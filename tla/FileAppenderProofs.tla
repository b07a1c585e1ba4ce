-------------------------- MODULE FileAppenderProofs --------------------------
(***************************************************************************)
(* What the three seconds of FileLogAppender::log promise, for any number  *)
(* of threads, files and seconds, and of loggers that share the appender.  *)
(***************************************************************************)
EXTENDS FileAppender, TLAPS

(* Nothing that happened is later than the clock.                          *)
Past ==
  /\ \A g \in 1 .. file : since[g] <= clock
  /\ unopenable <= clock
  /\ ~ openable => unopenable = clock
  /\ m_lastTime <= clock
  /\ \A t \in Threads : now[t] <= clock

(* The stream, if good, is that of a file the path named at time x or      *)
(* later.                                                                  *)
Fresh(x) ==
  m_filestream.good => \A g \in 1 .. file : since[g] < x => g <= m_filestream.file

(* The stream, if not good, was opened in vain at time x or later, as long *)
(* as no write has failed.                                                 *)
Excused(x) ==
  ~ m_filestream.good /\ ~ failed => m_filestream.file = 0 /\ x <= unopenable

(* The stream is as young as m_lastTime, as the message whose thread has   *)
(* called reopen, and within three seconds of a message to be written.     *)
(* It is this that survives another thread's setting m_lastTime back.      *)
FreshInv ==
  /\ Fresh(m_lastTime)
  /\ \A t \in Threads :
       /\ pc[t] = "stamp" => Fresh(now[t])
       /\ pc[t] = "write" => Fresh(now[t] - 2)

ExcusedInv ==
  /\ Excused(m_lastTime)
  /\ \A t \in Threads :
       /\ pc[t] = "stamp" => Excused(now[t])
       /\ pc[t] = "write" => Excused(now[t] - 2)

-----------------------------------------------------------------------------
LEMMA TypeStep == TypeOK /\ [Next]_vars => TypeOK'
<1> SUFFICES ASSUME TypeOK, [Next]_vars PROVE TypeOK'
  OBVIOUS
<1> USE FileAppenderAssumption DEF TypeOK, pathVars
<1>1. ASSUME NEW t \in Threads, Event(t) \/ Check(t) PROVE TypeOK'
  <2>1. CASE Event(t)
    BY <2>1 DEF Event
  <2>2. CASE Check(t)
    BY <2>2 DEF Check, Due
  <2> QED
    BY <1>1, <2>1, <2>2
<1>2. ASSUME NEW t \in Threads, Reopen(t) PROVE TypeOK'
  BY <1>2 DEF Reopen
<1>3. ASSUME NEW t \in Threads, Stamp(t) PROVE TypeOK'
  BY <1>3 DEF Stamp
<1>4. ASSUME NEW t \in Threads, Write(t) \/ WriteFails(t) PROVE TypeOK'
  BY <1>4 DEF Write, WriteFails
<1>5. CASE Tick
  BY <1>5 DEF Tick
<1>6. CASE Rotate
  BY <1>6 DEF Rotate
<1>7. CASE Toggle
  BY <1>7 DEF Toggle
<1>8. CASE UNCHANGED vars
  BY <1>8 DEF vars
<1> QED
  BY <1>1, <1>2, <1>3, <1>4, <1>5, <1>6, <1>7, <1>8 DEF Next, Log

LEMMA TypeInit == Init => TypeOK
<1> SUFFICES ASSUME Init PROVE TypeOK
  OBVIOUS
<1> USE FileAppenderAssumption DEF Init
<1>1. openable \in BOOLEAN
  OBVIOUS
<1>2. unopenable \in -1 .. MaxTime
  OBVIOUS
<1>3. m_filestream \in [file : 0 .. MaxFiles, good : BOOLEAN]
  BY <1>1
<1>4. since \in [1 .. MaxFiles -> 0 .. MaxTime]
  OBVIOUS
<1>5. now \in [Threads -> 0 .. MaxTime]
  OBVIOUS
<1>6. failed \in BOOLEAN
  OBVIOUS
<1> QED
  BY <1>1, <1>2, <1>3, <1>4, <1>5, <1>6 DEF TypeOK

(* Times stay in the range TypeOK gives them, whatever threads interleave  *)
(* in log.cc:399-444.                                                      *)
THEOREM TypeCorrect == Spec => []TypeOK
<1> QED
  BY TypeInit, TypeStep, PTL DEF Spec

LEMMA PastStep == TypeOK /\ Past /\ [Next]_vars => Past'
<1> SUFFICES ASSUME TypeOK, Past, [Next]_vars PROVE Past'
  OBVIOUS
<1> USE FileAppenderAssumption DEF TypeOK, Past, pathVars
<1>1. ASSUME NEW t \in Threads, Event(t) PROVE Past'
  BY <1>1 DEF Event
<1>2. ASSUME NEW t \in Threads,
             Check(t) \/ Reopen(t) \/ Write(t) \/ WriteFails(t)
      PROVE  Past'
  BY <1>2 DEF Check, Reopen, Write, WriteFails
<1>3. ASSUME NEW t \in Threads, Stamp(t) PROVE Past'
  BY <1>3 DEF Stamp
<1>4. CASE Tick
  BY <1>4 DEF Tick
<1>5. CASE Rotate
  <2>1. ASSUME NEW g \in 1 .. file' PROVE since'[g] <= clock'
    BY <1>5, <2>1 DEF Rotate
  <2> QED
    BY <1>5, <2>1 DEF Rotate
<1>6. CASE Toggle
  BY <1>6 DEF Toggle
<1>7. CASE UNCHANGED vars
  BY <1>7 DEF vars
<1> QED
  BY <1>1, <1>2, <1>3, <1>4, <1>5, <1>6, <1>7 DEF Next, Log

LEMMA PastInit == Init => Past
BY FileAppenderAssumption DEF Init, Past

-----------------------------------------------------------------------------
(* Only reopen() and a failing write change the stream; time and rotation  *)
(* leave it as young as it is.                                             *)
LEMMA FreshStep == TypeOK /\ Past /\ FreshInv /\ [Next]_vars => FreshInv'
<1> SUFFICES ASSUME TypeOK, Past, FreshInv, [Next]_vars PROVE FreshInv'
  OBVIOUS
<1> USE FileAppenderAssumption DEF TypeOK, Past, FreshInv, pathVars, Fresh
<1>1. ASSUME NEW t \in Threads, Event(t) PROVE FreshInv'
  BY <1>1 DEF Event
<1>2. ASSUME NEW t \in Threads, Check(t) PROVE FreshInv'
  <2>1. ASSUME ~ Due(t) PROVE Fresh(now[t] - 2)
    BY <2>1 DEF Due
  <2> QED
    BY <1>2, <2>1 DEF Check
<1>3. ASSUME NEW t \in Threads, Reopen(t) PROVE FreshInv'
  <2>1. m_filestream'.good => m_filestream'.file = file
    BY <1>3 DEF Reopen
  <2> QED
    BY <1>3, <2>1 DEF Reopen
<1>4. ASSUME NEW t \in Threads, Stamp(t) PROVE FreshInv'
  BY <1>4 DEF Stamp
<1>5. ASSUME NEW t \in Threads, Write(t) \/ WriteFails(t) PROVE FreshInv'
  BY <1>5 DEF Write, WriteFails
<1>6. CASE Tick
  BY <1>6 DEF Tick
<1>7. CASE Rotate
  <2>1. ASSUME NEW x \in Int, x <= clock, Fresh(x) PROVE Fresh(x)'
    <3>1. \A g \in 1 .. file' : since'[g] < x => g \in 1 .. file /\ since[g] < x
      BY <1>7, <2>1 DEF Rotate
    <3> QED
      BY <1>7, <2>1, <3>1 DEF Rotate
  <2>2. m_lastTime \in Int /\ \A t \in Threads : now[t] \in Int /\ now[t] - 2 \in Int
    OBVIOUS
  <2>3. Fresh(m_lastTime)'
    BY <1>7, <2>1, <2>2 DEF Rotate
  <2>4. ASSUME NEW t \in Threads, pc[t] = "stamp" PROVE Fresh(now[t])'
    BY <1>7, <2>1, <2>2, <2>4 DEF Rotate
  <2>5. ASSUME NEW t \in Threads, pc[t] = "write" PROVE Fresh(now[t] - 2)'
    BY <1>7, <2>1, <2>2, <2>5 DEF Rotate
  <2> QED
    BY <1>7, <2>3, <2>4, <2>5 DEF Rotate
<1>8. CASE Toggle
  BY <1>8 DEF Toggle
<1>9. CASE UNCHANGED vars
  BY <1>9 DEF vars
<1> QED
  BY <1>1, <1>2, <1>3, <1>4, <1>5, <1>6, <1>7, <1>8, <1>9 DEF Next, Log

LEMMA FreshInit == Init => FreshInv
BY FileAppenderAssumption DEF Init, FreshInv, Fresh

LEMMA FreshWrite ==
  ASSUME TypeOK, FreshInv, NEW t \in Threads, pc[t] = "write",
         m_filestream.good
  PROVE  \A g \in 1 .. file : since[g] <= now[t] - 3 => g <= m_filestream.file
BY FileAppenderAssumption DEF TypeOK, FreshInv, Fresh

(* No message reaches a file moved away three seconds or more before it    *)
(* was made (log.cc:407-411), even in an appender that several loggers     *)
(* share and whose m_lastTime goes back.                                   *)
THEOREM RotationsNoticed == Spec => RotationNoticed
<1>1. TypeOK /\ FreshInv =>
        \A t \in Threads :
          pc[t] = "write" /\ pc'[t] = "idle" /\ m_filestream.good =>
            \A g \in 1 .. file : since[g] <= now[t] - 3 => g <= m_filestream.file
  BY FreshWrite
<1> QED
  BY <1>1, TypeInit, TypeStep, PastInit, PastStep, FreshInit, FreshStep, PTL
     DEF Spec, RotationNoticed

-----------------------------------------------------------------------------
(* A stream that failed to open is closed: the next reopen() opens it if   *)
(* the path allows.                                                        *)
LEMMA ExcusedStep == TypeOK /\ Past /\ ExcusedInv /\ [Next]_vars => ExcusedInv'
<1> SUFFICES ASSUME TypeOK, Past, ExcusedInv, [Next]_vars PROVE ExcusedInv'
  OBVIOUS
<1> USE FileAppenderAssumption DEF TypeOK, Past, ExcusedInv, pathVars, Excused
<1>1. ASSUME NEW t \in Threads, Event(t) PROVE ExcusedInv'
  BY <1>1 DEF Event
<1>2. ASSUME NEW t \in Threads, Check(t) PROVE ExcusedInv'
  <2>1. ASSUME ~ Due(t) PROVE Excused(now[t] - 2)
    BY <2>1 DEF Due
  <2> QED
    BY <1>2, <2>1 DEF Check
<1>3. ASSUME NEW t \in Threads, Reopen(t) PROVE ExcusedInv'
  <2>1. ~ m_filestream'.good /\ ~ failed =>
          m_filestream'.file = 0 /\ unopenable = clock
    BY <1>3 DEF Reopen
  <2> QED
    BY <1>3, <2>1 DEF Reopen
<1>4. ASSUME NEW t \in Threads, Stamp(t) PROVE ExcusedInv'
  BY <1>4 DEF Stamp
<1>5. ASSUME NEW t \in Threads, Write(t) \/ WriteFails(t) PROVE ExcusedInv'
  BY <1>5 DEF Write, WriteFails
<1>6. CASE Tick
  BY <1>6 DEF Tick
<1>7. CASE Rotate
  BY <1>7 DEF Rotate
<1>8. CASE Toggle
  BY <1>8 DEF Toggle
<1>9. CASE UNCHANGED vars
  BY <1>9 DEF vars
<1> QED
  BY <1>1, <1>2, <1>3, <1>4, <1>5, <1>6, <1>7, <1>8, <1>9 DEF Next, Log

LEMMA ExcusedInit == Init => ExcusedInv
BY FileAppenderAssumption DEF Init, ExcusedInv, Excused

LEMMA ExcusedImplies == TypeOK /\ ExcusedInv => LossExplained
BY FileAppenderAssumption DEF TypeOK, ExcusedInv, Excused, LossExplained

(* Until a write fails, a message is lost only for a path that could not   *)
(* be opened in the three seconds before it (log.cc:407-411, 435-444).     *)
THEOREM LossesExplained == Spec => []LossExplained
<1> QED
  BY TypeInit, TypeStep, PastInit, PastStep, ExcusedInit, ExcusedStep,
     ExcusedImplies, PTL DEF Spec
=============================================================================
