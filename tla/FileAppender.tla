----------------------------- MODULE FileAppender -----------------------------
(***************************************************************************)
(* FileLogAppender (mumu/log.cc:399-444) and the file it appends to.       *)
(*                                                                         *)
(* A message carries the time its LogEvent was made, before any lock is    *)
(* taken.  Threads that log through one logger are inside the appender     *)
(* one at a time, since Logger::log holds the logger's lock; those that    *)
(* log through different loggers meet in it.  reopen() and the writing of  *)
(* a message are sections under the appender's lock and one step each;     *)
(* m_lastTime is read and written outside of it.                           *)
(*                                                                         *)
(* The path names one file after another (it is rotated from outside); a   *)
(* stream goes on with the file it opened.  Messages pass the appender's   *)
(* level.  The clock does not go back.                                     *)
(***************************************************************************)
EXTENDS Integers

CONSTANTS
  Threads,
  Shared,        \* the appender belongs to several loggers
  OpenMayFail,   \* the path may be impossible to open for some time
  MaxTime,       \* bound: the seconds of a behaviour
  MaxFiles       \* bound: the files the path names over a behaviour

ASSUME FileAppenderAssumption ==
  /\ Shared \in BOOLEAN
  /\ OpenMayFail \in BOOLEAN
  /\ MaxTime \in Nat
  /\ MaxFiles \in Nat \ {0}

VARIABLES
  clock,       \* the time in seconds
  file,        \* the file the path names
  openable,    \* the path can be opened
  since,       \* history, per file: when the path began to name it
  unopenable,  \* history: the last time the path was impossible to open
  m_filestream,  \* [file: the one that is open or 0, good: not failed]
  m_lastTime,
  pc,          \* per thread: the next step
  now,         \* per thread: the time of its message
  failed       \* history: a write has failed

pathVars == <<clock, file, openable, since, unopenable>>
vars == <<pathVars, m_filestream, m_lastTime, pc, now, failed>>

TypeOK ==
  /\ clock \in 0 .. MaxTime
  /\ file \in 1 .. MaxFiles
  /\ openable \in BOOLEAN
  /\ since \in [1 .. MaxFiles -> 0 .. MaxTime]
  /\ unopenable \in -1 .. MaxTime
  /\ m_filestream \in [file : 0 .. MaxFiles, good : BOOLEAN]
  /\ m_lastTime \in 0 .. MaxTime
  /\ pc \in [Threads -> {"idle", "log", "reopen", "stamp", "write"}]
  /\ now \in [Threads -> 0 .. MaxTime]
  /\ failed \in BOOLEAN

(* The constructor has opened the file, or tried to.                       *)
Init ==
  /\ clock = 0
  /\ file = 1
  /\ openable \in {TRUE, ~ OpenMayFail}
  /\ since = [g \in 1 .. MaxFiles |-> 0]
  /\ unopenable = IF openable THEN -1 ELSE 0
  /\ m_filestream = [file |-> IF openable THEN 1 ELSE 0, good |-> openable]
  /\ m_lastTime = 0
  /\ pc = [t \in Threads |-> "idle"]
  /\ now = [t \in Threads |-> 0]
  /\ failed = FALSE

-----------------------------------------------------------------------------
(* log().                                                                  *)

(* The macro makes the event.                                              *)
Event(t) ==
  /\ pc[t] = "idle"
  /\ now' = [now EXCEPT ![t] = clock]
  /\ pc' = [pc EXCEPT ![t] = "log"]
  /\ UNCHANGED <<pathVars, m_filestream, m_lastTime, failed>>

(* Mutated form: now > m_lastTime + 3.                                     *)
Due_OffByOne(t) == now[t] > m_lastTime + 3

Due(t) == now[t] >= m_lastTime + 3

(* The test, by a thread that has its logger's lock.                       *)
Check(t) ==
  /\ pc[t] = "log"
  /\ Shared \/ \A s \in Threads : pc[s] \in {"idle", "log"}
  /\ pc' = [pc EXCEPT ![t] = IF Due(t) THEN "reopen" ELSE "write"]
  /\ UNCHANGED <<pathVars, m_filestream, m_lastTime, now, failed>>

(* Mutated form: the stream is not closed before it is opened.             *)
Reopen_KeepsOpen(t) ==
  /\ pc[t] = "reopen"
  /\ m_filestream' = IF openable /\ m_filestream.file = 0
                     THEN [file |-> file, good |-> TRUE]
                     ELSE [m_filestream EXCEPT !.good = FALSE]
  /\ pc' = [pc EXCEPT ![t] = "stamp"]
  /\ UNCHANGED <<pathVars, m_lastTime, now, failed>>

(* reopen(): a good stream is closed; one that is still open, since it had *)
(* failed, cannot be opened again.                                         *)
Reopen(t) ==
  /\ pc[t] = "reopen"
  /\ LET closed == IF m_filestream.good THEN 0 ELSE m_filestream.file IN
     m_filestream' = IF openable /\ closed = 0
                     THEN [file |-> file, good |-> TRUE]
                     ELSE [file |-> closed, good |-> FALSE]
  /\ pc' = [pc EXCEPT ![t] = "stamp"]
  /\ UNCHANGED <<pathVars, m_lastTime, now, failed>>

(* m_lastTime = now, whatever reopen() returned.                           *)
Stamp(t) ==
  /\ pc[t] = "stamp"
  /\ m_lastTime' = now[t]
  /\ pc' = [pc EXCEPT ![t] = "write"]
  /\ UNCHANGED <<pathVars, m_filestream, now, failed>>

(* A stream that is not good ignores the message.                          *)
Write(t) ==
  /\ pc[t] = "write"
  /\ pc' = [pc EXCEPT ![t] = "idle"]
  /\ UNCHANGED <<pathVars, m_filestream, m_lastTime, now, failed>>

(* The device is full when the message is flushed.                         *)
WriteFails(t) ==
  /\ pc[t] = "write" /\ m_filestream.good
  /\ m_filestream' = [m_filestream EXCEPT !.good = FALSE]
  /\ failed' = TRUE
  /\ pc' = [pc EXCEPT ![t] = "idle"]
  /\ UNCHANGED <<pathVars, m_lastTime, now>>

-----------------------------------------------------------------------------
(* What happens outside of the program.                                    *)

Tick ==
  /\ clock < MaxTime
  /\ clock' = clock + 1
  /\ unopenable' = IF openable THEN unopenable ELSE clock + 1
  /\ UNCHANGED <<file, openable, since, m_filestream, m_lastTime, pc,
                 now, failed>>

(* The file is moved away; opening the path makes a new one.               *)
Rotate ==
  /\ file < MaxFiles
  /\ file' = file + 1
  /\ since' = [since EXCEPT ![file + 1] = clock]
  /\ UNCHANGED <<clock, openable, unopenable, m_filestream, m_lastTime, pc,
                 now, failed>>

(* The path becomes possible or impossible to open.                        *)
Toggle ==
  /\ OpenMayFail
  /\ openable' = ~ openable
  /\ unopenable' = clock
  /\ UNCHANGED <<clock, file, since, m_filestream, m_lastTime, pc,
                 now, failed>>

-----------------------------------------------------------------------------
Log(t) ==
  \/ Event(t) \/ Check(t) \/ Reopen(t) \/ Stamp(t) \/ Write(t) \/ WriteFails(t)

Next == (\E t \in Threads : Log(t)) \/ Tick \/ Rotate \/ Toggle

Spec == Init /\ [][Next]_vars

-----------------------------------------------------------------------------
(* Properties.                                                             *)

(* A message that is written is not written to a file that was moved away  *)
(* three seconds or more before it was made (log.cc:408-411), whoever else *)
(* uses the appender and sets m_lastTime meanwhile.                        *)
RotationNoticed ==
  [][\A t \in Threads :
       pc[t] = "write" /\ pc'[t] = "idle" /\ m_filestream.good =>
         \A g \in 1 .. file :
           since[g] <= now[t] - 3 => g <= m_filestream.file]_vars

(* As long as no write fails, a message is lost only if the path could not *)
(* be opened at some time since three seconds before it was made           *)
(* (log.cc:408-411, 441-443).                                              *)
LossExplained ==
  \A t \in Threads :
    pc[t] = "write" /\ ~ m_filestream.good /\ ~ failed =>
      unopenable > now[t] - 3

(* log.h:260 says of reopen(): "opens the file again".  It must, if the    *)
(* path can be opened.                                                     *)
ReopenOpens ==
  [][\A t \in Threads :
       pc[t] = "reopen" /\ pc'[t] = "stamp" /\ openable =>
         m_filestream' = [file |-> file, good |-> TRUE]]_vars
=============================================================================
