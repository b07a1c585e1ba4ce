------------------------------ MODULE ScopedLock ------------------------------
(***************************************************************************)
(* The guards of mumu/thread.h on a lock shared by several threads that    *)
(* increment a counter under it, as fun1 of tests/test_thread.cc:20-33     *)
(* does, or read it.                                                       *)
(*                                                                         *)
(* The lock is one of two kinds.  A "mutex" (Mutex, SpinLock, CASLock) is  *)
(* a word that is set or clear, and does not ask who clears it.  An        *)
(* "rwmutex" (RWMutex) keeps its writer and a number of readers; whoever   *)
(* unlocks it and is not the writer counts as a reader.  ScopedLockTmpl    *)
(* guards a mutex, ReadScopedLockTmpl and WriteScopedLockTmpl an rwmutex;  *)
(* their code is the same but for the function that locks, so a guard has  *)
(* a mode here, and that of a mutex is "write".                            *)
(*                                                                         *)
(* A guard can be unlocked and locked again before its scope ends; its     *)
(* users touch the counter only while it says that it is locked.           *)
(***************************************************************************)
EXTENDS Naturals, FiniteSets

CONSTANTS
  Threads,
  Nobody,      \* the lock has no writer
  MaxReaders,  \* the largest number of readers the lock can count
  MaxCount     \* bound: increments made over a behaviour

ASSUME ScopedLockAssumption ==
  /\ IsFiniteSet(Threads)
  /\ Nobody \notin Threads
  /\ MaxReaders \in Nat /\ Cardinality(Threads) < MaxReaders
  /\ MaxCount \in Nat

VARIABLES
  kind,      \* the kind of the lock
  m_writer,  \* the writer of an rwmutex; who set the word of a mutex
  m_readers, \* the number of readers
  mode,      \* per thread: the kind of its guard
  m_locked,  \* per thread: the guard's flag (FALSE without a guard)
  pc,        \* per thread: "out" of scope, "in" scope, "loaded" the counter
  reg,       \* per thread: the counter as loaded
  count,     \* the counter
  done,      \* history: the increments completed
  abandoned  \* history: the scope of a guard that was not locked has ended

lockVars == <<kind, m_writer, m_readers>>
dataVars == <<reg, count, done>>
vars == <<lockVars, mode, m_locked, pc, dataVars, abandoned>>

Modes == {"read", "write"}

TypeOK ==
  /\ kind \in {"mutex", "rwmutex"}
  /\ m_writer \in Threads \cup {Nobody}
  /\ m_readers \in 0 .. MaxReaders
  /\ mode \in [Threads -> Modes]
  /\ m_locked \in [Threads -> BOOLEAN]
  /\ pc \in [Threads -> {"out", "in", "loaded"}]
  /\ reg \in [Threads -> Nat]
  /\ count \in Nat
  /\ done \in 0 .. MaxCount
  /\ abandoned \in BOOLEAN

Init ==
  /\ kind \in {"mutex", "rwmutex"}
  /\ m_writer = Nobody
  /\ m_readers = 0
  /\ mode = [t \in Threads |-> "write"]
  /\ m_locked = [t \in Threads |-> FALSE]
  /\ pc = [t \in Threads |-> "out"]
  /\ reg = [t \in Threads |-> 0]
  /\ count = 0
  /\ done = 0
  /\ abandoned = FALSE

-----------------------------------------------------------------------------
(* The lock itself.  The number of readers is unsigned and wraps.          *)
Up(n) == IF n = MaxReaders THEN 0 ELSE n + 1
Down(n) == IF n = 0 THEN MaxReaders ELSE n - 1

(* rdlock(): returns once there is no writer.                              *)
rdlock ==
  /\ m_writer = Nobody
  /\ m_readers' = Up(m_readers)
  /\ UNCHANGED <<kind, m_writer>>

(* Mutated form: a writer does not wait for the readers.                   *)
wrlock_ReadersIgnored(t) ==
  /\ m_writer = Nobody
  /\ m_writer' = t
  /\ UNCHANGED <<kind, m_readers>>

(* wrlock() and lock(): they return once they find nobody there, and take  *)
(* the lock in the same step.                                              *)
wrlock(t) ==
  /\ m_writer = Nobody /\ m_readers = 0
  /\ m_writer' = t
  /\ UNCHANGED <<kind, m_readers>>

(* What a guard of mode m calls to lock.                                   *)
Take(t, m) == IF m = "read" THEN rdlock ELSE wrlock(t)

unlock(t) ==
  /\ \/ /\ kind = "mutex" \/ m_writer = t
        /\ m_writer' = Nobody
        /\ UNCHANGED m_readers
     \/ /\ kind = "rwmutex" /\ m_writer # t
        /\ m_readers' = Down(m_readers)
        /\ UNCHANGED m_writer
  /\ UNCHANGED kind

-----------------------------------------------------------------------------
(* The guards.                                                             *)

Construct(t, m) ==
  /\ pc[t] = "out"
  /\ kind = "mutex" => m = "write"
  /\ Take(t, m)
  /\ mode' = [mode EXCEPT ![t] = m]
  /\ m_locked' = [m_locked EXCEPT ![t] = TRUE]
  /\ pc' = [pc EXCEPT ![t] = "in"]
  /\ UNCHANGED <<dataVars, abandoned>>

(* Mutated form: lock() does not test m_locked and does not wait.          *)
LockAgain_NotTaken(t) ==
  /\ pc[t] = "in"
  /\ ~ m_locked[t]
  /\ m_locked' = [m_locked EXCEPT ![t] = TRUE]
  /\ UNCHANGED <<lockVars, mode, pc, dataVars, abandoned>>

(* lock(), rdlock(), wrlock(): without effect while m_locked.              *)
LockAgain(t) ==
  /\ pc[t] = "in"
  /\ ~ m_locked[t]
  /\ Take(t, mode[t])
  /\ m_locked' = [m_locked EXCEPT ![t] = TRUE]
  /\ UNCHANGED <<mode, pc, dataVars, abandoned>>

(* Mutated form: unlock() leaves m_locked set.                             *)
Unlock_KeepsFlag(t) ==
  /\ pc[t] = "in"
  /\ m_locked[t]
  /\ unlock(t)
  /\ UNCHANGED <<mode, m_locked, pc, dataVars, abandoned>>

(* unlock(): without effect unless m_locked.                               *)
Unlock(t) ==
  /\ pc[t] = "in"
  /\ m_locked[t]
  /\ unlock(t)
  /\ m_locked' = [m_locked EXCEPT ![t] = FALSE]
  /\ UNCHANGED <<mode, pc, dataVars, abandoned>>

(* The destructor unlocks whatever m_locked says.                          *)
Destroy(t) ==
  /\ pc[t] = "in"
  /\ unlock(t)
  /\ m_locked' = [m_locked EXCEPT ![t] = FALSE]
  /\ pc' = [pc EXCEPT ![t] = "out"]
  /\ abandoned' = (abandoned \/ ~ m_locked[t])
  /\ UNCHANGED <<mode, dataVars>>

-----------------------------------------------------------------------------
(* ++count, or a look at it.                                               *)
Load(t) ==
  /\ pc[t] = "in"
  /\ m_locked[t]
  /\ reg' = [reg EXCEPT ![t] = count]
  /\ pc' = [pc EXCEPT ![t] = "loaded"]
  /\ UNCHANGED <<lockVars, mode, m_locked, count, done, abandoned>>

Store(t) ==
  /\ pc[t] = "loaded"
  /\ mode[t] = "write"
  /\ done < MaxCount
  /\ count' = reg[t] + 1
  /\ done' = done + 1
  /\ pc' = [pc EXCEPT ![t] = "in"]
  /\ UNCHANGED <<lockVars, mode, m_locked, reg, abandoned>>

LookedAt(t) ==
  /\ pc[t] = "loaded"
  /\ mode[t] = "write" => done = MaxCount
  /\ pc' = [pc EXCEPT ![t] = "in"]
  /\ UNCHANGED <<lockVars, mode, m_locked, dataVars, abandoned>>

-----------------------------------------------------------------------------
Next ==
  \E t \in Threads :
    \/ \E m \in Modes : Construct(t, m)
    \/ LockAgain(t) \/ Unlock(t) \/ Destroy(t)
    \/ Load(t) \/ Store(t) \/ LookedAt(t)

Spec == Init /\ [][Next]_vars

-----------------------------------------------------------------------------
(* Properties.  A guard that is not locked when its scope ends gives back  *)
(* what it does not hold (thread.h:107-111, 175-179, 214-218), and takes   *)
(* the lock from somebody else or confuses the number of its readers.      *)
(* Nothing is promised after that.                                         *)

(* A guard that says it is locked is ("whether it is locked",              *)
(* thread.h:130): it excludes the others, unless all of them only read.    *)
GuardTellsTruth ==
  ~ abandoned =>
    \A s, t \in Threads :
      /\ m_locked[t] /\ mode[t] = "write" => m_writer = t
      /\ m_locked[s] /\ m_locked[t] /\ s # t =>
           mode[s] = "read" /\ mode[t] = "read" /\ m_writer = Nobody

(* No increment is lost, which is what fun1 of tests/test_thread.cc is     *)
(* about, and what was read under a guard is so until the guard lets go.   *)
CountExact ==
  ~ abandoned =>
    /\ count = done
    /\ \A t \in Threads : pc[t] = "loaded" => reg[t] = count

(* The guards of several threads together are a read/write lock.           *)
Abstract == INSTANCE ReadWriteLock
              WITH readers <- {t \in Threads : m_locked[t] /\ mode[t] = "read"},
                   writers <- {t \in Threads : m_locked[t] /\ mode[t] = "write"},
                   misused <- abandoned

ImplementsReadWriteLock == Abstract!Spec
=============================================================================
