--------------------------- MODULE ScopedLockProofs ---------------------------
(***************************************************************************)
(* Scoped locks work, on a mutex or a read/write lock and for any number   *)
(* of threads and increments, until a guard that is not locked reaches the *)
(* end of its scope.                                                       *)
(***************************************************************************)
EXTENDS ScopedLock, TLAPS, FiniteSetTheorems

Readers == {t \in Threads : m_locked[t] /\ mode[t] = "read"}
Writers == {t \in Threads : m_locked[t] /\ mode[t] = "write"}

(* The lock knows its writer and the number of its readers.                *)
LockInv ==
  /\ m_readers = Cardinality(Readers)
  /\ Writers = IF m_writer = Nobody THEN {} ELSE {m_writer}
  /\ m_writer # Nobody => Readers = {}

(* A locked guard is in scope, and one whose user has loaded is locked.    *)
ScopeInv ==
  \A t \in Threads :
    /\ m_locked[t] => pc[t] # "out"
    /\ pc[t] = "loaded" => m_locked[t]

(* The guards of a mutex are exclusive ones.                               *)
ModeInv == kind = "mutex" => \A t \in Threads : mode[t] = "write"

IInv ==
  /\ TypeOK /\ ScopeInv /\ ModeInv
  /\ ~ abandoned => LockInv /\ CountExact

-----------------------------------------------------------------------------
LEMMA TypeStep == TypeOK /\ [Next]_vars => TypeOK'
<1> SUFFICES ASSUME TypeOK, [Next]_vars PROVE TypeOK'
  OBVIOUS
<1> USE ScopedLockAssumption DEF TypeOK, lockVars, dataVars, Modes
<1>1. ASSUME NEW t \in Threads, NEW m \in Modes, Take(t, m)
      PROVE  /\ kind' \in {"mutex", "rwmutex"}
             /\ m_writer' \in Threads \cup {Nobody}
             /\ m_readers' \in 0 .. MaxReaders
  BY <1>1 DEF Take, rdlock, wrlock, Up
<1>2. ASSUME NEW t \in Threads, unlock(t)
      PROVE  /\ kind' \in {"mutex", "rwmutex"}
             /\ m_writer' \in Threads \cup {Nobody}
             /\ m_readers' \in 0 .. MaxReaders
  BY <1>2 DEF unlock, Down
<1>3. ASSUME NEW t \in Threads, NEW m \in Modes, Construct(t, m)
      PROVE TypeOK'
  BY <1>3, <1>1 DEF Construct
<1>4. ASSUME NEW t \in Threads, LockAgain(t) PROVE TypeOK'
  <2>1. mode[t] \in Modes
    OBVIOUS
  <2> QED
    BY <1>4, <1>1, <2>1 DEF LockAgain
<1>5. ASSUME NEW t \in Threads, Unlock(t) PROVE TypeOK'
  BY <1>5, <1>2 DEF Unlock
<1>6. ASSUME NEW t \in Threads, Destroy(t) PROVE TypeOK'
  <2>1. abandoned' \in BOOLEAN
    BY <1>6, Zenon DEF Destroy
  <2> QED
    BY <1>6, <1>2, <2>1 DEF Destroy
<1>7. ASSUME NEW t \in Threads, Load(t) \/ Store(t) \/ LookedAt(t)
      PROVE TypeOK'
  BY <1>7 DEF Load, Store, LookedAt
<1>8. CASE UNCHANGED vars
  BY <1>8 DEF vars
<1> QED
  BY <1>3, <1>4, <1>5, <1>6, <1>7, <1>8 DEF Next

(* How the sets of the readers and of the writers change when a guard      *)
(* takes the lock; and that the lock goes on knowing them.                 *)
LEMMA Taking ==
  ASSUME IInv, ~ abandoned, NEW t \in Threads, NEW m \in Modes,
         ~ m_locked[t], Take(t, m), kind = "mutex" => m = "write",
         m_locked' = [m_locked EXCEPT ![t] = TRUE],
         mode' = [mode EXCEPT ![t] = m]
  PROVE  /\ LockInv'
         /\ \/ /\ Writers = {}
               /\ Readers' = Readers \cup {t} /\ Writers' = Writers
            \/ /\ Writers = {} /\ Readers = {}
               /\ Writers' = {t} /\ Readers' = Readers
<1> USE DEF IInv, TypeOK, Modes
<1>1. m_writer = Nobody /\ Writers = {}
  BY DEF LockInv, Take, rdlock, wrlock
<1>2. IsFiniteSet(Readers) /\ t \notin Readers
      /\ Cardinality(Readers) <= Cardinality(Threads)
      /\ Cardinality(Readers) \in Nat /\ Cardinality(Threads) \in Nat
  BY ScopedLockAssumption, FS_Subset, FS_CardinalityType DEF Readers
<1>3. CASE m = "read"
  <2>1. Readers' = Readers \cup {t} /\ Writers' = Writers
    BY <1>3 DEF Readers, Writers
  <2>2. m_readers' = m_readers + 1 /\ m_writer' = Nobody
    BY <1>1, <1>2, <1>3, ScopedLockAssumption
       DEF Take, rdlock, Up, LockInv
  <2>3. Cardinality(Readers') = Cardinality(Readers) + 1
    BY <1>2, <2>1, FS_AddElement
  <2>4. LockInv'
    BY <1>1, <2>1, <2>2, <2>3 DEF LockInv
  <2> QED
    BY <1>1, <2>1, <2>4
<1>4. CASE m = "write"
  <2>1. Readers = {} /\ m_writer' = t /\ m_readers' = 0
    BY <1>2, <1>4, FS_EmptySet DEF Take, wrlock, LockInv
  <2>2. Readers' = Readers /\ Writers' = {t}
    BY <1>1, <1>4, <2>1 DEF Readers, Writers
  <2>3. LockInv'
    BY <2>1, <2>2, FS_EmptySet, ScopedLockAssumption DEF LockInv
  <2> QED
    BY <1>1, <2>1, <2>2, <2>3
<1> QED
  BY <1>3, <1>4

(* The same for a guard that is locked and gives the lock back.            *)
LEMMA Giving ==
  ASSUME IInv, ~ abandoned, NEW t \in Threads,
         m_locked[t], unlock(t),
         m_locked' = [m_locked EXCEPT ![t] = FALSE], mode' = mode
  PROVE  /\ LockInv'
         /\ t \in Readers \cup Writers
         /\ Readers' = Readers \ {t} /\ Writers' = Writers \ {t}
<1> USE DEF IInv, TypeOK, Modes
<1>1. t \in Readers \cup Writers
      /\ Readers' = Readers \ {t} /\ Writers' = Writers \ {t}
  BY DEF Readers, Writers
<1>2. IsFiniteSet(Readers) /\ Cardinality(Readers) \in Nat
  BY ScopedLockAssumption, FS_Subset, FS_CardinalityType DEF Readers
<1>3. CASE mode[t] = "write"
  <2>1. m_writer = t /\ t \notin Readers
    BY <1>3, ScopedLockAssumption DEF LockInv, Writers, Readers
  <2>2. m_writer' = Nobody /\ m_readers' = m_readers
    BY <2>1 DEF unlock
  <2>3. Readers' = Readers /\ Writers' = {}
    BY <1>1, <2>1, ScopedLockAssumption DEF LockInv
  <2>4. LockInv'
    BY <2>2, <2>3 DEF LockInv
  <2> QED
    BY <1>1, <2>4
<1>4. CASE mode[t] = "read"
  <2>1. t \in Readers /\ m_writer = Nobody /\ Writers = {}
        /\ kind = "rwmutex"
    BY <1>4 DEF LockInv, Readers, ModeInv
  <2>2. Cardinality(Readers') = Cardinality(Readers) - 1
    BY <1>1, <1>2, <2>1, FS_RemoveElement
  <2>3. Cardinality(Readers) # 0
    BY <1>2, <2>1, FS_EmptySet
  <2>4. m_readers' = m_readers - 1 /\ m_writer' = Nobody
    BY <2>1, <2>3, ScopedLockAssumption DEF unlock, Down, LockInv
  <2>5. LockInv'
    BY <1>1, <2>1, <2>2, <2>4 DEF LockInv
  <2> QED
    BY <1>1, <2>5
<1> QED
  BY <1>3, <1>4

(* What one locked guard says of the others.                               *)
LEMMA Exclusion == IInv => GuardTellsTruth
BY ScopedLockAssumption
   DEF IInv, TypeOK, Modes, LockInv, Readers, Writers, GuardTellsTruth

-----------------------------------------------------------------------------
LEMMA LockStep == IInv /\ [Next]_vars => IInv'
<1> SUFFICES ASSUME IInv, [Next]_vars PROVE IInv'
  OBVIOUS
<1>0. TypeOK'
  BY TypeStep DEF IInv
<1> USE DEF IInv, TypeOK, ScopeInv, ModeInv, CountExact, dataVars
<1>1. ASSUME NEW t \in Threads, NEW m \in Modes, Construct(t, m) PROVE IInv'
  <2>1. ~ m_locked[t]
    BY <1>1 DEF Construct
  <2>2. kind' = kind
    BY <1>1 DEF Construct, Take, rdlock, wrlock
  <2>3. ScopeInv' /\ ModeInv'
    BY <1>1, <2>2 DEF Construct
  <2>4. ~ abandoned' => LockInv'
    BY <1>1, <2>1, Taking DEF Construct
  <2> QED
    BY <1>0, <1>1, <2>3, <2>4 DEF Construct
<1>2. ASSUME NEW t \in Threads, LockAgain(t) PROVE IInv'
  <2>1. mode' = [mode EXCEPT ![t] = mode[t]] /\ mode[t] \in Modes
    BY <1>2 DEF LockAgain
  <2>2. kind' = kind
    BY <1>2 DEF LockAgain, Take, rdlock, wrlock
  <2>3. ScopeInv' /\ ModeInv'
    BY <1>2, <2>2 DEF LockAgain
  <2>4. ~ abandoned' => LockInv'
    BY <1>2, <2>1, Taking DEF LockAgain
  <2> QED
    BY <1>0, <1>2, <2>3, <2>4 DEF LockAgain
<1>3. ASSUME NEW t \in Threads, Unlock(t) \/ Destroy(t) PROVE IInv'
  <2>1. kind' = kind /\ mode' = mode
    BY <1>3 DEF Unlock, Destroy, unlock
  <2>2. ScopeInv' /\ ModeInv'
    BY <1>3, <2>1 DEF Unlock, Destroy
  <2>3. ~ abandoned' => LockInv'
    BY <1>3, Giving DEF Unlock, Destroy
  <2>4. ~ abandoned' => CountExact'
    BY <1>3 DEF Unlock, Destroy
  <2> QED
    BY <1>0, <2>2, <2>3, <2>4
<1>4. ASSUME NEW t \in Threads, Load(t) \/ LookedAt(t) PROVE IInv'
  <2>1. UNCHANGED <<lockVars, mode, m_locked, abandoned>>
    BY <1>4 DEF Load, LookedAt
  <2>2. LockInv => LockInv'
    BY <2>1 DEF LockInv, Readers, Writers, lockVars
  <2> QED
    BY <1>0, <1>4, <2>1, <2>2 DEF Load, LookedAt, lockVars
<1>5. ASSUME NEW t \in Threads, Store(t) PROVE IInv'
  <2>1. UNCHANGED <<lockVars, mode, m_locked, abandoned>>
    BY <1>5 DEF Store
  <2>2. LockInv => LockInv'
    BY <2>1 DEF LockInv, Readers, Writers, lockVars
  <2>3. ~ abandoned => \A s \in Threads \ {t} : pc[s] # "loaded"
    BY <1>5, Exclusion DEF Store, GuardTellsTruth
  <2> QED
    BY <1>0, <1>5, <2>1, <2>2, <2>3 DEF Store, lockVars
<1>6. CASE UNCHANGED vars
  <2>1. LockInv => LockInv'
    BY <1>6 DEF LockInv, Readers, Writers, lockVars, vars
  <2> QED
    BY <1>0, <1>6, <2>1 DEF vars, lockVars
<1> QED
  BY <1>1, <1>2, <1>3, <1>4, <1>5, <1>6 DEF Next

LEMMA InitIInv == Init => IInv
<1> SUFFICES ASSUME Init PROVE IInv
  OBVIOUS
<1>1. TypeOK
  <2>1. m_locked \in [Threads -> BOOLEAN] /\ abandoned \in BOOLEAN
    BY Zenon DEF Init
  <2>2. done \in 0 .. MaxCount /\ m_readers \in 0 .. MaxReaders
    BY ScopedLockAssumption DEF Init
  <2> QED
    BY <2>1, <2>2 DEF Init, TypeOK, Modes
<1>2. \A t \in Threads : ~ m_locked[t] /\ pc[t] = "out" /\ mode[t] = "write"
  BY DEF Init
<1>3. Readers = {} /\ Writers = {}
  BY <1>2 DEF Readers, Writers
<1>4. LockInv
  BY <1>3, FS_EmptySet DEF Init, LockInv
<1> QED
  BY <1>1, <1>2, <1>4 DEF Init, IInv, ScopeInv, ModeInv, CountExact

LEMMA Inductive == Spec => []IInv
BY InitIInv, LockStep, PTL DEF Spec

-----------------------------------------------------------------------------
(* Until a guard is abandoned, a locked one excludes all others, or all    *)
(* but other readers (thread.h:96-239).                                    *)
THEOREM GuardsTellTruth == Spec => []GuardTellsTruth
BY Inductive, Exclusion, PTL

(* No increment made under a scoped lock is lost                           *)
(* (tests/test_thread.cc:25-32), and what is read under one stays.         *)
THEOREM CountIsExact == Spec => []CountExact
<1>1. IInv => CountExact
  BY DEF IInv, CountExact
<1> QED
  BY Inductive, <1>1, PTL

(* The guards of any number of threads implement a read/write lock: every  *)
(* step acquires, releases, leaves the holders alone or is a misuse        *)
(* (thread.h:96-280).                                                      *)
THEOREM Refinement == Spec => ImplementsReadWriteLock
<1> DEFINE R == {t \in Threads : m_locked[t] /\ mode[t] = "read"}
           W == {t \in Threads : m_locked[t] /\ mode[t] = "write"}
<1>1. Init => Abstract!Init
  BY DEF Init, Abstract!Init
<1>2. IInv /\ [Next]_vars => [Abstract!Next]_(Abstract!vars)
  <2> SUFFICES ASSUME IInv, [Next]_vars
               PROVE  [Abstract!Next]_(Abstract!vars)
    OBVIOUS
  <2>0. R = Readers /\ W = Writers /\ R' = Readers' /\ W' = Writers'
    BY DEF Readers, Writers
  <2> USE DEF IInv, TypeOK, Abstract!Next
  <2>1. CASE abandoned'
    BY <2>1 DEF Abstract!Misuse
  <2>2. ASSUME ~ abandoned', NEW t \in Threads, NEW m \in Modes,
               Construct(t, m) \/ (LockAgain(t) /\ m = mode[t])
        PROVE Abstract!AcquireRead(t) \/ Abstract!AcquireWrite(t)
    <3>1. ~ m_locked[t] /\ ~ abandoned /\ Take(t, m)
          /\ (kind = "mutex" => m = "write")
      BY <2>2 DEF Construct, LockAgain, ScopeInv, ModeInv
    <3>2. m_locked' = [m_locked EXCEPT ![t] = TRUE]
          /\ mode' = [mode EXCEPT ![t] = m]
      BY <2>2 DEF Construct, LockAgain
    <3> HIDE DEF R, W
    <3>3. \/ W = {} /\ R' = R \cup {t} /\ W' = W
          \/ W = {} /\ R = {} /\ W' = {t} /\ R' = R
      BY <2>0, <3>1, <3>2, Taking
    <3>4. abandoned' = abandoned
      BY <2>2 DEF Construct, LockAgain
    <3> QED
      BY <3>3, <3>4 DEF R, W, Abstract!AcquireRead, Abstract!AcquireWrite
  <2>3. ASSUME ~ abandoned', NEW t \in Threads, Unlock(t) \/ Destroy(t)
        PROVE Abstract!Release(t)
    <3>1. m_locked[t] /\ ~ abandoned /\ unlock(t) /\ mode' = mode
          /\ m_locked' = [m_locked EXCEPT ![t] = FALSE]
      <4>1. CASE Unlock(t)
        BY <2>3, <4>1 DEF Unlock
      <4>2. CASE Destroy(t)
        <5>1. abandoned' = (abandoned \/ ~ m_locked[t])
          BY <4>2 DEF Destroy
        <5>2. ~ abandoned /\ m_locked[t]
          BY <2>3, <5>1, Zenon
        <5> QED
          BY <4>2, <5>2 DEF Destroy
      <4> QED
        BY <2>3, <4>1, <4>2
    <3> HIDE DEF R, W
    <3>2. t \in R \cup W /\ R' = R \ {t} /\ W' = W \ {t}
      BY <2>0, <3>1, Giving
    <3>3. abandoned' = abandoned
      BY <2>3, <3>1 DEF Unlock, Destroy
    <3> QED
      BY <3>2, <3>3 DEF R, W, Abstract!Release
  <2>4. ASSUME NEW t \in Threads, Load(t) \/ Store(t) \/ LookedAt(t)
        PROVE UNCHANGED Abstract!vars
    BY <2>4 DEF Load, Store, LookedAt, Abstract!vars
  <2>5. CASE UNCHANGED vars
    BY <2>5 DEF vars, Abstract!vars
  <2>6. \A t \in Threads : mode[t] \in Modes
    OBVIOUS
  <2> QED
    BY <2>1, <2>2, <2>3, <2>4, <2>5, <2>6 DEF Next
<1> QED
  BY Inductive, <1>1, <1>2, PTL
     DEF Spec, ImplementsReadWriteLock, Abstract!Spec
=============================================================================
