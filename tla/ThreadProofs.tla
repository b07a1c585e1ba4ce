----------------------------- MODULE ThreadProofs -----------------------------
(***************************************************************************)
(* The handshake between the constructor and run(), and what join and the  *)
(* destructor rely on, for any number of Thread objects and joiners.       *)
(***************************************************************************)
EXTENDS Thread, TLAPS

(* How far run() has got, by what it has done to the object.               *)
RunInv ==
  \A o \in Threads :
    /\ child[o] = "none" => obj[o] \in {"none", "unwound"} /\ sem[o] = 0
    /\ child[o] \in {"swap", "notify", "callback", "exited"} => m_id[o]
    /\ child[o] \in {"notify", "callback", "exited"} => ~ m_cb[o]
    /\ sem[o] > 0 => child[o] \in {"callback", "exited"}
    /\ obj[o] = "none" => child[o] = "none"
    /\ child[o] \in {"start", "swap", "notify"} =>
         obj[o] = "waiting" \/ (SemWaitMayFail /\ obj[o] = "unwound")

(* A thread is joined with only while the object lives; it has exited when *)
(* the handle is zero or join has reaped it.                               *)
JoinInv ==
  \A o \in Threads :
    /\ obj[o] = "waiting" => m_thread[o]
    /\ obj[o] = "alive" /\ ~ m_thread[o] => child[o] = "exited"
    /\ \A j \in Joiners :
         /\ joinpc[j][o] # "out" => obj[o] = "alive"
         /\ joinpc[j][o] = "reaped" => child[o] = "exited"
         /\ joined[j][o] = "returned" => child[o] = "exited"

(* A join that threw found another one under way, or the thread reaped.    *)
ThrownInv ==
  \A o \in Threads :
    /\ os[o] = "reaped" => child[o] = "exited"
    /\ os[o] = "detached" => obj[o] = "gone"
    /\ obj[o] \in {"waiting", "alive"} => os[o] # "none"
    /\ \A j \in Joiners :
         joined[j][o] = "thrown" => child[o] = "exited" \/ Joining(o)

IInv == TypeOK /\ RunInv /\ JoinInv

-----------------------------------------------------------------------------
(* Step keeps the type of a table of joiners and objects.                  *)
LEMMA StepType ==
  ASSUME NEW S, NEW pc \in [Joiners -> [Threads -> S]], NEW to \in S,
         NEW j \in Joiners, NEW o \in Threads
  PROVE  Step(pc, j, o, to) \in [Joiners -> [Threads -> S]]
BY DEF Step

(* What Step does to the two tables.                                       *)
JoinPcs == {"out", "checked", "inside", "reaped"}
JoinEnds == {"never", "returned", "thrown"}

LEMMA JoinTables ==
  ASSUME TypeOK, NEW j \in Joiners, NEW o \in Threads
  PROVE  /\ \A to \in JoinPcs : \A k \in Joiners, p \in Threads :
              Step(joinpc, j, o, to)[k][p] =
                IF k = j /\ p = o THEN to ELSE joinpc[k][p]
         /\ \A to \in JoinEnds : \A k \in Joiners, p \in Threads :
              Step(joined, j, o, to)[k][p] =
                IF k = j /\ p = o THEN to ELSE joined[k][p]
<1>1. joinpc \in [Joiners -> [Threads -> JoinPcs]]
  BY DEF TypeOK, JoinPcs
<1>2. joined \in [Joiners -> [Threads -> JoinEnds]]
  BY DEF TypeOK, JoinEnds
<1>3. ASSUME NEW to \in JoinPcs
      PROVE  \A k \in Joiners, p \in Threads :
               Step(joinpc, j, o, to)[k][p] =
                 IF k = j /\ p = o THEN to ELSE joinpc[k][p]
  BY <1>1 DEF Step
<1>4. ASSUME NEW to \in JoinEnds
      PROVE  \A k \in Joiners, p \in Threads :
               Step(joined, j, o, to)[k][p] =
                 IF k = j /\ p = o THEN to ELSE joined[k][p]
  BY <1>2 DEF Step
<1> QED
  BY <1>3, <1>4

LEMMA TypeStep == TypeOK /\ RunInv /\ [Next]_vars => TypeOK'
<1> SUFFICES ASSUME TypeOK, RunInv, [Next]_vars PROVE TypeOK'
  OBVIOUS
<1> USE DEF TypeOK, joinVars, objVars
<1>1. ASSUME NEW o \in Threads, Create(o) \/ CreateFails(o) PROVE TypeOK'
  <2>1. CASE Create(o)
    BY <2>1 DEF Create
  <2>2. CASE CreateFails(o)
    BY <2>2 DEF CreateFails
  <2> QED
    BY <1>1, <2>1, <2>2
<1>2. ASSUME NEW o \in Threads, WaitReturns(o) \/ WaitFails(o) PROVE TypeOK'
  <2>1. CASE WaitReturns(o)
    BY <2>1 DEF WaitReturns
  <2>2. CASE WaitFails(o)
    BY <2>2 DEF WaitFails
  <2> QED
    BY <1>2, <2>1, <2>2
<1>3. ASSUME NEW o \in Threads, Run(o) \/ RunReturns(o) PROVE TypeOK'
  <2>1. CASE RunStart(o)
    BY <2>1 DEF RunStart
  <2>2. CASE RunSwap(o)
    BY <2>2 DEF RunSwap
  <2>3. CASE RunNotify(o)
    BY <2>3 DEF RunNotify, RunInv
  <2>4. CASE RunReturns(o)
    BY <2>4 DEF RunReturns
  <2> QED
    BY <1>3, <2>1, <2>2, <2>3, <2>4 DEF Run
<1>4. ASSUME NEW o \in Threads, Destroy(o) PROVE TypeOK'
  BY <1>4 DEF Destroy
<1>5. ASSUME NEW o \in Threads, NEW j \in Joiners, Join(j, o) PROVE TypeOK'
  <2> DEFINE S == {"out", "checked", "inside", "reaped"}
             R == {"never", "returned", "thrown"}
  <2>1. \A to \in S : Step(joinpc, j, o, to) \in [Joiners -> [Threads -> S]]
    BY StepType
  <2>2. \A to \in R : Step(joined, j, o, to) \in [Joiners -> [Threads -> R]]
    BY StepType
  <2>3. CASE JoinZero(j, o) \/ JoinCheck(j, o) \/ JoinEnter(j, o)
    BY <2>1, <2>2, <2>3 DEF JoinZero, JoinCheck, JoinEnter
  <2>4. CASE JoinFails(j, o) \/ JoinReaps(j, o)
    BY <2>1, <2>2, <2>4 DEF JoinFails, JoinReaps
  <2>5. CASE JoinReturns(j, o)
    BY <2>1, <2>2, <2>5 DEF JoinReturns
  <2> QED
    BY <1>5, <2>3, <2>4, <2>5 DEF Join
<1>6. CASE UNCHANGED vars
  BY <1>6 DEF vars
<1> QED
  BY <1>1, <1>2, <1>3, <1>4, <1>5, <1>6 DEF Next

LEMMA RunStep == IInv /\ [Next]_vars => RunInv'
<1> SUFFICES ASSUME IInv, [Next]_vars PROVE RunInv'
  OBVIOUS
<1> USE DEF IInv, TypeOK, RunInv, objVars
<1>1. ASSUME NEW o \in Threads, Create(o) \/ CreateFails(o) PROVE RunInv'
  BY <1>1 DEF Create, CreateFails
<1>2. ASSUME NEW o \in Threads, WaitReturns(o) \/ WaitFails(o) PROVE RunInv'
  BY <1>2 DEF WaitReturns, WaitFails
<1>3. ASSUME NEW o \in Threads, Run(o) PROVE RunInv'
  BY <1>3 DEF Run, RunStart, RunSwap, RunNotify
<1>4. ASSUME NEW o \in Threads, RunReturns(o) \/ Destroy(o) PROVE RunInv'
  BY <1>4 DEF RunReturns, Destroy, LastReferenceGoes
<1>5. ASSUME NEW o \in Threads, NEW j \in Joiners, Join(j, o) PROVE RunInv'
  BY <1>5 DEF Join, JoinZero, JoinCheck, JoinEnter, JoinFails, JoinReaps,
              JoinReturns
<1>6. CASE UNCHANGED vars
  BY <1>6 DEF vars
<1> QED
  BY <1>1, <1>2, <1>3, <1>4, <1>5, <1>6 DEF Next

LEMMA JoinStep == IInv /\ [Next]_vars => JoinInv'
<1> SUFFICES ASSUME IInv, [Next]_vars PROVE JoinInv'
  OBVIOUS
<1> USE DEF IInv, TypeOK, JoinInv, objVars, joinVars
<1>1. ASSUME NEW o \in Threads, Create(o) \/ CreateFails(o) PROVE JoinInv'
  BY <1>1 DEF Create, CreateFails, RunInv
<1>2. ASSUME NEW o \in Threads, WaitReturns(o) \/ WaitFails(o) PROVE JoinInv'
  BY <1>2 DEF WaitReturns, WaitFails
<1>3. ASSUME NEW o \in Threads, Run(o) \/ RunReturns(o) PROVE JoinInv'
  BY <1>3 DEF Run, RunStart, RunSwap, RunNotify, RunReturns
<1>4. ASSUME NEW o \in Threads, Destroy(o) PROVE JoinInv'
  BY <1>4 DEF Destroy, LastReferenceGoes
<1>5. ASSUME NEW o \in Threads, NEW j \in Joiners, Join(j, o) PROVE JoinInv'
  <2>a. \A to \in JoinPcs : \A k \in Joiners, p \in Threads :
          Step(joinpc, j, o, to)[k][p] =
            IF k = j /\ p = o THEN to ELSE joinpc[k][p]
    BY JoinTables
  <2>b. \A to \in JoinEnds : \A k \in Joiners, p \in Threads :
          Step(joined, j, o, to)[k][p] =
            IF k = j /\ p = o THEN to ELSE joined[k][p]
    BY JoinTables
  <2>1. CASE JoinZero(j, o)
    <3>1. \A k \in Joiners, p \in Threads :
            joined'[k][p] = IF k = j /\ p = o THEN "returned"
                            ELSE joined[k][p]
      BY <2>1, <2>b DEF JoinPcs, JoinEnds, JoinZero
    <3> QED
      BY <2>1, <3>1 DEF JoinZero
  <2>2. CASE JoinCheck(j, o) \/ JoinEnter(j, o)
    <3>1. PICK to \in {"checked", "inside"} :
            joinpc' = Step(joinpc, j, o, to)
      BY <2>2 DEF JoinCheck, JoinEnter
    <3>2. \A k \in Joiners, p \in Threads :
            joinpc'[k][p] = IF k = j /\ p = o THEN to ELSE joinpc[k][p]
      BY <3>1, <2>a DEF JoinPcs
    <3>3. obj[o] = "alive" /\ UNCHANGED <<obj, m_thread, child, joined>>
      BY <2>2 DEF JoinCheck, JoinEnter
    <3> QED
      BY <3>1, <3>2, <3>3
  <2>3. CASE JoinFails(j, o)
    <3>1. \A k \in Joiners, p \in Threads :
            /\ joinpc'[k][p] = IF k = j /\ p = o THEN "out"
                               ELSE joinpc[k][p]
            /\ joined'[k][p] = IF k = j /\ p = o THEN "thrown"
                               ELSE joined[k][p]
      BY <2>3, <2>a, <2>b DEF JoinPcs, JoinEnds, JoinFails
    <3> QED
      BY <2>3, <3>1 DEF JoinFails
  <2>4. CASE JoinReaps(j, o)
    <3>1. \A k \in Joiners, p \in Threads :
            joinpc'[k][p] = IF k = j /\ p = o THEN "reaped"
                            ELSE joinpc[k][p]
      BY <2>4, <2>a DEF JoinPcs, JoinReaps
    <3> QED
      BY <2>4, <3>1 DEF JoinReaps
  <2>5. CASE JoinReturns(j, o)
    <3>1. \A k \in Joiners, p \in Threads :
            /\ joinpc'[k][p] = IF k = j /\ p = o THEN "out"
                               ELSE joinpc[k][p]
            /\ joined'[k][p] = IF k = j /\ p = o THEN "returned"
                               ELSE joined[k][p]
      BY <2>5, <2>a, <2>b DEF JoinPcs, JoinEnds, JoinReturns
    <3> QED
      BY <2>5, <3>1 DEF JoinReturns
  <2> QED
    BY <1>5, <2>1, <2>2, <2>3, <2>4, <2>5 DEF Join
<1>6. CASE UNCHANGED vars
  BY <1>6 DEF vars
<1> QED
  BY <1>1, <1>2, <1>3, <1>4, <1>5, <1>6 DEF Next

LEMMA Inductive == Spec => []IInv
<1>1. Init => IInv
  BY DEF Init, IInv, TypeOK, RunInv, JoinInv
<1>2. IInv /\ [Next]_vars => IInv'
  BY TypeStep, RunStep, JoinStep DEF IInv
<1> QED
  BY <1>1, <1>2, PTL DEF Spec

(* Every variable keeps its type (thread.h:49-94).                         *)
THEOREM TypeCorrect == Spec => []TypeOK
BY Inductive, PTL DEF IInv

(* The constructor returns only after run() has taken the callback and     *)
(* recorded the id (thread.cc:73-74, 131-139).                             *)
THEOREM Handshake == Spec => []HandshakeDone
<1>1. IInv => HandshakeDone
  BY DEF IInv, TypeOK, RunInv, HandshakeDone
<1> QED
  BY Inductive, <1>1, PTL

(* run() uses the object only while the constructor waits, or after wait() *)
(* threw (thread.cc:46-48, 128-139).                                       *)
THEOREM RunIsSafe == Spec => []RunTouchesLiveObject
<1>1. IInv => RunTouchesLiveObject
  BY DEF IInv, RunInv, RunTouchesLiveObject
<1> QED
  BY Inductive, <1>1, PTL

(* join returns normally only after the callback has, for any number of    *)
(* joiners (thread.cc:87-100).                                             *)
THEOREM JoinWaits == Spec => []JoinImpliesFinished
<1>1. IInv => JoinImpliesFinished
  BY DEF IInv, JoinInv, JoinImpliesFinished
<1> QED
  BY Inductive, <1>1, PTL

-----------------------------------------------------------------------------
(* Joins that threw.                                                       *)

LEMMA ThrownStep == IInv /\ ThrownInv /\ [Next]_vars => ThrownInv'
<1> SUFFICES ASSUME IInv, ThrownInv, [Next]_vars PROVE ThrownInv'
  OBVIOUS
<1> USE DEF IInv, TypeOK, ThrownInv, Joining, objVars, joinVars
<1>1. ASSUME NEW o \in Threads, Create(o) \/ CreateFails(o) PROVE ThrownInv'
  BY <1>1 DEF Create, CreateFails, RunInv, JoinInv
<1>2. ASSUME NEW o \in Threads, WaitReturns(o) \/ WaitFails(o)
      PROVE ThrownInv'
  BY <1>2 DEF WaitReturns, WaitFails
<1>3. ASSUME NEW o \in Threads, Run(o) \/ RunReturns(o) PROVE ThrownInv'
  BY <1>3 DEF Run, RunStart, RunSwap, RunNotify, RunReturns
<1>4. ASSUME NEW o \in Threads, Destroy(o) PROVE ThrownInv'
  BY <1>4 DEF Destroy, LastReferenceGoes
<1>5. ASSUME NEW o \in Threads, NEW j \in Joiners, Join(j, o)
      PROVE ThrownInv'
  <2>a. \A to \in JoinPcs : \A k \in Joiners, p \in Threads :
          Step(joinpc, j, o, to)[k][p] =
            IF k = j /\ p = o THEN to ELSE joinpc[k][p]
    BY JoinTables
  <2>b. \A to \in JoinEnds : \A k \in Joiners, p \in Threads :
          Step(joined, j, o, to)[k][p] =
            IF k = j /\ p = o THEN to ELSE joined[k][p]
    BY JoinTables
  <2>1. CASE JoinZero(j, o)
    <3>1. \A k \in Joiners, p \in Threads :
            joined'[k][p] = IF k = j /\ p = o THEN "returned"
                            ELSE joined[k][p]
      BY <2>1, <2>b DEF JoinEnds, JoinZero
    <3> QED
      BY <2>1, <3>1 DEF JoinZero
  <2>2. CASE JoinCheck(j, o)
    <3>1. \A k \in Joiners, p \in Threads :
            joinpc'[k][p] = IF k = j /\ p = o THEN "checked"
                            ELSE joinpc[k][p]
      BY <2>2, <2>a DEF JoinPcs, JoinCheck
    <3> QED
      BY <2>2, <3>1 DEF JoinCheck
  <2>3. CASE JoinEnter(j, o)
    <3>1. \A k \in Joiners, p \in Threads :
            joinpc'[k][p] = IF k = j /\ p = o THEN "inside"
                            ELSE joinpc[k][p]
      BY <2>3, <2>a DEF JoinPcs, JoinEnter
    <3>2. UNCHANGED <<obj, os, child, joined>>
      BY <2>3 DEF JoinEnter
    <3>3. ASSUME NEW p \in Threads, Joining(p) PROVE Joining(p)'
      BY <3>1, <3>3
    <3> QED
      <4> HIDE DEF Joining
      <4> QED BY <3>2, <3>3
  <2>4. CASE JoinFails(j, o)
    <3>1. \A k \in Joiners, p \in Threads :
            /\ joinpc'[k][p] = IF k = j /\ p = o THEN "out"
                               ELSE joinpc[k][p]
            /\ joined'[k][p] = IF k = j /\ p = o THEN "thrown"
                               ELSE joined[k][p]
      BY <2>4, <2>a, <2>b DEF JoinPcs, JoinEnds, JoinFails
    <3>2. obj[o] = "alive" /\ (child[o] = "exited" \/ Joining(o))
      BY <2>4 DEF JoinFails, JoinInv
    <3>3. joinpc[j][o] = "checked" /\ UNCHANGED <<obj, os, child>>
      BY <2>4 DEF JoinFails
    <3>4. ASSUME NEW p \in Threads, Joining(p) PROVE Joining(p)'
      BY <3>1, <3>3, <3>4
    <3> QED
      <4> HIDE DEF Joining
      <4> QED BY <3>1, <3>2, <3>3, <3>4
  <2>5. CASE JoinReaps(j, o)
    <3>1. \A k \in Joiners, p \in Threads :
            joinpc'[k][p] = IF k = j /\ p = o THEN "reaped"
                            ELSE joinpc[k][p]
      BY <2>5, <2>a DEF JoinPcs, JoinReaps
    <3> QED
      BY <2>5, <3>1 DEF JoinReaps
  <2>6. CASE JoinReturns(j, o)
    <3>1. \A k \in Joiners, p \in Threads :
            /\ joinpc'[k][p] = IF k = j /\ p = o THEN "out"
                               ELSE joinpc[k][p]
            /\ joined'[k][p] = IF k = j /\ p = o THEN "returned"
                               ELSE joined[k][p]
      BY <2>6, <2>a, <2>b DEF JoinPcs, JoinEnds, JoinReturns
    <3>2. child[o] = "exited" /\ UNCHANGED <<obj, os, child>>
      BY <2>6 DEF JoinReturns, JoinInv
    <3>3. ASSUME NEW p \in Threads, p # o, Joining(p) PROVE Joining(p)'
      BY <3>1, <3>3
    <3> QED
      <4> HIDE DEF Joining
      <4> QED BY <3>1, <3>2, <3>3
  <2> QED
    BY <1>5, <2>1, <2>2, <2>3, <2>4, <2>5, <2>6 DEF Join
<1>6. CASE UNCHANGED vars
  BY <1>6 DEF vars
<1> QED
  BY <1>1, <1>2, <1>3, <1>4, <1>5, <1>6 DEF Next

(* An object that somebody joined outlives its callback, so that GetThis() *)
(* stays valid in it (thread.cc:78-106, 119-121).                          *)
THEOREM JoinedOutlivesCallback == Spec => []GetThisValid
<1> DEFINE G == \A o \in Threads : obj[o] = "gone" =>
                  \A j \in Joiners : joined[j][o] # "never" =>
                    child[o] = "exited"
<1>1. Init => ThrownInv
  <2> SUFFICES ASSUME Init, NEW o \in Threads
               PROVE  /\ obj[o] = "none" /\ os[o] = "none"
                      /\ \A j \in Joiners : joined[j][o] = "never"
    BY DEF ThrownInv
  <2> QED
    BY DEF Init
<1>2. IInv /\ ThrownInv /\ [Next]_vars => ThrownInv'
  BY ThrownStep
<1>3. IInv /\ ThrownInv => G
  BY DEF IInv, TypeOK, ThrownInv, JoinInv, Joining
<1>4. G => GetThisValid
  BY DEF GetThisValid
<1> QED
  BY Inductive, <1>1, <1>2, <1>3, <1>4, PTL DEF Spec

-----------------------------------------------------------------------------
(* Joins that do not cross.                                                *)

(* The handle and the POSIX thread agree, by the only join under way.      *)
HandleOk(o) ==
  /\ obj[o] = "waiting" => os[o] = "joinable"
  /\ ~ crossed[o] =>
       /\ \A j, k \in Joiners :
            joinpc[j][o] # "out" /\ joinpc[k][o] # "out" => j = k
       /\ \A j \in Joiners :
            joinpc[j][o] \in {"checked", "inside"} => os[o] = "joinable"
       /\ obj[o] = "alive" /\ m_thread[o]
            /\ (\A j \in Joiners : joinpc[j][o] = "out") =>
              os[o] = "joinable"

HandleInv == \A o \in Threads : HandleOk(o)

(* A step that leaves an object and the joins of it alone.                 *)
LEMMA HandleElsewhere ==
  ASSUME NEW p, HandleOk(p),
         obj'[p] = obj[p], os'[p] = os[p], m_thread'[p] = m_thread[p],
         crossed'[p] = crossed[p],
         \A k \in Joiners : joinpc'[k][p] = joinpc[k][p]
  PROVE  HandleOk(p)'
BY DEF HandleOk

LEMMA HandleStep == IInv /\ HandleInv /\ [Next]_vars => HandleInv'
<1> SUFFICES ASSUME IInv, HandleInv, [Next]_vars PROVE HandleInv'
  OBVIOUS
<1> USE DEF IInv, TypeOK, HandleInv, HandleOk, objVars, joinVars
<1>1. ASSUME NEW o \in Threads, Create(o) \/ CreateFails(o) PROVE HandleInv'
  BY <1>1 DEF Create, CreateFails, JoinInv
<1>2. ASSUME NEW o \in Threads, WaitReturns(o) \/ WaitFails(o)
      PROVE HandleInv'
  BY <1>2 DEF WaitReturns, WaitFails
<1>3. ASSUME NEW o \in Threads, Run(o) \/ RunReturns(o) PROVE HandleInv'
  BY <1>3 DEF Run, RunStart, RunSwap, RunNotify, RunReturns
<1>4. ASSUME NEW o \in Threads, Destroy(o) PROVE HandleInv'
  BY <1>4 DEF Destroy, LastReferenceGoes
<1>5. ASSUME NEW o \in Threads, NEW j \in Joiners, Join(j, o)
      PROVE HandleInv'
  <2>a. \A to \in JoinPcs : \A k \in Joiners, p \in Threads :
          Step(joinpc, j, o, to)[k][p] =
            IF k = j /\ p = o THEN to ELSE joinpc[k][p]
    BY JoinTables
  <2>1. CASE JoinZero(j, o)
    BY <2>1 DEF JoinZero
  <2>2. CASE JoinCheck(j, o)
    <3>1. \A k \in Joiners, p \in Threads :
            joinpc'[k][p] = IF k = j /\ p = o THEN "checked"
                            ELSE joinpc[k][p]
      BY <2>2, <2>a DEF JoinPcs, JoinCheck
    <3>2. ~ crossed'[o] =>
            ~ crossed[o] /\ \A k \in Joiners : joinpc[k][o] = "out"
      BY <2>2 DEF JoinCheck
    <3>3. \A p \in Threads : p # o => crossed'[p] = crossed[p]
      BY <2>2 DEF JoinCheck
    <3>4. obj[o] = "alive" /\ m_thread[o] /\ UNCHANGED <<obj, m_thread, os>>
      BY <2>2 DEF JoinCheck
    <3>5. ASSUME NEW p \in Threads, p # o
          PROVE  \A k \in Joiners : joinpc'[k][p] = joinpc[k][p]
      BY <3>1, <3>5
    <3>6. ASSUME ~ crossed'[o]
          PROVE  \A k \in Joiners :
                   joinpc'[k][o] = IF k = j THEN "checked" ELSE "out"
      BY <3>1, <3>2, <3>6
    <3>7. ~ crossed'[o] => os'[o] = "joinable"
      BY <3>2, <3>4
    <3>8. obj[o] # "waiting"
      BY <3>4
    <3>9. HandleOk(o)'
      BY <3>6, <3>7, <3>4, <3>8
    <3> HIDE DEF HandleOk
    <3> QED
      BY <3>3, <3>4, <3>5, <3>9, HandleElsewhere
  <2>3. CASE JoinEnter(j, o)
    <3>1. \A k \in Joiners, p \in Threads :
            joinpc'[k][p] = IF k = j /\ p = o THEN "inside"
                            ELSE joinpc[k][p]
      BY <2>3, <2>a DEF JoinPcs, JoinEnter
    <3>2. UNCHANGED <<obj, m_thread, os, crossed>>
      BY <2>3 DEF JoinEnter
    <3>3. joinpc[j][o] = "checked" /\ os[o] = "joinable"
      BY <2>3 DEF JoinEnter
    <3>4. ASSUME NEW p \in Threads, p # o
          PROVE  \A k \in Joiners : joinpc'[k][p] = joinpc[k][p]
      BY <3>1, <3>4
    <3>5. \A k \in Joiners :
            joinpc'[k][o] = IF k = j THEN "inside" ELSE joinpc[k][o]
      BY <3>1
    <3>6. HandleOk(o)'
      BY <3>2, <3>3, <3>5
    <3> HIDE DEF HandleOk
    <3> QED
      BY <3>2, <3>4, <3>6, HandleElsewhere
  <2>4. CASE JoinFails(j, o)
    <3>1. crossed[o]
      BY <2>4 DEF JoinFails, Joining
    <3>2. \A k \in Joiners, p \in Threads :
            joinpc'[k][p] = IF k = j /\ p = o THEN "out"
                            ELSE joinpc[k][p]
      BY <2>4, <2>a DEF JoinPcs, JoinFails
    <3> QED
      BY <2>4, <3>1, <3>2 DEF JoinFails
  <2>5. CASE JoinReaps(j, o)
    <3>1. \A k \in Joiners, p \in Threads :
            joinpc'[k][p] = IF k = j /\ p = o THEN "reaped"
                            ELSE joinpc[k][p]
      BY <2>5, <2>a DEF JoinPcs, JoinReaps
    <3>2. obj[o] = "alive"
      BY <2>5 DEF JoinReaps, JoinInv
    <3>3. joinpc[j][o] = "inside" /\ UNCHANGED <<obj, m_thread, crossed>>
      BY <2>5 DEF JoinReaps
    <3>4. \A p \in Threads : p # o => os'[p] = os[p]
      BY <2>5 DEF JoinReaps
    <3>5. ASSUME NEW p \in Threads, p # o
          PROVE  \A k \in Joiners : joinpc'[k][p] = joinpc[k][p]
      BY <3>1, <3>5
    <3>6. \A k \in Joiners :
            joinpc'[k][o] = IF k = j THEN "reaped" ELSE joinpc[k][o]
      BY <3>1
    <3>7. ~ crossed[o] => \A k \in Joiners : k # j => joinpc[k][o] = "out"
      BY <3>3
    <3> HIDE DEF IInv, TypeOK, HandleInv
    <3>8. HandleOk(o)'
      <4>1. obj'[o] = "alive" /\ crossed'[o] = crossed[o]
        BY <3>2, <3>3
      <4>2. ~ crossed[o] =>
              \A k \in Joiners :
                joinpc'[k][o] = IF k = j THEN "reaped" ELSE "out"
        BY <3>6, <3>7
      <4> QED
        BY <4>1, <4>2
    <3> USE DEF HandleInv
    <3> HIDE DEF HandleOk
    <3> QED
      BY <3>3, <3>4, <3>5, <3>8, HandleElsewhere
  <2>6. CASE JoinReturns(j, o)
    <3>1. \A k \in Joiners, p \in Threads :
            joinpc'[k][p] = IF k = j /\ p = o THEN "out"
                            ELSE joinpc[k][p]
      BY <2>6, <2>a DEF JoinPcs, JoinReturns
    <3>2. obj[o] = "alive"
      BY <2>6 DEF JoinReturns, JoinInv
    <3>3. joinpc[j][o] = "reaped" /\ UNCHANGED <<obj, os, crossed>>
      BY <2>6 DEF JoinReturns
    <3>4. m_thread'[o] = FALSE
          /\ \A p \in Threads : p # o => m_thread'[p] = m_thread[p]
      BY <2>6 DEF JoinReturns
    <3>5. ASSUME NEW p \in Threads, p # o
          PROVE  \A k \in Joiners : joinpc'[k][p] = joinpc[k][p]
      BY <3>1, <3>5
    <3>6. \A k \in Joiners :
            joinpc'[k][o] = IF k = j THEN "out" ELSE joinpc[k][o]
      BY <3>1
    <3>7. ~ crossed[o] => \A k \in Joiners : k # j => joinpc[k][o] = "out"
      BY <3>3
    <3>8. HandleOk(o)'
      BY <3>2, <3>3, <3>4, <3>6, <3>7
    <3> HIDE DEF HandleOk
    <3> QED
      BY <3>3, <3>4, <3>5, <3>8, HandleElsewhere
  <2> QED
    BY <1>5, <2>1, <2>2, <2>3, <2>4, <2>5, <2>6 DEF Join
<1>6. CASE UNCHANGED vars
  BY <1>6 DEF vars
<1> QED
  BY <1>1, <1>2, <1>3, <1>4, <1>5, <1>6 DEF Next

(* As long as no two joins of an object cross, join and its destructor     *)
(* never pass on a handle that was joined or detached (thread.cc:80-97).   *)
THEOREM HandlesUsable == Spec => []HandleUsable
<1>1. Init => HandleInv
  <2> SUFFICES ASSUME Init, NEW o \in Threads
               PROVE  /\ obj[o] # "waiting" /\ obj[o] # "alive"
                      /\ \A j \in Joiners : joinpc[j][o] = "out"
    BY DEF HandleInv, HandleOk
  <2> QED
    BY DEF Init
<1>2. IInv /\ HandleInv /\ [Next]_vars => HandleInv'
  BY HandleStep
<1>3. HandleInv => HandleUsable
  BY DEF HandleInv, HandleOk, HandleUsable
<1> QED
  BY Inductive, <1>1, <1>2, <1>3, PTL DEF Spec

-----------------------------------------------------------------------------
(* The POSIX thread of an object is given back once.                       *)

(* A handle that was not cleared and is not about to be is that of a       *)
(* thread nobody has joined; a cleared one is that of a reaped thread.     *)
GivenBack(o) ==
  /\ obj[o] = "none" => os[o] = "none"
  /\ obj[o] = "alive" /\ ~ m_thread[o] => os[o] = "reaped"
  /\ obj[o] = "gone" => os[o] \in {"detached", "reaped"}
  /\ os[o] = "reaped" =>
       ~ m_thread[o] \/ \E j \in Joiners : joinpc[j][o] = "reaped"
  /\ \A j \in Joiners : joinpc[j][o] = "reaped" => os[o] = "reaped"

OsInv == \A o \in Threads : GivenBack(o)

(* A reaped thread stays so, in this step.                                 *)
StaysReaped == \A o \in Threads : os[o] = "reaped" => os'[o] = "reaped"

LEMMA GivenBackElsewhere ==
  ASSUME NEW p, GivenBack(p),
         obj'[p] = obj[p], os'[p] = os[p], m_thread'[p] = m_thread[p],
         \A k \in Joiners : joinpc'[k][p] = joinpc[k][p]
  PROVE  GivenBack(p)'
BY DEF GivenBack

LEMMA OsStep == IInv /\ OsInv /\ [Next]_vars => OsInv' /\ StaysReaped
<1> SUFFICES ASSUME IInv, OsInv, [Next]_vars PROVE OsInv' /\ StaysReaped
  OBVIOUS
<1> USE DEF IInv, TypeOK, OsInv, StaysReaped, objVars, joinVars
<1>1. ASSUME NEW o \in Threads, Create(o) \/ CreateFails(o)
      PROVE OsInv' /\ StaysReaped
  BY <1>1 DEF Create, CreateFails, JoinInv, GivenBack
<1>2. ASSUME NEW o \in Threads, WaitReturns(o) \/ WaitFails(o)
      PROVE OsInv' /\ StaysReaped
  BY <1>2 DEF WaitReturns, WaitFails, JoinInv, GivenBack
<1>3. ASSUME NEW o \in Threads, Run(o) \/ RunReturns(o)
      PROVE OsInv' /\ StaysReaped
  BY <1>3 DEF Run, RunStart, RunSwap, RunNotify, RunReturns, GivenBack
<1>4. ASSUME NEW o \in Threads, Destroy(o) PROVE OsInv' /\ StaysReaped
  BY <1>4 DEF Destroy, LastReferenceGoes, GivenBack
<1>5. ASSUME NEW o \in Threads, NEW j \in Joiners, Join(j, o)
      PROVE OsInv' /\ StaysReaped
  <2>1. PICK to \in JoinPcs :
          joinpc' = joinpc \/ joinpc' = Step(joinpc, j, o, to)
    BY <1>5 DEF Join, JoinZero, JoinCheck, JoinEnter, JoinFails, JoinReaps,
                JoinReturns, JoinPcs
  <2>2. \A k \in Joiners, p \in Threads :
          Step(joinpc, j, o, to)[k][p] =
            IF k = j /\ p = o THEN to ELSE joinpc[k][p]
    BY JoinTables
  <2>3. \A p \in Threads : p # o =>
          /\ obj'[p] = obj[p] /\ os'[p] = os[p] /\ m_thread'[p] = m_thread[p]
          /\ \A k \in Joiners : joinpc'[k][p] = joinpc[k][p]
    <3>1. \A p \in Threads : p # o =>
            obj'[p] = obj[p] /\ os'[p] = os[p] /\ m_thread'[p] = m_thread[p]
      BY <1>5 DEF Join, JoinZero, JoinCheck, JoinEnter, JoinFails, JoinReaps,
                  JoinReturns
    <3> QED
      BY <2>1, <2>2, <3>1
  <2>4. GivenBack(o)' /\ (os[o] = "reaped" => os'[o] = "reaped")
    <3>1. CASE JoinZero(j, o)
      BY <3>1 DEF JoinZero, GivenBack
    <3>2. ASSUME JoinCheck(j, o) \/ JoinEnter(j, o) \/ JoinFails(j, o)
          PROVE  /\ UNCHANGED <<obj, os, m_thread>> /\ joinpc[j][o] # "reaped"
                 /\ \A k \in Joiners : k # j => joinpc'[k][o] = joinpc[k][o]
                 /\ joinpc'[j][o] # "reaped"
      <4>1. joinpc' = Step(joinpc, j, o, "checked")
              \/ joinpc' = Step(joinpc, j, o, "inside")
              \/ joinpc' = Step(joinpc, j, o, "out")
        BY <3>2 DEF JoinCheck, JoinEnter, JoinFails
      <4>2. \A t \in {"checked", "inside", "out"} : \A k \in Joiners :
              Step(joinpc, j, o, t)[k][o] = IF k = j THEN t ELSE joinpc[k][o]
        BY JoinTables DEF JoinPcs
      <4> QED
        BY <3>2, <4>1, <4>2 DEF JoinCheck, JoinEnter, JoinFails
    <3>3. CASE JoinCheck(j, o) \/ JoinEnter(j, o) \/ JoinFails(j, o)
      <4>1. \A k \in Joiners :
              joinpc'[k][o] = "reaped" <=> joinpc[k][o] = "reaped"
        BY <3>2, <3>3
      <4>2. obj' = obj /\ os' = os /\ m_thread' = m_thread
        BY <3>2, <3>3
      <4> HIDE DEF IInv, TypeOK, StaysReaped
      <4> QED
        BY <4>1, <4>2 DEF GivenBack
    <3>4. CASE JoinReaps(j, o)
      <4>1. \A k \in Joiners : joinpc'[k][o] =
              IF k = j THEN "reaped" ELSE joinpc[k][o]
        BY <3>4, JoinTables DEF JoinReaps, JoinPcs
      <4>2. obj[o] = "alive" /\ obj' = obj /\ os'[o] = "reaped"
        BY <3>4 DEF JoinReaps, JoinInv
      <4> QED
        BY <4>1, <4>2 DEF GivenBack
    <3>5. CASE JoinReturns(j, o)
      <4>1. \A k \in Joiners : joinpc'[k][o] =
              IF k = j THEN "out" ELSE joinpc[k][o]
        BY <3>5, JoinTables DEF JoinReturns, JoinPcs
      <4>2. /\ UNCHANGED <<obj, os>> /\ ~ m_thread'[o]
            /\ obj[o] = "alive" /\ os[o] = "reaped"
        BY <3>5 DEF JoinReturns, JoinInv, GivenBack
      <4> QED
        BY <4>1, <4>2 DEF GivenBack
    <3> QED
      BY <1>5, <3>1, <3>3, <3>4, <3>5 DEF Join
  <2> QED
    BY <2>3, <2>4, GivenBackElsewhere
<1>6. CASE UNCHANGED vars
  BY <1>6 DEF vars, GivenBack
<1> QED
  BY <1>1, <1>2, <1>3, <1>4, <1>5, <1>6 DEF Next

(* Destroying the object gives its thread back to the system exactly once, *)
(* also after joins that crossed (thread.cc:78-100).                       *)
THEOREM GivenBackOnce == Spec => ReapedOnce
<1> DEFINE Gone == \A o \in Threads :
                     obj[o] = "gone" => os[o] \in {"detached", "reaped"}
           Kept == \A o \in Threads : os[o] = "reaped" => os'[o] = "reaped"
<1>1. Init => OsInv
  <2> SUFFICES ASSUME Init, NEW o \in Threads
               PROVE  /\ obj[o] = "none" /\ os[o] = "none"
                      /\ \A j \in Joiners : joinpc[j][o] = "out"
    BY DEF OsInv, GivenBack
  <2> QED
    BY DEF Init
<1>2. IInv /\ OsInv /\ [Next]_vars => OsInv' /\ Kept
  BY OsStep DEF StaysReaped
<1>3. OsInv => Gone
  BY DEF OsInv, GivenBack
<1>4. Spec => []OsInv
  BY Inductive, <1>1, <1>2, PTL DEF Spec
<1>5. Spec => [][Kept]_vars
  BY Inductive, <1>2, <1>4, PTL DEF Spec
<1>6. Spec => []Gone
  BY <1>3, <1>4, PTL
<1> QED
  BY <1>5, <1>6 DEF ReapedOnce
=============================================================================
