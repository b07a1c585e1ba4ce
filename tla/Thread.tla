-------------------------------- MODULE Thread --------------------------------
(***************************************************************************)
(* muhui::Thread (mumu/thread.h:49-94, mumu/thread.cc:60-143): an object,  *)
(* the POSIX thread it starts, and the semaphore the constructor waits on  *)
(* until the new thread has taken the callback out of the object.          *)
(*                                                                         *)
(* A Thread object is constructed by one caller; afterwards the Joiners    *)
(* share it (Thread::ptr) and it is destroyed when the last reference      *)
(* goes, so never during a join.  An access of the new thread to the       *)
(* object is visible as the value of child during which it is made.        *)
(* getId, getName, GetThis and GetName change nothing and are not actions. *)
(***************************************************************************)
EXTENDS Naturals

CONSTANTS
  Threads,         \* the Thread objects
  Joiners,         \* threads that call join
  SemWaitMayFail   \* a signal may make sem_wait return -1 (EINTR)

ASSUME ThreadAssumption == SemWaitMayFail \in BOOLEAN

VARIABLES
  obj,       \* the object: "none", "waiting" (constructor in sem_wait),
             \* "alive", "unwound" (constructor threw), "gone" (destroyed)
  m_thread,  \* the object's handle is set (TRUE) or zero
  m_cb,      \* the object still has the callback
  m_id,      \* the object knows the id of its thread
  sem,       \* the count of m_semaphore
  os,        \* the POSIX thread: "none", "joinable", "detached", "reaped"
  child,     \* the next thing run() does, "none" before and "exited" after
  joinpc,    \* per joiner and object: "out", "checked", "inside", "reaped"
  joined,    \* per joiner and object: how the last join ended
  crossed    \* history, per object: a join began while another was going on

objVars == <<obj, m_thread, m_cb, m_id, sem>>
joinVars == <<joinpc, joined, crossed>>
vars == <<objVars, os, child, joinVars>>

TypeOK ==
  /\ obj \in [Threads -> {"none", "waiting", "alive", "unwound", "gone"}]
  /\ m_thread \in [Threads -> BOOLEAN]
  /\ m_cb \in [Threads -> BOOLEAN]
  /\ m_id \in [Threads -> BOOLEAN]
  /\ sem \in [Threads -> 0..1]
  /\ os \in [Threads -> {"none", "joinable", "detached", "reaped"}]
  /\ child \in [Threads -> {"none", "start", "swap", "notify", "callback",
                            "exited"}]
  /\ joinpc \in [Joiners -> [Threads -> {"out", "checked", "inside",
                                         "reaped"}]]
  /\ joined \in [Joiners -> [Threads -> {"never", "returned", "thrown"}]]
  /\ crossed \in [Threads -> BOOLEAN]

Init ==
  /\ obj = [o \in Threads |-> "none"]
  /\ m_thread = [o \in Threads |-> FALSE]
  /\ m_cb = [o \in Threads |-> TRUE]
  /\ m_id = [o \in Threads |-> FALSE]
  /\ sem = [o \in Threads |-> 0]
  /\ os = [o \in Threads |-> "none"]
  /\ child = [o \in Threads |-> "none"]
  /\ joinpc = [j \in Joiners |-> [o \in Threads |-> "out"]]
  /\ joined = [j \in Joiners |-> [o \in Threads |-> "never"]]
  /\ crossed = [o \in Threads |-> FALSE]

-----------------------------------------------------------------------------
(* The constructor.                                                        *)

CreateFails(o) ==
  /\ obj[o] = "none"
  /\ obj' = [obj EXCEPT ![o] = "unwound"]
  /\ UNCHANGED <<m_thread, m_cb, m_id, sem, os, child, joinVars>>

Create(o) ==
  /\ obj[o] = "none"
  /\ obj' = [obj EXCEPT ![o] = "waiting"]
  /\ m_thread' = [m_thread EXCEPT ![o] = TRUE]
  /\ os' = [os EXCEPT ![o] = "joinable"]
  /\ child' = [child EXCEPT ![o] = "start"]
  /\ UNCHANGED <<m_cb, m_id, sem, joinVars>>

(* Mutated form: the constructor does not wait.                            *)
WaitReturns_NoWait(o) ==
  /\ obj[o] = "waiting"
  /\ obj' = [obj EXCEPT ![o] = "alive"]
  /\ UNCHANGED <<m_thread, m_cb, m_id, sem, os, child, joinVars>>

WaitReturns(o) ==
  /\ obj[o] = "waiting"
  /\ sem[o] > 0
  /\ sem' = [sem EXCEPT ![o] = @ - 1]
  /\ obj' = [obj EXCEPT ![o] = "alive"]
  /\ UNCHANGED <<m_thread, m_cb, m_id, os, child, joinVars>>

(* wait() throws out of the constructor: the members are destroyed, the    *)
(* destructor of Thread does not run.                                      *)
WaitFails(o) ==
  /\ SemWaitMayFail
  /\ obj[o] = "waiting"
  /\ obj' = [obj EXCEPT ![o] = "unwound"]
  /\ UNCHANGED <<m_thread, m_cb, m_id, sem, os, child, joinVars>>

-----------------------------------------------------------------------------
(* run(), in the new thread.                                               *)

(* t_thread, t_thread_name, m_id and the system's name of the thread.      *)
RunStart(o) ==
  /\ child[o] = "start"
  /\ m_id' = [m_id EXCEPT ![o] = TRUE]
  /\ child' = [child EXCEPT ![o] = "swap"]
  /\ UNCHANGED <<obj, m_thread, m_cb, sem, os, joinVars>>

(* Mutated form: notify() is called here too.                              *)
RunSwap_NotifiesToo(o) ==
  /\ child[o] = "swap"
  /\ m_cb' = [m_cb EXCEPT ![o] = FALSE]
  /\ sem' = [sem EXCEPT ![o] = @ + 1]
  /\ child' = [child EXCEPT ![o] = "notify"]
  /\ UNCHANGED <<obj, m_thread, m_id, os, joinVars>>

(* Mutated form: m_cb is copied, not swapped out of the object.            *)
RunSwap_Copies(o) ==
  /\ child[o] = "swap"
  /\ child' = [child EXCEPT ![o] = "notify"]
  /\ UNCHANGED <<objVars, os, joinVars>>

RunSwap(o) ==
  /\ child[o] = "swap"
  /\ m_cb' = [m_cb EXCEPT ![o] = FALSE]
  /\ child' = [child EXCEPT ![o] = "notify"]
  /\ UNCHANGED <<obj, m_thread, m_id, sem, os, joinVars>>

(* Mutated form: run() does not notify.                                    *)
RunNotify_Forgotten(o) ==
  /\ child[o] = "notify"
  /\ child' = [child EXCEPT ![o] = "callback"]
  /\ UNCHANGED <<objVars, os, joinVars>>

RunNotify(o) ==
  /\ child[o] = "notify"
  /\ sem' = [sem EXCEPT ![o] = @ + 1]
  /\ child' = [child EXCEPT ![o] = "callback"]
  /\ UNCHANGED <<obj, m_thread, m_cb, m_id, os, joinVars>>

(* cb() returns, and with it the thread's function.                        *)
RunReturns(o) ==
  /\ child[o] = "callback"
  /\ child' = [child EXCEPT ![o] = "exited"]
  /\ UNCHANGED <<objVars, os, joinVars>>

-----------------------------------------------------------------------------
(* join().                                                                 *)

Step(pc, j, o, to) == [pc EXCEPT ![j][o] = to]

(* The handle is zero: return at once.                                     *)
JoinZero(j, o) ==
  /\ obj[o] = "alive" /\ joinpc[j][o] = "out"
  /\ ~ m_thread[o]
  /\ joined' = Step(joined, j, o, "returned")
  /\ UNCHANGED <<objVars, os, child, joinpc, crossed>>

JoinCheck(j, o) ==
  /\ obj[o] = "alive" /\ joinpc[j][o] = "out"
  /\ m_thread[o]
  /\ joinpc' = Step(joinpc, j, o, "checked")
  /\ crossed' = [crossed EXCEPT ![o] =
                   @ \/ \E k \in Joiners : joinpc[k][o] # "out"]
  /\ UNCHANGED <<objVars, os, child, joined>>

Joining(o) == \E j \in Joiners : joinpc[j][o] = "inside"

(* pthread_join is entered with a handle nobody else has joined with.      *)
JoinEnter(j, o) ==
  /\ joinpc[j][o] = "checked"
  /\ os[o] = "joinable" /\ ~ Joining(o)
  /\ joinpc' = Step(joinpc, j, o, "inside")
  /\ UNCHANGED <<objVars, os, child, joined, crossed>>

(* pthread_join returns an error at once, since another thread is joining  *)
(* or (undefined behaviour, an error at best) has joined: join throws.     *)
JoinFails(j, o) ==
  /\ joinpc[j][o] = "checked"
  /\ os[o] # "joinable" \/ Joining(o)
  /\ joinpc' = Step(joinpc, j, o, "out")
  /\ joined' = Step(joined, j, o, "thrown")
  /\ UNCHANGED <<objVars, os, child, crossed>>

(* Mutated form: pthread_tryjoin_np, its result ignored.                   *)
JoinReaps_NoWait(j, o) ==
  /\ joinpc[j][o] = "inside"
  /\ os' = [os EXCEPT ![o] = "reaped"]
  /\ joinpc' = Step(joinpc, j, o, "reaped")
  /\ UNCHANGED <<objVars, child, joined, crossed>>

(* pthread_join returns 0.                                                 *)
JoinReaps(j, o) ==
  /\ joinpc[j][o] = "inside"
  /\ child[o] = "exited"
  /\ os' = [os EXCEPT ![o] = "reaped"]
  /\ joinpc' = Step(joinpc, j, o, "reaped")
  /\ UNCHANGED <<objVars, child, joined, crossed>>

(* Mutated form: m_thread = 0 is missing.                                  *)
JoinReturns_KeepsHandle(j, o) ==
  /\ joinpc[j][o] = "reaped"
  /\ joinpc' = Step(joinpc, j, o, "out")
  /\ joined' = Step(joined, j, o, "returned")
  /\ UNCHANGED <<objVars, os, child, crossed>>

(* m_thread = 0 *)
JoinReturns(j, o) ==
  /\ joinpc[j][o] = "reaped"
  /\ m_thread' = [m_thread EXCEPT ![o] = FALSE]
  /\ joinpc' = Step(joinpc, j, o, "out")
  /\ joined' = Step(joined, j, o, "returned")
  /\ UNCHANGED <<obj, m_cb, m_id, sem, os, child, crossed>>

-----------------------------------------------------------------------------
(* ~Thread(), when the last reference goes.                                *)

LastReferenceGoes(o) ==
  /\ obj[o] = "alive"
  /\ \A j \in Joiners : joinpc[j][o] = "out"

(* Mutated form: the destructor does not detach.                           *)
Destroy_NoDetach(o) ==
  /\ LastReferenceGoes(o)
  /\ obj' = [obj EXCEPT ![o] = "gone"]
  /\ UNCHANGED <<m_thread, m_cb, m_id, sem, os, child, joinVars>>

(* pthread_detach of a thread already reaped is undefined; of a joinable   *)
(* one it leaves the reaping to the system.                                *)
Destroy(o) ==
  /\ LastReferenceGoes(o)
  /\ obj' = [obj EXCEPT ![o] = "gone"]
  /\ os' = [os EXCEPT ![o] = IF m_thread[o] THEN "detached" ELSE @]
  /\ UNCHANGED <<m_thread, m_cb, m_id, sem, child, joinVars>>

-----------------------------------------------------------------------------
Run(o) == RunStart(o) \/ RunSwap(o) \/ RunNotify(o)

Join(j, o) ==
  \/ JoinZero(j, o) \/ JoinCheck(j, o) \/ JoinEnter(j, o)
  \/ JoinFails(j, o) \/ JoinReaps(j, o) \/ JoinReturns(j, o)

Next ==
  \E o \in Threads :
    \/ Create(o) \/ CreateFails(o) \/ WaitReturns(o) \/ WaitFails(o)
    \/ Run(o) \/ RunReturns(o)
    \/ \E j \in Joiners : Join(j, o)
    \/ Destroy(o)

Spec == Init /\ [][Next]_vars

(* The scheduler runs the new thread and wakes the constructor; a callback *)
(* need not return (those of tests/test_thread.cc:35-45 do not).           *)
FairSpec == Spec /\ \A o \in Threads : WF_vars(Run(o)) /\ WF_vars(WaitReturns(o))

-----------------------------------------------------------------------------
(* Properties.                                                             *)

(* When the constructor has returned, its thread runs, its id is known and *)
(* the callback (with all it keeps alive) has left the object: what the    *)
(* semaphore is for (thread.cc:131-139, 73-74).                            *)
HandshakeDone ==
  \A o \in Threads : obj[o] \in {"alive", "gone"} =>
    child[o] \in {"callback", "exited"} /\ m_id[o] /\ ~ m_cb[o]

(* Until it has notified, run() uses the object it was given, and the      *)
(* constructor still waits for it: the object can be gone only because     *)
(* wait() threw (thread.cc:128-139, 74, 46-48).                            *)
RunTouchesLiveObject ==
  \A o \in Threads :
    child[o] \in {"start", "swap", "notify"} => obj[o] \in {"waiting", "unwound"}

(* thread.cc:73 says: "guarantees that the created thread runs; blocks in  *)
(* the constructor as long as it does not".                                *)
ConstructorBlocksUntilRun ==
  \A o \in Threads : child[o] = "start" => obj[o] = "waiting"

(* join returns only after the callback has returned (thread.cc:86), also  *)
(* to a second joiner who finds the handle already zero.                   *)
JoinImpliesFinished ==
  \A j \in Joiners, o \in Threads :
    joined[j][o] = "returned" => child[o] = "exited"

(* A handle that join or the destructor is about to use is one of a thread *)
(* that was neither joined nor detached (thread.cc:80-97), as long as no   *)
(* join began while another was going on: then the second one may have     *)
(* read the handle before the first reaped the thread.                     *)
HandleUsable ==
  \A o \in Threads : ~ crossed[o] =>
    /\ \A j \in Joiners : joinpc[j][o] = "checked" => os[o] = "joinable"
    /\ obj[o] = "alive" /\ m_thread[o]
         /\ (\A j \in Joiners : joinpc[j][o] = "out") => os[o] = "joinable"

(* Destroying the object gives its thread back to the system, exactly      *)
(* once: it was joined or it is detached, and a thread reaped by join is   *)
(* not detached afterwards (thread.cc:78-84).                              *)
ReapedOnce ==
  /\ [][\A o \in Threads : os[o] = "reaped" => os'[o] = "reaped"]_vars
  /\ [](\A o \in Threads : obj[o] = "gone" => os[o] \in {"detached", "reaped"})

(* An object that anybody joined, successfully or not, is not destroyed    *)
(* while its callback runs, so that GetThis() does not dangle in it        *)
(* (thread.cc:103-106, 119-121, 78-84).                                    *)
GetThisValid ==
  \A o \in Threads :
    obj[o] = "gone" /\ (\E j \in Joiners : joined[j][o] # "never") =>
      child[o] # "callback"

(* The constructor returns or throws: the handshake cannot get stuck.      *)
ConstructorReturns ==
  \A o \in Threads : obj[o] = "waiting" ~> obj[o] # "waiting"
=============================================================================
