----------------------------- MODULE ListenerKeys -----------------------------
(***************************************************************************)
(* The keys ConfigVar<T>::addListener hands out (mumu/config.h:466-491).   *)
(*                                                                         *)
(* s_fun_id is a static of the member function: one counter for all the    *)
(* variables of one T, while the lock taken is the m_mutex of one of them. *)
(* So the accesses to the counter are steps of their own here: ++s_fun_id  *)
(* loads and stores it, the subscript and the return statement read it     *)
(* again (the project is built with -O0, CMakeLists.txt:7).  The lock of a *)
(* variable is only ever taken for writing by these functions.             *)
(* getListener changes nothing and is not an action.                       *)
(***************************************************************************)
EXTENDS Naturals, ListenerHandles

CONSTANTS
  Threads,    \* threads that register listeners
  Vars,       \* the ConfigVar<T> objects of one T
  Callbacks,  \* the listeners; each is registered at most once
  Free        \* the owner of a lock nobody holds

ASSUME ListenerKeysAssumption == Free \notin Threads

VARIABLES
  m_mutex,   \* per variable: the thread that holds its lock, or Free
  s_fun_id,  \* the counter
  pc,        \* per thread: the next step of its addListener
  at,        \* per thread: the variable addListener was called on
  cb,        \* per thread: the argument of addListener
  reg,       \* per thread: the counter as loaded by ++
  used       \* history: the listeners given to addListener so far

callVars == <<at, cb>>
vars == <<m_mutex, cbs, s_fun_id, pc, callVars, reg, used, handles, live>>

Handles == [cb : Callbacks, var : Vars, key : Nat]

TypeOK ==
  /\ m_mutex \in [Vars -> Threads \cup {Free}]
  /\ cbs \in [Vars -> SUBSET (Nat \X Callbacks)]
  /\ s_fun_id \in Nat
  /\ pc \in [Threads -> {"idle", "load", "store", "index", "return"}]
  /\ at \in [Threads -> Vars]
  /\ cb \in [Threads -> Callbacks]
  /\ reg \in [Threads -> Nat]
  /\ used \subseteq Callbacks
  /\ handles \subseteq Handles
  /\ live \subseteq handles

Init ==
  /\ m_mutex = [x \in Vars |-> Free]
  /\ cbs = [x \in Vars |-> {}]
  /\ s_fun_id = 0
  /\ pc = [t \in Threads |-> "idle"]
  /\ at \in [Threads -> Vars]
  /\ cb \in [Threads -> Callbacks]
  /\ reg = [t \in Threads |-> 0]
  /\ used = {}
  /\ handles = {}
  /\ live = {}

-----------------------------------------------------------------------------
(* addListener.                                                            *)

(* Mutated form: the lock is not taken.                                    *)
Lock_NotTaken(t, x, c) ==
  /\ pc[t] = "idle"
  /\ c \notin used
  /\ pc' = [pc EXCEPT ![t] = "load"]
  /\ at' = [at EXCEPT ![t] = x]
  /\ cb' = [cb EXCEPT ![t] = c]
  /\ used' = used \cup {c}
  /\ UNCHANGED <<m_mutex, cbs, s_fun_id, reg, handles, live>>

(* RWMutexType::WriteLock lock(m_mutex) *)
Lock(t, x, c) ==
  /\ pc[t] = "idle"
  /\ c \notin used
  /\ m_mutex[x] = Free
  /\ m_mutex' = [m_mutex EXCEPT ![x] = t]
  /\ pc' = [pc EXCEPT ![t] = "load"]
  /\ at' = [at EXCEPT ![t] = x]
  /\ cb' = [cb EXCEPT ![t] = c]
  /\ used' = used \cup {c}
  /\ UNCHANGED <<cbs, s_fun_id, reg, handles, live>>

(* ++s_fun_id *)
LoadId(t) ==
  /\ pc[t] = "load"
  /\ reg' = [reg EXCEPT ![t] = s_fun_id]
  /\ pc' = [pc EXCEPT ![t] = "store"]
  /\ UNCHANGED <<m_mutex, cbs, s_fun_id, callVars, used, handles, live>>

StoreId(t) ==
  /\ pc[t] = "store"
  /\ s_fun_id' = reg[t] + 1
  /\ pc' = [pc EXCEPT ![t] = "index"]
  /\ UNCHANGED <<m_mutex, cbs, callVars, reg, used, handles, live>>

(* What m[k] = c leaves in the map m.                                      *)
Assign(m, k, c) == {p \in m : p[1] # k} \cup {<<k, c>>}

(* Mutated form: m_cbs[s_fun_id++] = cb.                                   *)
Index_OldKey(t) ==
  /\ pc[t] = "index"
  /\ cbs' = [cbs EXCEPT ![at[t]] = Assign(@, reg[t], cb[t])]
  /\ pc' = [pc EXCEPT ![t] = "return"]
  /\ UNCHANGED <<m_mutex, s_fun_id, callVars, reg, used, handles, live>>

(* m_cbs[s_fun_id] = cb *)
Index(t) ==
  /\ pc[t] = "index"
  /\ cbs' = [cbs EXCEPT ![at[t]] = Assign(@, s_fun_id, cb[t])]
  /\ pc' = [pc EXCEPT ![t] = "return"]
  /\ UNCHANGED <<m_mutex, s_fun_id, callVars, reg, used, handles, live>>

(* return s_fun_id, then the destructor of lock.                           *)
Return(t) ==
  LET h == [cb |-> cb[t], var |-> at[t], key |-> s_fun_id] IN
  /\ pc[t] = "return"
  /\ handles' = handles \cup {h}
  /\ live' = live \cup {h}
  /\ m_mutex' = [m_mutex EXCEPT ![at[t]] = Free]
  /\ pc' = [pc EXCEPT ![t] = "idle"]
  /\ UNCHANGED <<cbs, s_fun_id, callVars, reg, used>>

-----------------------------------------------------------------------------
(* delListener with a key addListener returned, by whoever was given it.   *)
DelListener(h) ==
  /\ m_mutex[h.var] = Free
  /\ cbs' = [cbs EXCEPT ![h.var] = {p \in @ : p[1] # h.key}]
  /\ live' = live \ {h}
  /\ UNCHANGED <<m_mutex, s_fun_id, pc, callVars, reg, used, handles>>

ClearListener(x) ==
  /\ m_mutex[x] = Free
  /\ cbs' = [cbs EXCEPT ![x] = {}]
  /\ live' = {h \in live : h.var # x}
  /\ UNCHANGED <<m_mutex, s_fun_id, pc, callVars, reg, used, handles>>

AddListener(t) ==
  \/ \E x \in Vars, c \in Callbacks : Lock(t, x, c)
  \/ LoadId(t)
  \/ StoreId(t)
  \/ Index(t)
  \/ Return(t)

Next ==
  \/ \E t \in Threads : AddListener(t)
  \/ \E h \in handles : DelListener(h)
  \/ \E x \in Vars : ClearListener(x)

Spec == Init /\ [][Next]_vars
=============================================================================
