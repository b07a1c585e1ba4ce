------------------------------ MODULE ConfigVar ------------------------------
(***************************************************************************)
(* One ConfigVar<T> (mumu/config.h) used by several threads.               *)
(*                                                                         *)
(* m_mutex is a read/write lock.  A section under the write lock calls     *)
(* nothing that waits, so it is one atomic step here, enabled when no      *)
(* thread holds the lock for reading; m_mutex is then just the set of      *)
(* threads inside setValue's read section.  The read section of setValue   *)
(* is not atomic: the listeners run inside it, one step each, while other  *)
(* threads do the same.  Between the read section and the write section a  *)
(* setter holds no lock at all.                                            *)
(*                                                                         *)
(* getValue, toString and getListener change nothing and are not actions.  *)
(* A listener is known by its key alone: it returns, throws, or calls a    *)
(* function of its own variable that takes the lock for writing.  No other *)
(* variable of type T exists here (s_fun_id is shared between the          *)
(* variables of one T: see ListenerKeys).                                  *)
(***************************************************************************)
EXTENDS Naturals

CONSTANTS
  Setters,       \* threads that call setValue or fromString
  Values,        \* values of T
  InitVal,       \* default_value of the constructor
  Never,         \* "this listener has not been told anything"
  Exceptions,    \* what a listener may throw: "std" (std::exception), "other"
  MaxListeners,  \* bound: registrations made over a behaviour
  MaxCalls       \* bound: setValue/fromString calls made over a behaviour

ASSUME ConfigVarAssumption ==
  /\ InitVal \in Values
  /\ Never \notin Values
  /\ Exceptions \subseteq {"std", "other"}
  /\ MaxListeners \in Nat
  /\ MaxCalls \in Nat

VARIABLES
  m_val,     \* the value
  m_cbs,     \* the keys of the map of listeners
  m_mutex,   \* threads that hold the lock for reading
  s_fun_id,  \* the last key handed out
  pc,        \* per setter: "idle", "notify" (in the read section), "store",
             \* or "stuck" (a listener waits for the write lock)
  via,       \* per setter: the function the caller called
  v,         \* per setter: the argument of setValue
  told,      \* per setter: keys of the listeners called so far in this call
  result,    \* per setter: how the last call ended
  calls,     \* calls made so far (see MaxCalls)
  base,      \* history, per setter: m_val when it was compared with v
  snap,      \* history, per setter: m_cbs when the iteration began
  heard,     \* history, per key: the last new_value this listener was given
  overlapped, \* history: a call began to notify before another had stored
  threw,     \* history: a listener has thrown
  reentered  \* history: a listener has called its own variable

lockVars == <<m_val, m_cbs, m_mutex, s_fun_id>>
marks == <<overlapped, threw, reentered>>
callVars == <<pc, via, v, told, result, calls, base, snap>>
vars == <<lockVars, callVars, heard, marks>>

Keys == 1 .. MaxListeners
Entries == {"setValue", "fromString"}

TypeOK ==
  /\ m_val \in Values
  /\ m_cbs \subseteq Keys
  /\ m_mutex \subseteq Setters
  /\ s_fun_id \in 0 .. MaxListeners
  /\ pc \in [Setters -> {"idle", "notify", "store", "stuck"}]
  /\ via \in [Setters -> Entries]
  /\ v \in [Setters -> Values]
  /\ told \in [Setters -> SUBSET Keys]
  /\ result \in [Setters -> {"none", "void", "false", "thrown"}]
  /\ calls \in 0 .. MaxCalls
  /\ base \in [Setters -> Values]
  /\ snap \in [Setters -> SUBSET Keys]
  /\ heard \in [Keys -> Values \cup {Never}]
  /\ overlapped \in BOOLEAN
  /\ threw \in BOOLEAN
  /\ reentered \in BOOLEAN

Init ==
  /\ m_val = InitVal
  /\ m_cbs = {}
  /\ m_mutex = {}
  /\ s_fun_id = 0
  /\ pc = [t \in Setters |-> "idle"]
  /\ via = [t \in Setters |-> "setValue"]
  /\ v = [t \in Setters |-> InitVal]
  /\ told = [t \in Setters |-> {}]
  /\ result = [t \in Setters |-> "none"]
  /\ calls = 0
  /\ base = [t \in Setters |-> InitVal]
  /\ snap = [t \in Setters |-> {}]
  /\ heard = [k \in Keys |-> Never]
  /\ overlapped = FALSE
  /\ threw = FALSE
  /\ reentered = FALSE

-----------------------------------------------------------------------------
(* setValue and fromString.                                                *)

(* What the caller gets when the call ends without an exception: setValue  *)
(* returns nothing, fromString falls out of its try block to return false. *)
Returned(entry) == IF entry = "fromString" THEN "false" ELSE "void"

(* fromString catches std::exception only, setValue catches nothing.       *)
Raised(entry, e) ==
  IF entry = "fromString" /\ e = "std" THEN "false" ELSE "thrown"

MayCall(t) == pc[t] = "idle" /\ calls < MaxCalls

(* FromStr() throws: logged, and fromString returns false.                 *)
ConversionFails(t) ==
  /\ MayCall(t)
  /\ calls' = calls + 1
  /\ via' = [via EXCEPT ![t] = "fromString"]
  /\ result' = [result EXCEPT ![t] = "false"]
  /\ UNCHANGED <<lockVars, pc, v, told, base, snap, heard, marks>>

(* The value is the one already there: return under the read lock.         *)
SetSame(t, entry) ==
  /\ MayCall(t)
  /\ calls' = calls + 1
  /\ via' = [via EXCEPT ![t] = entry]
  /\ result' = [result EXCEPT ![t] = Returned(entry)]
  /\ UNCHANGED <<lockVars, pc, v, told, base, snap, heard, marks>>

(* Mutated form: the value is stored before the listeners run.             *)
SetDiffers_StoresFirst(t, entry, x) ==
  /\ MayCall(t)
  /\ x # m_val
  /\ calls' = calls + 1
  /\ m_val' = x
  /\ m_mutex' = m_mutex \cup {t}
  /\ pc' = [pc EXCEPT ![t] = "notify"]
  /\ via' = [via EXCEPT ![t] = entry]
  /\ v' = [v EXCEPT ![t] = x]
  /\ told' = [told EXCEPT ![t] = {}]
  /\ result' = [result EXCEPT ![t] = "none"]
  /\ base' = [base EXCEPT ![t] = m_val]
  /\ snap' = [snap EXCEPT ![t] = m_cbs]
  /\ overlapped' = (overlapped \/ \E s \in Setters : pc[s] # "idle")
  /\ UNCHANGED <<m_cbs, s_fun_id, heard, threw, reentered>>

(* The value differs: the iteration over m_cbs begins under the read lock. *)
SetDiffers(t, entry, x) ==
  /\ MayCall(t)
  /\ x # m_val
  /\ calls' = calls + 1
  /\ m_mutex' = m_mutex \cup {t}
  /\ pc' = [pc EXCEPT ![t] = "notify"]
  /\ via' = [via EXCEPT ![t] = entry]
  /\ v' = [v EXCEPT ![t] = x]
  /\ told' = [told EXCEPT ![t] = {}]
  /\ result' = [result EXCEPT ![t] = "none"]
  /\ base' = [base EXCEPT ![t] = m_val]
  /\ snap' = [snap EXCEPT ![t] = m_cbs]
  /\ overlapped' = (overlapped \/ \E s \in Setters : pc[s] # "idle")
  /\ UNCHANGED <<m_val, m_cbs, s_fun_id, heard, threw, reentered>>

(* The iterator walks the live map in key order.                           *)
Remaining(t) == {k \in m_cbs : \A j \in told[t] : j < k}
IsNext(t, k) == k \in Remaining(t) /\ \A j \in Remaining(t) : k <= j

(* Mutated form: the two arguments of the listener swapped.                *)
Callback_ArgumentsSwapped(t, k) ==
  /\ pc[t] = "notify"
  /\ IsNext(t, k)
  /\ told' = [told EXCEPT ![t] = @ \cup {k}]
  /\ heard' = [heard EXCEPT ![k] = m_val]
  /\ UNCHANGED <<lockVars, pc, via, v, result, calls, base, snap,
                 marks>>

(* A listener runs and returns.                                            *)
Callback(t, k) ==
  /\ pc[t] = "notify"
  /\ IsNext(t, k)
  /\ told' = [told EXCEPT ![t] = @ \cup {k}]
  /\ heard' = [heard EXCEPT ![k] = v[t]]
  /\ UNCHANGED <<lockVars, pc, via, v, result, calls, base, snap,
                 marks>>

(* Mutated form: the exception is swallowed inside setValue's loop.        *)
CallbackThrows_Swallowed(t, k, e) ==
  /\ pc[t] = "notify"
  /\ IsNext(t, k)
  /\ heard' = [heard EXCEPT ![k] = v[t]]
  /\ m_mutex' = m_mutex \ {t}
  /\ pc' = [pc EXCEPT ![t] = "store"]
  /\ threw' = TRUE
  /\ UNCHANGED <<m_val, m_cbs, s_fun_id, via, v, told, result, calls, base,
                 snap, overlapped, reentered>>

(* Mutated form: the lock is not released by unwinding (no RAII).          *)
CallbackThrows_KeepsLock(t, k, e) ==
  /\ pc[t] = "notify"
  /\ IsNext(t, k)
  /\ heard' = [heard EXCEPT ![k] = v[t]]
  /\ pc' = [pc EXCEPT ![t] = "idle"]
  /\ result' = [result EXCEPT ![t] = Raised(via[t], e)]
  /\ threw' = TRUE
  /\ UNCHANGED <<lockVars, via, v, told, calls, base, snap,
                 overlapped, reentered>>

(* A listener runs and throws: unwinding destroys the ReadLock, the        *)
(* remaining listeners are skipped and the value is not stored.            *)
CallbackThrows(t, k, e) ==
  /\ pc[t] = "notify"
  /\ IsNext(t, k)
  /\ heard' = [heard EXCEPT ![k] = v[t]]
  /\ m_mutex' = m_mutex \ {t}
  /\ pc' = [pc EXCEPT ![t] = "idle"]
  /\ result' = [result EXCEPT ![t] = Raised(via[t], e)]
  /\ threw' = TRUE
  /\ UNCHANGED <<m_val, m_cbs, s_fun_id, via, v, told, calls, base, snap,
                 overlapped, reentered>>

(* A listener calls addListener, delListener, clearListener or getListener *)
(* of its variable, and waits for its own thread to give the lock back.    *)
CallbackReenters(t, k) ==
  /\ pc[t] = "notify"
  /\ IsNext(t, k)
  /\ told' = [told EXCEPT ![t] = @ \cup {k}]
  /\ heard' = [heard EXCEPT ![k] = v[t]]
  /\ pc' = [pc EXCEPT ![t] = "stuck"]
  /\ reentered' = TRUE
  /\ UNCHANGED <<lockVars, via, v, result, calls, base, snap, overlapped,
                 threw>>

(* The block of the ReadLock ends.                                         *)
EndNotify(t) ==
  /\ pc[t] = "notify"
  /\ Remaining(t) = {}
  /\ m_mutex' = m_mutex \ {t}
  /\ pc' = [pc EXCEPT ![t] = "store"]
  /\ UNCHANGED <<m_val, m_cbs, s_fun_id, via, v, told, result, calls, base,
                 snap, heard, marks>>

(* Mutated form: the WriteLock is forgotten.                               *)
Store_NoLock(t) ==
  /\ pc[t] = "store"
  /\ m_val' = v[t]
  /\ pc' = [pc EXCEPT ![t] = "idle"]
  /\ result' = [result EXCEPT ![t] = Returned(via[t])]
  /\ UNCHANGED <<m_cbs, m_mutex, s_fun_id, via, v, told, calls, base, snap,
                 heard, marks>>

(* WriteLock, m_val = v, unlock, return.                                   *)
Store(t) ==
  /\ pc[t] = "store"
  /\ m_mutex = {}
  /\ m_val' = v[t]
  /\ pc' = [pc EXCEPT ![t] = "idle"]
  /\ result' = [result EXCEPT ![t] = Returned(via[t])]
  /\ UNCHANGED <<m_cbs, m_mutex, s_fun_id, via, v, told, calls, base, snap,
                 heard, marks>>

-----------------------------------------------------------------------------
(* The listeners.                                                          *)

(* Mutated form: addListener takes the lock for reading.                   *)
AddListener_ReadLock ==
  /\ s_fun_id < MaxListeners
  /\ s_fun_id' = s_fun_id + 1
  /\ m_cbs' = m_cbs \cup {s_fun_id + 1}
  /\ UNCHANGED <<m_val, m_mutex, callVars, heard, marks>>

AddListener ==
  /\ m_mutex = {}
  /\ s_fun_id < MaxListeners
  /\ s_fun_id' = s_fun_id + 1
  /\ m_cbs' = m_cbs \cup {s_fun_id + 1}
  /\ UNCHANGED <<m_val, m_mutex, callVars, heard, marks>>

DelListener(k) ==
  /\ m_mutex = {}
  /\ m_cbs' = m_cbs \ {k}
  /\ UNCHANGED <<m_val, m_mutex, s_fun_id, callVars, heard, marks>>

ClearListener ==
  /\ m_mutex = {}
  /\ m_cbs' = {}
  /\ UNCHANGED <<m_val, m_mutex, s_fun_id, callVars, heard, marks>>

-----------------------------------------------------------------------------
SetterStep(t) ==
  \/ \E k \in Keys : Callback(t, k)
  \/ \E k \in Keys, e \in Exceptions : CallbackThrows(t, k, e)
  \/ EndNotify(t)
  \/ Store(t)

SetterCall(t) ==
  \/ ConversionFails(t)
  \/ \E entry \in Entries : SetSame(t, entry)
  \/ \E entry \in Entries, x \in Values : SetDiffers(t, entry, x)

RegistrarStep ==
  \/ AddListener
  \/ \E k \in Keys : DelListener(k)
  \/ ClearListener

Next ==
  \/ \E t \in Setters :
       \/ SetterStep(t) \/ SetterCall(t)
       \/ \E k \in Keys : CallbackReenters(t, k)
  \/ RegistrarStep

Spec == Init /\ [][Next]_vars

(* The scheduler runs every thread that can run; nobody has to call.       *)
FairSpec == Spec /\ \A t \in Setters : WF_vars(SetterStep(t))

-----------------------------------------------------------------------------
(* Properties.                                                             *)

(* While the listeners of a call run, the value they are told is the old   *)
(* one stays the value, it differs from the new one, and the map under the *)
(* iterator is the one the iteration began with: the read lock of          *)
(* config.h:453 keeps every setValue, addListener, delListener and         *)
(* clearListener of other threads out.                                     *)
IterationStable ==
  \A t \in Setters : pc[t] \in {"notify", "stuck"} =>
    /\ m_val = base[t]
    /\ m_val # v[t]
    /\ m_cbs = snap[t]

(* A value becomes visible only through a setter that has called every     *)
(* listener registered when its iteration began, none of which threw       *)
(* (config.h:457-462: notify first, store afterwards).                     *)
AnnouncedBeforeVisible ==
  [][m_val' # m_val =>
       \E t \in Setters :
         /\ pc[t] = "store" /\ pc'[t] = "idle"
         /\ m_val' = v[t]
         /\ told[t] = snap[t]]_vars

(* The value a call replaces is the old_value its listeners were given     *)
(* (config.h:402), whoever registers and removes listeners and whatever    *)
(* they throw, as long as no two calls overlap: between the two locked     *)
(* sections of a setValue (config.h:460-461) another call may store.       *)
ReplacesAnnouncedOld ==
  [][\A t \in Setters :
       pc[t] = "store" /\ pc'[t] = "idle" /\ ~ overlapped =>
         m_val = base[t]]_vars

(* When no call is in progress, a listener that was ever told something    *)
(* was last told the value that m_val has now, as long as no two calls     *)
(* overlapped and no listener threw: one that throws leaves those before   *)
(* it with a value that is never stored (config.h:457-462).                *)
ListenersAgree ==
  (\A t \in Setters : pc[t] = "idle") /\ ~ overlapped /\ ~ threw =>
    \A k \in m_cbs : heard[k] \in {Never, m_val}

(* Every call returns, whichever listeners throw and however the two       *)
(* locked sections of concurrent calls interleave, unless a listener has   *)
(* called its own variable, whose lock its thread holds (config.h:453, and *)
(* 468, 475, 481, 489).  MaxCalls bounds the calls: the rwlock prefers     *)
(* readers and may starve a writer otherwise.                              *)
CallsReturn ==
  \A t \in Setters : pc[t] # "idle" ~> pc[t] = "idle" \/ reentered

O == INSTANCE ObservedVariable WITH
  Callers <- Setters,
  value <- m_val,
  observers <- m_cbs,
  busy <- {t \in Setters : pc[t] # "idle"},
  new <- v,
  left <- [t \in Setters |-> snap[t] \ told[t]]

(* setValue announces and replaces, and listeners come and go, as an       *)
(* observed variable promises (config.h:451-491), although comparing,      *)
(* telling and storing are not one section of its lock.                    *)
ImplementsObservedVariable == O!Spec
=============================================================================
