---------------------------- MODULE ConfigVarProofs ----------------------------
(***************************************************************************)
(* What setValue, addListener and delListener guarantee for any number of  *)
(* threads, listeners and calls, and the two guarantees that need calls    *)
(* that do not overlap.                                                    *)
(***************************************************************************)
EXTENDS ConfigVar, ListenerHandles, TLAPS

(* The lock is held for reading exactly by the threads that are notifying. *)
LockInv == \A t \in Setters : t \in m_mutex <=> pc[t] \in {"notify", "stuck"}

(* The listeners told so far are the first ones, in key order, of the map  *)
(* the iteration began with; all of them once the iteration is over.       *)
Prefix(t) ==
  \A k \in m_cbs : (\E j \in told[t] : k <= j) => k \in told[t]

ToldInv ==
  \A t \in Setters :
    /\ pc[t] \in {"notify", "stuck"} =>
         told[t] \subseteq snap[t] /\ Prefix(t)
    /\ pc[t] = "store" => told[t] = snap[t]

IInv == TypeOK /\ LockInv /\ IterationStable /\ ToldInv

-----------------------------------------------------------------------------
(* Types are preserved by every step.                                      *)
LEMMA TypeStep == TypeOK /\ [Next]_vars => TypeOK'
<1> SUFFICES ASSUME TypeOK, [Next]_vars PROVE TypeOK'
  OBVIOUS
<1> USE ConfigVarAssumption DEF TypeOK, Keys, Entries, marks
<1>1. ASSUME NEW t \in Setters, SetterStep(t) PROVE TypeOK'
  <2>1. ASSUME NEW k \in Keys, Callback(t, k) PROVE TypeOK'
    BY <2>1 DEF Callback, IsNext, Remaining, lockVars
  <2>2. ASSUME NEW k \in Keys, NEW e \in Exceptions, CallbackThrows(t, k, e)
        PROVE TypeOK'
    <3>1. Raised(via[t], e) \in {"none", "void", "false", "thrown"}
      BY DEF Raised
    <3> QED
      BY <2>2, <3>1 DEF CallbackThrows
  <2>3. CASE EndNotify(t)
    BY <2>3 DEF EndNotify
  <2>4. CASE Store(t)
    <3>1. Returned(via[t]) \in {"none", "void", "false", "thrown"}
      BY DEF Returned
    <3> QED
      BY <2>4, <3>1 DEF Store
  <2> QED
    BY <1>1, <2>1, <2>2, <2>3, <2>4 DEF SetterStep
<1>2. ASSUME NEW t \in Setters, SetterCall(t) PROVE TypeOK'
  <2>1. CASE ConversionFails(t)
    BY <2>1 DEF ConversionFails, MayCall, lockVars
  <2>2. ASSUME NEW entry \in Entries, SetSame(t, entry) PROVE TypeOK'
    <3>1. Returned(entry) \in {"none", "void", "false", "thrown"}
      BY DEF Returned
    <3> QED
      BY <2>2, <3>1 DEF SetSame, MayCall, lockVars
  <2>3. ASSUME NEW entry \in Entries, NEW x \in Values,
               SetDiffers(t, entry, x)
        PROVE TypeOK'
    BY <2>3 DEF SetDiffers, MayCall
  <2> QED
    BY <1>2, <2>1, <2>2, <2>3 DEF SetterCall
<1>5. ASSUME NEW t \in Setters, NEW k \in Keys, CallbackReenters(t, k)
      PROVE TypeOK'
  BY <1>5 DEF CallbackReenters, IsNext, Remaining, lockVars
<1>3. CASE RegistrarStep
  <2>1. CASE AddListener
    BY <2>1 DEF AddListener, callVars
  <2>2. ASSUME NEW k \in Keys, DelListener(k) PROVE TypeOK'
    BY <2>2 DEF DelListener, callVars
  <2>3. CASE ClearListener
    BY <2>3 DEF ClearListener, callVars
  <2> QED
    BY <1>3, <2>1, <2>2, <2>3 DEF RegistrarStep
<1>4. CASE UNCHANGED vars
  BY <1>4 DEF vars, lockVars, callVars
<1> QED
  BY <1>1, <1>2, <1>3, <1>4, <1>5 DEF Next

(* The lock, the iteration and the listeners told stay in step.            *)
LEMMA CoreStep ==
  IInv /\ [Next]_vars => LockInv' /\ IterationStable' /\ ToldInv'
<1> SUFFICES ASSUME IInv, [Next]_vars
             PROVE  LockInv' /\ IterationStable' /\ ToldInv'
  OBVIOUS
<1> DEFINE Goal == LockInv' /\ IterationStable' /\ ToldInv'
<1> USE DEF IInv, TypeOK, LockInv, IterationStable, ToldInv, Prefix
<1>1. ASSUME NEW t \in Setters, SetterStep(t) PROVE Goal
  <2>1. ASSUME NEW k \in Keys, Callback(t, k) PROVE Goal
    <3> USE <2>1 DEF Callback, IsNext, Remaining, lockVars, Keys
    <3>1. LockInv' /\ IterationStable'
      OBVIOUS
    <3>2. told'[t] \subseteq snap'[t]
      OBVIOUS
    <3>3. \A i \in m_cbs : i <= k => i = k \/ \E j \in told[t] : i <= j
      OBVIOUS
    <3>4. Prefix(t)'
      BY <3>3
    <3> QED
      BY <3>1, <3>2, <3>4
  <2>2. ASSUME NEW k \in Keys, NEW e \in Exceptions, CallbackThrows(t, k, e)
        PROVE Goal
    BY <2>2 DEF CallbackThrows
  <2>3. CASE EndNotify(t)
    <3>1. m_cbs = snap[t] /\ told[t] \subseteq snap[t]
      BY <2>3 DEF EndNotify
    <3>2. ASSUME NEW k \in m_cbs PROVE k \in told[t]
      <4>1. PICK j \in told[t] : ~ (j < k)
        BY <2>3 DEF EndNotify, Remaining
      <4>2. j \in Nat /\ k \in Nat
        BY <3>1 DEF Keys
      <4> QED
        BY <2>3, <4>1, <4>2 DEF EndNotify
    <3> QED
      BY <2>3, <3>1, <3>2 DEF EndNotify
  <2>4. CASE Store(t)
    BY <2>4 DEF Store
  <2> QED
    BY <1>1, <2>1, <2>2, <2>3, <2>4 DEF SetterStep
<1>2. ASSUME NEW t \in Setters, SetterCall(t) PROVE Goal
  <2>1. CASE ConversionFails(t)
    BY <2>1 DEF ConversionFails, lockVars
  <2>2. ASSUME NEW entry \in Entries, SetSame(t, entry) PROVE Goal
    BY <2>2 DEF SetSame, lockVars
  <2>3. ASSUME NEW entry \in Entries, NEW x \in Values,
               SetDiffers(t, entry, x)
        PROVE Goal
    BY <2>3 DEF SetDiffers, MayCall
  <2> QED
    BY <1>2, <2>1, <2>2, <2>3 DEF SetterCall
<1>3. CASE RegistrarStep
  <2>1. m_mutex = {} /\ UNCHANGED <<m_val, m_mutex, callVars>>
    BY <1>3 DEF RegistrarStep, AddListener, DelListener, ClearListener
  <2>2. \A t \in Setters : pc[t] \notin {"notify", "stuck"}
    BY <2>1
  <2> QED
    BY <2>1, <2>2 DEF callVars
<1>4. CASE UNCHANGED vars
  BY <1>4 DEF vars, lockVars, callVars
<1>5. ASSUME NEW t \in Setters, NEW k \in Keys, CallbackReenters(t, k)
      PROVE Goal
  <2> USE <1>5 DEF CallbackReenters, IsNext, Remaining, lockVars, Keys
  <2>1. LockInv' /\ IterationStable'
    OBVIOUS
  <2>2. told'[t] \subseteq snap'[t]
    OBVIOUS
  <2>3. \A i \in m_cbs : i <= k => i = k \/ \E j \in told[t] : i <= j
    OBVIOUS
  <2>4. Prefix(t)'
    BY <2>3
  <2> QED
    BY <2>1, <2>2, <2>4
<1> QED
  BY <1>1, <1>2, <1>3, <1>4, <1>5 DEF Next

LEMMA InitIInv == Init => IInv
<1> SUFFICES ASSUME Init PROVE IInv
  OBVIOUS
<1>1. overlapped \in BOOLEAN /\ threw \in BOOLEAN /\ reentered \in BOOLEAN
  BY DEF Init
<1>2. TypeOK
  BY <1>1, ConfigVarAssumption DEF Init, TypeOK, Keys, Entries
<1>3. LockInv /\ IterationStable /\ ToldInv
  BY DEF Init, LockInv, IterationStable, ToldInv
<1> QED
  BY <1>2, <1>3 DEF IInv

LEMMA NextIInv == IInv /\ [Next]_vars => IInv'
BY TypeStep, CoreStep DEF IInv

LEMMA Inductive == Spec => []IInv
BY InitIInv, NextIInv, PTL DEF Spec

(* Every variable keeps its type (mumu/config.h:397-497).                  *)
THEOREM TypeCorrect == Spec => []TypeOK
BY Inductive, PTL DEF IInv

(* The read lock of config.h:453 protects the iteration and the old value  *)
(* for every number of threads that set, add, delete and clear.            *)
THEOREM IterationIsStable == Spec => []IterationStable
BY Inductive, PTL DEF IInv

(* No value becomes visible before every listener of its call has returned *)
(* (config.h:457-462).                                                     *)
THEOREM AnnouncedFirst == Spec => AnnouncedBeforeVisible
<1> DEFINE A == m_val' # m_val =>
                  \E t \in Setters :
                    /\ pc[t] = "store" /\ pc'[t] = "idle"
                    /\ m_val' = v[t]
                    /\ told[t] = snap[t]
<1>1. IInv /\ [Next]_vars => A
  <2> SUFFICES ASSUME IInv, Next, m_val' # m_val PROVE A
    BY DEF vars, lockVars
  <2>1. PICK t \in Setters : Store(t)
    BY DEF Next, SetterStep, SetterCall, RegistrarStep, Callback,
           CallbackThrows, CallbackReenters, EndNotify, ConversionFails, SetSame, SetDiffers,
           AddListener, DelListener, ClearListener, lockVars
  <2> QED
    BY <2>1 DEF Store, IInv, TypeOK, ToldInv
<1> QED
  BY Inductive, <1>1, PTL DEF Spec, AnnouncedBeforeVisible

-----------------------------------------------------------------------------
(* Calls that do not overlap.                                              *)

(* At most one call is in progress, and nothing happens to the value       *)
(* between its two locked sections.                                        *)
AloneInv ==
  ~ overlapped =>
    /\ \A s, t \in Setters : pc[s] # "idle" /\ pc[t] # "idle" => s = t
    /\ \A t \in Setters : pc[t] = "store" => m_val = base[t]

LEMMA AloneStep == IInv /\ AloneInv /\ [Next]_vars => AloneInv'
<1> SUFFICES ASSUME IInv, AloneInv, [Next]_vars PROVE AloneInv'
  OBVIOUS
<1> USE DEF AloneInv, marks
<1>1. ASSUME NEW t \in Setters, Store(t) PROVE AloneInv'
  BY <1>1 DEF Store, IInv, TypeOK
<1>2. ASSUME NEW t \in Setters, EndNotify(t) PROVE AloneInv'
  BY <1>2 DEF EndNotify, IInv, TypeOK, IterationStable
<1>3. ASSUME NEW t \in Setters, NEW k \in Keys,
             \/ Callback(t, k) \/ CallbackReenters(t, k)
             \/ \E e \in Exceptions : CallbackThrows(t, k, e)
      PROVE AloneInv'
  BY <1>3 DEF Callback, CallbackThrows, CallbackReenters, lockVars, IInv,
              TypeOK
<1>4. ASSUME NEW t \in Setters, SetterCall(t) PROVE AloneInv'
  <2>1. CASE \E entry \in Entries, x \in Values : SetDiffers(t, entry, x)
    <3>1. ~ overlapped' => ~ overlapped /\ \A s \in Setters : pc[s] = "idle"
      BY <2>1 DEF SetDiffers, IInv, TypeOK
    <3>2. \A s \in Setters : pc'[s] = IF s = t THEN "notify" ELSE pc[s]
      BY <2>1 DEF SetDiffers, IInv, TypeOK
    <3> QED
      BY <3>1, <3>2
  <2>2. CASE ConversionFails(t) \/ \E entry \in Entries : SetSame(t, entry)
    BY <2>2 DEF ConversionFails, SetSame, lockVars
  <2> QED
    BY <1>4, <2>1, <2>2 DEF SetterCall
<1>5. CASE RegistrarStep
  BY <1>5 DEF RegistrarStep, AddListener, DelListener, ClearListener,
              callVars
<1>6. CASE UNCHANGED vars
  BY <1>6 DEF vars, lockVars, callVars
<1> QED
  BY <1>1, <1>2, <1>3, <1>4, <1>5, <1>6 DEF Next, SetterStep

LEMMA InitAlone == Init => AloneInv
BY DEF Init, AloneInv

(* As long as no two calls overlap, the old value the listeners are given  *)
(* is the value the call replaces (config.h:402, 451-463), whatever they   *)
(* throw and whoever registers or removes listeners meanwhile.             *)
THEOREM ReplacesAnnounced == Spec => ReplacesAnnouncedOld
<1> DEFINE A == \A t \in Setters :
                  pc[t] = "store" /\ pc'[t] = "idle" /\ ~ overlapped =>
                    m_val = base[t]
<1>1. AloneInv => A
  BY DEF AloneInv
<1> QED
  BY Inductive, InitAlone, AloneStep, <1>1, PTL DEF Spec, ReplacesAnnouncedOld

-----------------------------------------------------------------------------
(* Calls that do not overlap, and listeners that do not throw.             *)

(* Keys above s_fun_id have never been handed out.                         *)
FreshInv ==
  /\ \A k \in m_cbs : k <= s_fun_id
  /\ \A t \in Setters : \A k \in told[t] : k <= s_fun_id
  /\ \A k \in Keys : k > s_fun_id => heard[k] = Never

(* What each registered listener was last told, by the phase of the call.  *)
HeardInv ==
  ~ overlapped /\ ~ threw => \A k \in m_cbs :
    /\ (\A t \in Setters : pc[t] = "idle") => heard[k] \in {Never, m_val}
    /\ \A t \in Setters :
         /\ pc[t] \in {"notify", "stuck"} /\ k \in told[t] => heard[k] = v[t]
         /\ pc[t] \in {"notify", "stuck"} /\ k \notin told[t] =>
              heard[k] \in {Never, m_val}
         /\ pc[t] = "store" /\ k \in told[t] => heard[k] = v[t]
         /\ pc[t] = "store" /\ k \notin told[t] => heard[k] = Never

LEMMA FreshStep == IInv /\ FreshInv /\ [Next]_vars => FreshInv'
<1> SUFFICES ASSUME IInv, FreshInv, [Next]_vars PROVE FreshInv'
  OBVIOUS
<1> USE DEF FreshInv
<1>1. ASSUME NEW t \in Setters, NEW k \in Keys,
             \/ Callback(t, k) \/ CallbackReenters(t, k)
             \/ \E e \in Exceptions : CallbackThrows(t, k, e)
      PROVE FreshInv'
  <2>1. k \in m_cbs /\ heard' = [heard EXCEPT ![k] = v[t]]
    BY <1>1 DEF Callback, CallbackThrows, CallbackReenters, IsNext, Remaining
  <2>2. UNCHANGED <<m_cbs, s_fun_id>>
    BY <1>1 DEF Callback, CallbackThrows, CallbackReenters, lockVars
  <2>3. \A s \in Setters : told'[s] \subseteq told[s] \cup {k}
    BY <1>1 DEF Callback, CallbackThrows, CallbackReenters, IInv, TypeOK
  <2>4. k <= s_fun_id /\ s_fun_id \in Nat /\ k \in Nat
    BY <2>1 DEF IInv, TypeOK, Keys
  <2>5. \A i \in Keys : i > s_fun_id => i # k
    BY <2>4
  <2> QED
    BY <2>1, <2>2, <2>3, <2>4, <2>5 DEF IInv, TypeOK
<1>2. CASE AddListener
  <2>1. s_fun_id \in Nat /\ Keys \subseteq Nat /\ m_cbs \subseteq Keys
        /\ \A t \in Setters : told[t] \subseteq Keys
    BY DEF IInv, TypeOK, Keys
  <2>2. s_fun_id' = s_fun_id + 1 /\ m_cbs' = m_cbs \cup {s_fun_id + 1}
        /\ told' = told /\ heard' = heard
    BY <1>2 DEF AddListener, callVars
  <2>3. \A k \in m_cbs' : k <= s_fun_id'
    BY <2>1, <2>2
  <2>4. ASSUME NEW t \in Setters, NEW k \in told'[t] PROVE k <= s_fun_id'
    <3>1. k \in Nat /\ k <= s_fun_id
      BY <2>1, <2>2
    <3> QED
      BY <2>1, <2>2, <3>1
  <2>5. \A k \in Keys : k > s_fun_id' => heard'[k] = Never
    BY <2>1, <2>2
  <2> QED
    BY <2>3, <2>4, <2>5
<1>3. ASSUME NEW t \in Setters, SetterCall(t) \/ EndNotify(t) \/ Store(t)
      PROVE FreshInv'
  <2>1. UNCHANGED <<m_cbs, s_fun_id, heard>>
    BY <1>3 DEF SetterCall, EndNotify, Store, ConversionFails, SetSame,
                SetDiffers, lockVars
  <2>2. \A s \in Setters : told'[s] \subseteq told[s]
    BY <1>3 DEF SetterCall, EndNotify, Store, ConversionFails, SetSame,
                SetDiffers, IInv, TypeOK
  <2> QED
    BY <2>1, <2>2
<1>4. CASE ClearListener \/ \E k \in Keys : DelListener(k)
  BY <1>4 DEF ClearListener, DelListener, callVars
<1>5. CASE UNCHANGED vars
  BY <1>5 DEF vars, lockVars, callVars
<1> QED
  BY <1>1, <1>2, <1>3, <1>4, <1>5 DEF Next, SetterStep, RegistrarStep

LEMMA HeardStep ==
  IInv /\ AloneInv /\ FreshInv /\ HeardInv /\ [Next]_vars => HeardInv'
<1> SUFFICES ASSUME IInv, AloneInv, FreshInv, HeardInv, [Next]_vars
             PROVE  HeardInv'
  OBVIOUS
<1> USE DEF HeardInv, AloneInv, IInv, TypeOK, marks
<1>1. ASSUME NEW t \in Setters, NEW k \in Keys,
             Callback(t, k) \/ CallbackReenters(t, k)
      PROVE HeardInv'
  BY <1>1 DEF Callback, CallbackReenters, IsNext, Remaining, lockVars
<1>2. ASSUME NEW t \in Setters, EndNotify(t) PROVE HeardInv'
  <2>1. m_cbs \subseteq told[t]
    <3> SUFFICES ASSUME NEW k \in m_cbs PROVE k \in told[t]
      OBVIOUS
    <3>1. PICK j \in told[t] : ~ (j < k)
      BY <1>2 DEF EndNotify, Remaining
    <3>2. j \in Nat /\ k \in Nat
      BY <1>2 DEF Keys
    <3> QED
      BY <1>2, <3>1, <3>2 DEF EndNotify, ToldInv, Prefix
  <2> QED
    BY <1>2, <2>1 DEF EndNotify
<1>3. ASSUME NEW t \in Setters, Store(t) PROVE HeardInv'
  BY <1>3 DEF Store
<1>4. ASSUME NEW t \in Setters, NEW entry \in Entries, NEW x \in Values,
             SetDiffers(t, entry, x)
      PROVE HeardInv'
  <2>1. ~ overlapped' => ~ overlapped /\ \A s \in Setters : pc[s] = "idle"
    BY <1>4 DEF SetDiffers
  <2>2. \A s \in Setters : pc'[s] = IF s = t THEN "notify" ELSE pc[s]
    BY <1>4 DEF SetDiffers
  <2>3. told'[t] = {} /\ UNCHANGED <<m_val, m_cbs, heard, threw>>
    BY <1>4 DEF SetDiffers
  <2> QED
    BY <2>1, <2>2, <2>3
<1>5. ASSUME NEW t \in Setters,
             ConversionFails(t) \/ \E entry \in Entries : SetSame(t, entry)
      PROVE HeardInv'
  BY <1>5 DEF ConversionFails, SetSame, MayCall, lockVars
<1>6. ASSUME NEW t \in Setters, NEW k \in Keys, NEW e \in Exceptions,
             CallbackThrows(t, k, e)
      PROVE HeardInv'
  BY <1>6 DEF CallbackThrows
<1>7. CASE AddListener
  <2>1. s_fun_id \in Nat /\ s_fun_id + 1 \in Keys
    BY <1>7, ConfigVarAssumption DEF AddListener, Keys
  <2>2. heard[s_fun_id + 1] = Never
    BY <2>1 DEF FreshInv
  <2>3. \A t \in Setters : s_fun_id + 1 \notin told[t]
    BY <2>1 DEF FreshInv
  <2> QED
    BY <1>7, <2>2, <2>3 DEF AddListener, callVars
<1>8. CASE ClearListener \/ \E k \in Keys : DelListener(k)
  BY <1>8 DEF ClearListener, DelListener, callVars
<1>9. CASE UNCHANGED vars
  BY <1>9 DEF vars, lockVars, callVars
<1> QED
  BY <1>1, <1>2, <1>3, <1>4, <1>5, <1>6, <1>7, <1>8, <1>9
     DEF Next, SetterStep, SetterCall, RegistrarStep

(* As long as no two calls overlap and no listener throws, a listener that *)
(* was told anything was last told the present value, whenever no call is  *)
(* in progress (config.h:451-463).                                         *)
THEOREM ListenersKnow == Spec => []ListenersAgree
<1>1. Init => FreshInv /\ HeardInv
  BY DEF Init, FreshInv, HeardInv, Keys
<1>2. IInv /\ AloneInv /\ FreshInv /\ HeardInv /\ [Next]_vars =>
        FreshInv' /\ HeardInv'
  BY FreshStep, HeardStep
<1>3. HeardInv => ListenersAgree
  BY DEF HeardInv, ListenersAgree
<1> QED
  BY Inductive, InitAlone, AloneStep, <1>1, <1>2, <1>3, PTL DEF Spec

-----------------------------------------------------------------------------
(* ConfigVar implements an observed variable.                              *)

(* A caller outside its iteration has told everybody or given up.          *)
LEMMA NobodyAnnounces ==
  ASSUME IInv, m_mutex = {}
  PROVE  O!Announcing = {}
<1>1. ASSUME NEW t \in Setters, pc[t] # "idle" PROVE snap[t] \ told[t] = {}
  BY <1>1 DEF IInv, TypeOK, LockInv, ToldInv
<1> QED
  BY <1>1 DEF O!Announcing

(* The first listener that the iterator has not passed is the least key    *)
(* that the call has still to tell.                                        *)
LEMMA NextToTell ==
  ASSUME IInv, NEW t \in Setters, NEW k \in Keys, pc[t] = "notify",
         IsNext(t, k)
  PROVE  k \in snap[t] \ told[t] /\ \A j \in snap[t] \ told[t] : k <= j
<1> USE DEF IInv, TypeOK, Keys
<1>1. m_cbs = snap[t] /\ Prefix(t)
  BY DEF IterationStable, ToldInv
<1>2. k \in m_cbs /\ k \notin told[t]
  BY DEF IsNext, Remaining
<1>3. ASSUME NEW j \in m_cbs, j \notin told[t] PROVE j \in Remaining(t)
  BY <1>1, <1>3 DEF Prefix, Remaining
<1> QED
  BY <1>1, <1>2, <1>3 DEF IsNext

LEMMA StepRefines == IInv /\ [Next]_vars => [O!Next]_(O!vars)
<1> SUFFICES ASSUME IInv, [Next]_vars PROVE O!Next \/ UNCHANGED O!vars
  OBVIOUS
<1> DEFINE busy == {t \in Setters : pc[t] # "idle"}
           left == [t \in Setters |-> snap[t] \ told[t]]
<1>t. TypeOK
  BY DEF IInv
<1>1. ASSUME NEW t \in Setters, NEW k \in Keys,
             Callback(t, k) \/ CallbackReenters(t, k)
      PROVE O!Tell(t, k)
  <2>1. pc[t] = "notify" /\ IsNext(t, k)
    BY <1>1 DEF Callback, CallbackReenters
  <2>2. UNCHANGED <<m_val, m_cbs, v, busy>>
    BY <1>1, <1>t DEF Callback, CallbackReenters, lockVars, TypeOK
  <2>3. left' = [left EXCEPT ![t] = left[t] \ {k}]
    <3>1. snap' = snap /\ told' = [told EXCEPT ![t] = @ \cup {k}]
      BY <1>1 DEF Callback, CallbackReenters
    <3>2. \A s \in Setters : told'[s] = IF s = t THEN told[s] \cup {k} ELSE told[s]
      BY <3>1, <1>t DEF TypeOK
    <3>3. ASSUME NEW s \in Setters
          PROVE snap[s] \ told'[s] = IF s = t THEN (snap[s] \ told[s]) \ {k}
                                      ELSE snap[s] \ told[s]
      BY <3>2
    <3> QED
      BY <3>1, <3>3
  <2>4. k \in left[t] /\ \A j \in left[t] : k <= j
    BY <2>1, NextToTell
  <2>5. t \in busy
    BY <2>1
  <2> QED
    BY <2>2, <2>3, <2>4, <2>5 DEF O!Tell
<1>2. ASSUME NEW t \in Setters, NEW k \in Keys, NEW e \in Exceptions,
             CallbackThrows(t, k, e)
      PROVE O!GiveUp(t)
  <2>1. pc[t] = "notify" /\ IsNext(t, k)
    BY <1>2 DEF CallbackThrows
  <2>2. t \in O!Announcing
    BY <2>1, NextToTell DEF O!Announcing
  <2>3. busy' = busy \ {t}
    BY <1>2, <1>t DEF CallbackThrows, TypeOK
  <2>4. UNCHANGED <<m_val, m_cbs, v, left>>
    BY <1>2 DEF CallbackThrows
  <2> QED
    BY <2>2, <2>3, <2>4 DEF O!GiveUp
<1>3. ASSUME NEW t \in Setters, EndNotify(t) PROVE UNCHANGED O!vars
  <2>1. busy' = busy
    BY <1>3, <1>t DEF EndNotify, TypeOK
  <2> QED
    BY <1>3, <2>1 DEF EndNotify, O!vars
<1>4. ASSUME NEW t \in Setters, Store(t) PROVE O!Replace(t)
  <2>1. t \in busy /\ O!Announcing = {}
    BY <1>4, NobodyAnnounces DEF Store
  <2>2. busy' = busy \ {t}
    BY <1>4, <1>t DEF Store, TypeOK
  <2> QED
    BY <1>4, <2>1, <2>2 DEF Store, O!Replace
<1>5. ASSUME NEW t \in Setters,
             ConversionFails(t) \/ \E entry \in Entries : SetSame(t, entry)
      PROVE UNCHANGED O!vars
  BY <1>5 DEF ConversionFails, SetSame, lockVars, O!vars
<1>6. ASSUME NEW t \in Setters, NEW entry \in Entries, NEW x \in Values,
             SetDiffers(t, entry, x)
      PROVE O!Begin(t, x)
  <2>1. t \notin busy /\ busy' = busy \cup {t}
    BY <1>6, <1>t DEF SetDiffers, MayCall, TypeOK
  <2>2. left' = [left EXCEPT ![t] = m_cbs]
    BY <1>6, <1>t DEF SetDiffers, TypeOK
  <2> QED
    BY <1>6, <2>1, <2>2 DEF SetDiffers, O!Begin
<1>7. CASE RegistrarStep
  <2>1. UNCHANGED <<m_val, v, busy, left>> /\ m_mutex = {}
    BY <1>7 DEF RegistrarStep, AddListener, DelListener, ClearListener,
                callVars
  <2>2. m_cbs' \in SUBSET Keys
    BY <1>t, <1>7, TypeStep DEF TypeOK
  <2> QED
    BY <2>1, <2>2, NobodyAnnounces DEF O!Next, O!Observe
<1>8. CASE UNCHANGED vars
  BY <1>8 DEF vars, lockVars, callVars, O!vars
<1> QED
  BY <1>1, <1>2, <1>3, <1>4, <1>5, <1>6, <1>7, <1>8
     DEF Next, SetterStep, SetterCall, O!Next

(* A ConfigVar is an observed variable for any number of threads and       *)
(* listeners: every listener registered when a call begins is told its new *)
(* value once, in the order of the keys, before the value is replaced, and *)
(* the value and the listeners stay as they are meanwhile (config.h:451-   *)
(* 491).                                                                   *)
THEOREM Refinement == Spec => ImplementsObservedVariable
<1>1. Init => O!Init
  BY DEF Init, O!Init
<1> QED
  BY Inductive, <1>1, StepRefines, PTL DEF Spec, ImplementsObservedVariable, O!Spec
-----------------------------------------------------------------------------
(* The keys addListener hands out (ListenerKeys, with a state of its own). *)
(* With one ConfigVar per type T the lock of the variable also protects    *)
(* the counter, for any number of threads and registrations.  (With two,   *)
(* the run ListenerKeys_two_variables shows a key handed out twice.)       *)
CONSTANTS Threads, Vars, Callbacks, Free
VARIABLES k_mutex, k_fun_id, k_pc, at, cb, reg, used

K == INSTANCE ListenerKeys
       WITH m_mutex <- k_mutex, s_fun_id <- k_fun_id, pc <- k_pc

OneVariable == \E x : Vars = {x}

(* ListenerKeysAssumption of the instance.                                 *)
FreeOwner == Free \notin Threads

Adding(t) == k_pc[t] # "idle"

(* A thread inside addListener holds the lock of its variable.             *)
KeyLockInv == \A t \in Threads : Adding(t) => k_mutex[at[t]] = t

(* What the steps of addListener have established so far.                  *)
KeyStepInv ==
  \A t \in Threads :
    /\ k_pc[t] = "store" => reg[t] = k_fun_id
    /\ k_pc[t] = "return" => <<k_fun_id, cb[t]>> \in cbs[at[t]]

(* Every key returned so far is at most the counter, and below it while a  *)
(* thread is about to use the counter's new value.                         *)
KeyOrderInv ==
  \A h \in handles :
    /\ h.key <= k_fun_id
    /\ \A t \in Threads : k_pc[t] \in {"index", "return"} => h.key < k_fun_id

KeysInv ==
  K!TypeOK /\ KeyLockInv /\ KeyStepInv /\ KeyOrderInv /\ KeyIsUnique
         /\ HandleFindsItsCallback

-----------------------------------------------------------------------------
(* The threads inside addListener are at most one.                         *)
LEMMA Exclusion ==
  ASSUME OneVariable, K!TypeOK, KeyLockInv,
         NEW s \in Threads, NEW t \in Threads, Adding(s), Adding(t)
  PROVE  s = t
<1>1. at[s] = at[t]
  BY OneVariable DEF OneVariable, K!TypeOK
<1> QED
  BY <1>1 DEF KeyLockInv

(* A free lock means no thread is inside addListener.                      *)
LEMMA FreeMeansIdle ==
  ASSUME OneVariable, FreeOwner, K!TypeOK, KeyLockInv,
         NEW x \in Vars, k_mutex[x] = Free, NEW t \in Threads
  PROVE  k_pc[t] = "idle"
<1>1. at[t] = x
  BY OneVariable DEF OneVariable, K!TypeOK
<1> QED
  BY <1>1, FreeOwner DEF FreeOwner, KeyLockInv, Adding

LEMMA KeyTypeStep == K!TypeOK /\ [K!Next]_(K!vars) => K!TypeOK'
<1> SUFFICES ASSUME K!TypeOK, [K!Next]_(K!vars) PROVE K!TypeOK'
  OBVIOUS
<1> USE DEF K!TypeOK
<1>1. ASSUME NEW t \in Threads, K!AddListener(t) PROVE K!TypeOK'
  <2>1. ASSUME NEW x \in Vars, NEW c \in Callbacks, K!Lock(t, x, c)
        PROVE K!TypeOK'
    BY <2>1 DEF K!Lock
  <2>2. CASE K!LoadId(t)
    BY <2>2 DEF K!LoadId, K!callVars
  <2>3. CASE K!StoreId(t)
    BY <2>3 DEF K!StoreId, K!callVars
  <2>4. CASE K!Index(t)
    BY <2>4 DEF K!Index, K!Assign, K!callVars
  <2>5. CASE K!Return(t)
    <3>1. [cb |-> cb[t], var |-> at[t], key |-> k_fun_id] \in K!Handles
      BY DEF K!Handles
    <3> QED
      BY <2>5, <3>1 DEF K!Return, K!callVars
  <2> QED
    BY <1>1, <2>1, <2>2, <2>3, <2>4, <2>5 DEF K!AddListener
<1>2. ASSUME NEW h \in handles, K!DelListener(h) PROVE K!TypeOK'
  BY <1>2 DEF K!DelListener, K!callVars
<1>3. ASSUME NEW x \in Vars, K!ClearListener(x) PROVE K!TypeOK'
  BY <1>3 DEF K!ClearListener, K!callVars
<1>4. CASE UNCHANGED K!vars
  BY <1>4 DEF K!vars, K!callVars
<1> QED
  BY <1>1, <1>2, <1>3, <1>4 DEF K!Next

LEMMA KeysStep ==
  ASSUME OneVariable, FreeOwner, KeysInv, [K!Next]_(K!vars)
  PROVE  KeysInv'
<1>0. K!TypeOK'
  BY KeyTypeStep DEF KeysInv
<1> USE <1>0 DEF KeysInv, KeyLockInv, KeyStepInv, KeyOrderInv, KeyIsUnique,
                 HandleFindsItsCallback, Adding
<1>1. ASSUME NEW t \in Threads, K!AddListener(t) PROVE KeysInv'
  <2>1. ASSUME NEW x \in Vars, NEW c \in Callbacks, K!Lock(t, x, c)
        PROVE KeysInv'
    <3>1. \A s \in Threads : k_pc[s] = "idle"
      BY <2>1, FreeMeansIdle, OneVariable, FreeOwner DEF K!Lock
    <3> QED
      BY <2>1, <3>1 DEF K!Lock, K!TypeOK
  <2>2. CASE K!LoadId(t) \/ K!StoreId(t) \/ K!Index(t) \/ K!Return(t)
    <3>1. Adding(t) /\ \A s \in Threads \ {t} : k_pc[s] = "idle"
      <4>1. Adding(t)
        BY <2>2 DEF K!LoadId, K!StoreId, K!Index, K!Return
      <4> QED
        BY <4>1, Exclusion, OneVariable
    <3>2. CASE K!LoadId(t)
      BY <3>1, <3>2 DEF K!LoadId, K!callVars, K!TypeOK
    <3>3. CASE K!StoreId(t)
      <4>1. k_fun_id \in Nat /\ k_fun_id' = k_fun_id + 1
        BY <3>3 DEF K!StoreId, K!TypeOK
      <4>2. ASSUME NEW h \in handles
            PROVE  h.key < k_fun_id' /\ h.key <= k_fun_id'
        <5>1. h.key \in Nat
          BY DEF K!TypeOK, K!Handles
        <5> QED
          BY <4>1, <5>1
      <4>3. KeyOrderInv'
        BY <3>3, <4>2 DEF K!StoreId
      <4>4. KeyStepInv' /\ KeyLockInv'
        BY <3>1, <3>3 DEF K!StoreId, K!callVars, K!TypeOK
      <4> QED
        BY <3>3, <4>3, <4>4 DEF K!StoreId
    <3>4. CASE K!Index(t)
      <4>1. ASSUME NEW h \in live PROVE <<h.key, h.cb>> \in cbs'[h.var]
        <5>1. h \in handles /\ h.key # k_fun_id /\ h.var \in Vars
          BY <3>4 DEF K!Index, K!TypeOK, K!Handles
        <5> QED
          BY <3>4, <5>1 DEF K!Index, K!Assign, K!TypeOK
      <4>2. <<k_fun_id, cb[t]>> \in cbs'[at[t]]
        BY <3>4 DEF K!Index, K!Assign, K!TypeOK
      <4> QED
        BY <3>1, <3>4, <4>1, <4>2 DEF K!Index, K!callVars, K!TypeOK
    <3>5. CASE K!Return(t)
      <4>1. \A h \in handles : h.key < k_fun_id
        BY <3>5 DEF K!Return
      <4>2. KeyIsUnique'
        BY <3>5, <4>1 DEF K!Return, K!TypeOK, K!Handles
      <4>3. HandleFindsItsCallback'
        <5> DEFINE h == [cb |-> cb[t], var |-> at[t], key |-> k_fun_id]
        <5>1. h.cb = cb[t] /\ h.var = at[t] /\ h.key = k_fun_id
          OBVIOUS
        <5>2. <<k_fun_id, cb[t]>> \in cbs[at[t]]
          BY <3>5 DEF K!Return
        <5>3. live' = live \cup {h} /\ cbs' = cbs
          BY <3>5 DEF K!Return
        <5> HIDE DEF h
        <5> QED
          BY <5>1, <5>2, <5>3
      <4>4. KeyOrderInv'
        <5>1. k_fun_id \in Nat /\ k_fun_id' = k_fun_id
          BY <3>5 DEF K!Return, K!TypeOK
        <5>2. \A s \in Threads : k_pc'[s] = "idle"
          BY <3>1, <3>5 DEF K!Return, K!TypeOK
        <5> QED
          BY <3>5, <4>1, <5>1, <5>2 DEF K!Return
      <4> QED
        BY <3>1, <3>5, <4>2, <4>3, <4>4 DEF K!Return, K!callVars, K!TypeOK
    <3> QED
      BY <2>2, <3>2, <3>3, <3>4, <3>5
  <2> QED
    BY <1>1, <2>1, <2>2 DEF K!AddListener
<1>2. ASSUME NEW h \in handles, K!DelListener(h) PROVE KeysInv'
  <2>1. h \in K!Handles /\ \A s \in Threads : k_pc[s] = "idle"
    BY <1>2, FreeMeansIdle, OneVariable, FreeOwner DEF K!DelListener, K!TypeOK, K!Handles
  <2>2. ASSUME NEW g \in live' PROVE <<g.key, g.cb>> \in cbs'[g.var]
    <3>1. g \in live /\ g # h /\ g \in K!Handles /\ g.var = h.var
      BY <1>2, <2>1, OneVariable
         DEF K!DelListener, K!TypeOK, K!Handles, OneVariable
    <3>2. g.key # h.key
      BY <2>1, <3>1 DEF K!TypeOK, K!Handles
    <3> QED
      BY <1>2, <3>1, <3>2 DEF K!DelListener, K!TypeOK, K!Handles
  <2> QED
    BY <1>2, <2>1, <2>2 DEF K!DelListener, K!callVars
<1>3. ASSUME NEW x \in Vars, K!ClearListener(x) PROVE KeysInv'
  <2>1. \A s \in Threads : k_pc[s] = "idle"
    BY <1>3, FreeMeansIdle, OneVariable, FreeOwner DEF K!ClearListener
  <2> QED
    BY <1>3, <2>1 DEF K!ClearListener, K!callVars, K!TypeOK
<1>4. CASE UNCHANGED K!vars
  BY <1>4 DEF K!vars, K!callVars
<1> QED
  BY <1>1, <1>2, <1>3, <1>4 DEF K!Next

LEMMA KeysInit == K!Init => KeysInv
BY DEF K!Init, KeysInv, K!TypeOK, KeyLockInv, KeyStepInv, KeyOrderInv, KeyIsUnique,
       HandleFindsItsCallback, Adding

-----------------------------------------------------------------------------
(* A key is never handed out twice (config.h:495) while the type T has one *)
(* variable.                                                               *)
THEOREM UniqueKeys ==
  ASSUME OneVariable, FreeOwner
  PROVE  K!Spec => []KeyIsUnique
<1>1. KeysInv /\ [K!Next]_(K!vars) => KeysInv'
  BY KeysStep, OneVariable, FreeOwner
<1>2. KeysInv => KeyIsUnique
  BY DEF KeysInv
<1> QED
  BY KeysInit, <1>1, <1>2, PTL DEF K!Spec

(* No registration is lost or removed with another one's key while the     *)
(* type T has one variable (config.h:466-477).                             *)
THEOREM HandlesFindCallbacks ==
  ASSUME OneVariable, FreeOwner
  PROVE  K!Spec => []HandleFindsItsCallback
<1>1. KeysInv /\ [K!Next]_(K!vars) => KeysInv'
  BY KeysStep, OneVariable, FreeOwner
<1>2. KeysInv => HandleFindsItsCallback
  BY DEF KeysInv
<1> QED
  BY KeysInit, <1>1, <1>2, PTL DEF K!Spec
=============================================================================
