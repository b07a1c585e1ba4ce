------------------------- MODULE ConfigRegistryProofs -------------------------
(***************************************************************************)
(* What the table of variables guarantees for any number of threads,       *)
(* names, documents, conversions and operations.                           *)
(***************************************************************************)
EXTENDS ConfigCasts, FiniteSetTheorems, WellFoundedInduction, TLAPS

(* A node that is being loaded is still to be loaded, and has a variable   *)
(* once that was found.                                                    *)
RestInv ==
  \A t \in Threads :
    /\ pc[t] = "set" \/ (pc[t] \in {"notify", "store"} /\ t \notin m_mutex) =>
         rest[t] # {}
    /\ pc[t] = "set" => s_datas[Node(t).name] # Absent

(* setValue has a variable and a value of its type.                        *)
SetInv ==
  \A t \in Threads :
    pc[t] \in {"notify", "store"} => x[t] \in Names /\ v[t] \in Vals

(* A visitor keeps the table as it found it.                               *)
VisitInv ==
  \A t \in Threads :
    /\ pc[t] \in {"visit", "wait"} => t \in m_mutex
    /\ t \in m_mutex => snap[t] = Registered /\ seen[t] \subseteq Registered

(* Other threads do not hold its lock, and idle ones have visited and      *)
(* refused nothing.                                                        *)
KindInv ==
  \A t \in Threads :
    /\ pc[t] \in {"idle", "find", "set"} => t \notin m_mutex
    /\ pc[t] = "idle" => seen[t] = {} /\ refused[t] = {}

IInv == TypeOK /\ RestInv /\ SetInv /\ VisitInv /\ KindInv

(* A step of thread t.                                                     *)
Moves(t) ==
  \/ Continue(t)
  \/ NodeRefused(t) \/ LoadThrows(t) \/ VisitThrows(t)
  \/ \E n \in Names : VisitCallbackLooksUp(t, n)
  \/ \E n \in Names, s \in Texts : VisitCallbackSets(t, n, s)
  \/ Visit(t) \/ \E d \in Docs : LoadFromYaml(t, d)
  \/ \E n \in Names, ty \in Types : Lookup(t, n, ty)

-----------------------------------------------------------------------------
(* A set of natural numbers that is not empty has a first member.          *)
LEMMA HasFirst ==
  ASSUME NEW S, S \subseteq Nat, S # {}
  PROVE  \E i \in S : \A j \in S : i <= j
<1>1. PICK i \in S : \A j \in S : ~ (<<j, i>> \in OpToRel(<, Nat))
  BY WFMin, NatLessThanWellFounded, Zenon
<1>2. ASSUME NEW j \in S PROVE i <= j
  <2>1. ~ (j < i)
    BY <1>1 DEF OpToRel
  <2> QED
    BY <2>1
<1> QED
  BY <1>2

(* The node that is next is the first of those still to be loaded.         *)
LEMMA FirstIsNext ==
  ASSUME TypeOK, NEW t \in Threads, rest[t] # {}
  PROVE  First(t) \in rest[t] /\ \A j \in rest[t] : First(t) <= j
<1>1. rest[t] \subseteq Nat
  BY DEF TypeOK
<1>2. \E i \in rest[t] : \A j \in rest[t] : i <= j
  BY <1>1, HasFirst
<1> QED
  BY <1>2 DEF First

(* The node a load has come to is one of its document's.                   *)
LEMMA NodeType ==
  ASSUME TypeOK, NEW t \in Threads, rest[t] # {}
  PROVE  Node(t) \in Nodes
<1>1. rest[t] \subseteq 1 .. Len(doc[t]) /\ doc[t] \in Seq(Nodes)
  BY DEF TypeOK
<1>2. \E i \in rest[t] : \A j \in rest[t] : i <= j
  BY <1>1, HasFirst
<1>3. First(t) \in rest[t]
  BY <1>2 DEF First
<1> QED
  BY <1>1, <1>3 DEF Node

(* It stays the same while the load has the same nodes before it.          *)
LEMMA NodeStays ==
  ASSUME NEW t, rest'[t] = rest[t], doc'[t] = doc[t]
  PROVE  Node(t)' = Node(t)
BY DEF Node, First

(* A lookup of a name that is not there keeps the types of the table.      *)
LEMMA RegisterType ==
  ASSUME TypeOK, NEW n, NEW ty \in Types, Register(n, ty)
  PROVE  /\ s_datas' \in [Names -> Types \cup {Absent}]
         /\ m_val' \in [Names -> Vals \cup {Default}]
BY DEF TypeOK, Register

(* What a registered variable makes of a string is a value, if anything.   *)
LEMMA ConvertedType ==
  ASSUME TypeOK, NEW n \in Names, s_datas[n] # Absent, NEW s \in Texts
  PROVE  FromStr[<<s_datas[n], s>>] \in Vals \cup {Fails}
BY ConfigRegistryAssumption DEF TypeOK

(* A load sets the variable of its node to a value.                        *)
LEMMA DiffersType ==
  ASSUME TypeOK, RestInv, NEW t \in Threads, SetDiffers(t)
  PROVE  /\ Node(t).name \in Names /\ Converted(Node(t)) \in Vals
         /\ x' = [x EXCEPT ![t] = Node(t).name]
         /\ v' = [v EXCEPT ![t] = Converted(Node(t))]
<1>1. Node(t) \in Nodes /\ s_datas[Node(t).name] # Absent
  BY NodeType DEF SetDiffers, RestInv
<1>2. Converted(Node(t)) \in Vals \cup {Fails}
  BY <1>1, ConvertedType DEF Converted, Nodes
<1> QED
  BY <1>1, <1>2 DEF SetDiffers, SetValue, Nodes

(* So does a callback of Visit with the variable it is given.              *)
LEMMA CallbackType ==
  ASSUME TypeOK, NEW t \in Threads, NEW n \in Names, NEW s \in Texts,
         VisitCallbackSets(t, n, s)
  PROVE  \E y \in Vals : x' = [x EXCEPT ![t] = n] /\ v' = [v EXCEPT ![t] = y]
<1>1. s_datas[n] # Absent
  BY DEF VisitCallbackSets, Visited, Registered
<1>2. FromStr[<<s_datas[n], s>>] \in Vals \cup {Fails}
  BY <1>1, ConvertedType
<1> QED
  BY <1>2 DEF VisitCallbackSets, SetValue

LEMMA TypeStep == TypeOK /\ RestInv /\ SetInv /\ [Next]_vars => TypeOK'
<1> SUFFICES ASSUME TypeOK, RestInv, SetInv, [Next]_vars PROVE TypeOK'
  OBVIOUS
<1> USE ConfigRegistryAssumption DEF TypeOK, tableVars, historyVars, setVars,
        loadUnchanged, Steps
<1>1. ASSUME NEW t \in Threads, NEW n \in Names, NEW ty \in Types,
             Lookup(t, n, ty)
      PROVE  TypeOK'
  BY <1>1, RegisterType DEF Lookup
<1>2. ASSUME NEW t \in Threads, NEW d \in Docs, LoadFromYaml(t, d)
      PROVE  TypeOK'
  <2>1. d \in Seq(Nodes)
    BY DEF Nodes
  <2>2. Setting \subseteq Threads /\ Registered \subseteq Names
    BY DEF Setting, Registered
  <2>3. ListAllMember(d) \subseteq 1 .. Len(d)
    BY DEF ListAllMember
  <2>4. \A s \in Threads : rest'[s] \subseteq 1 .. Len(doc'[s])
    BY <1>2, <2>3 DEF LoadFromYaml
  <2> QED
    BY <1>2, <2>1, <2>2, <2>4 DEF LoadFromYaml, Begin
<1>3. ASSUME NEW t \in Threads, FindNothing(t) \/ SetNothing(t)
      PROVE  TypeOK'
  <2>1. Advance(t) /\ UNCHANGED <<tableVars, setVars, loadUnchanged>>
    BY <1>3 DEF FindNothing, SetNothing
  <2> QED
    BY <2>1 DEF Advance
<1>4. ASSUME NEW t \in Threads, Find(t) PROVE TypeOK'
  BY <1>4 DEF Find
<1>5. ASSUME NEW t \in Threads, SetDiffers(t) PROVE TypeOK'
  BY <1>5, DiffersType DEF SetDiffers, SetValue
<1>6. ASSUME NEW t \in Threads, Notify(t) PROVE TypeOK'
  <2>1. /\ s_datas' \in [Names -> Types \cup {Absent}]
        /\ m_val' \in [Names -> Vals \cup {Default}]
    BY <1>6, RegisterType DEF Notify, HookLooksUp
  <2> QED
    BY <1>6, <2>1 DEF Notify
<1>7. ASSUME NEW t \in Threads, Store(t) PROVE TypeOK'
  <2>1. x[t] \in Names /\ v[t] \in Vals
    BY <1>7 DEF Store, SetInv
  <2>2. m_val' \in [Names -> Vals \cup {Default}]
    BY <1>7, <2>1 DEF Store
  <2>3. CASE Advance(t)
    BY <1>7, <2>2, <2>3 DEF Store, Advance
  <2>4. CASE pc' = [pc EXCEPT ![t] = "visit"] /\ rest' = rest
    BY <1>7, <2>2, <2>4 DEF Store
  <2> QED
    BY <1>7, <2>3, <2>4 DEF Store
<1>8. ASSUME NEW t \in Threads, EndLoad(t) PROVE TypeOK'
  <2>1. \A s \in Threads : rest'[s] \subseteq 1 .. Len(doc'[s])
    BY <1>8 DEF EndLoad, Return
  <2> QED
    BY <1>8, <2>1 DEF EndLoad, Return
<1>9. ASSUME NEW t \in Threads, Visit(t) PROVE TypeOK'
  BY <1>9 DEF Visit, Begin, ReadLock, Registered
<1>10. ASSUME NEW t \in Threads, NEW n \in Names,
              VisitCallback(t, n) \/ VisitCallbackLooksUp(t, n)
       PROVE  TypeOK'
  <2>0. Visited(t, n)
    BY <1>10 DEF VisitCallback, VisitCallbackLooksUp
  <2>1. seen' \in [Threads -> SUBSET Names]
    BY <2>0 DEF Visited
  <2>2. CASE VisitCallback(t, n)
    BY <2>1, <2>2 DEF VisitCallback
  <2>3. CASE VisitCallbackLooksUp(t, n)
    BY <2>1, <2>3 DEF VisitCallbackLooksUp
  <2> QED
    BY <1>10, <2>2, <2>3
<1>11. ASSUME NEW t \in Threads, NEW n \in Names, NEW s \in Texts,
              VisitCallbackSets(t, n, s)
       PROVE  TypeOK'
  <2>1. Setting \subseteq Threads
    BY DEF Setting
  <2>2. PICK y \in Vals : x' = [x EXCEPT ![t] = n] /\ v' = [v EXCEPT ![t] = y]
    BY <1>11, CallbackType
  <2>3. seen' \in [Threads -> SUBSET Names] /\ pc' \in [Threads -> Steps]
    BY <1>11 DEF VisitCallbackSets, Visited, SetValue
  <2> QED
    BY <1>11, <2>1, <2>2, <2>3 DEF VisitCallbackSets
<1>12. ASSUME NEW t \in Threads, EndVisit(t) PROVE TypeOK'
  BY <1>12 DEF EndVisit, ReadUnlock, Return
<1>13. CASE UNCHANGED vars
  BY <1>13 DEF vars
<1>14. ASSUME NEW t \in Threads, ListenerThrows(t)
       PROVE  /\ s_datas' \in [Names -> Types \cup {Absent}]
              /\ m_val' \in [Names -> Vals \cup {Default}]
              /\ x' \in [Threads -> Names \cup {None}]
              /\ v' \in [Threads -> Vals \cup {Default}]
  BY <1>14, RegisterType DEF ListenerThrows, HookLooksUp
<1>15. ASSUME NEW t \in Threads, NodeRefused(t) PROVE TypeOK'
  <2>1. rest[t] # {}
    BY <1>15 DEF NodeRefused, ListenerThrows, RestInv
  <2>2. First(t) \in Nat
    BY <2>1, FirstIsNext
  <2>3. refused' \in [Threads -> SUBSET Nat]
    BY <1>15, <2>2 DEF NodeRefused
  <2> QED
    BY <1>14, <1>15, <2>3 DEF NodeRefused, Advance
<1>16. ASSUME NEW t \in Threads, LoadThrows(t) PROVE TypeOK'
  <2>1. \A s \in Threads : rest'[s] \subseteq 1 .. Len(doc'[s])
    BY <1>16 DEF LoadThrows
  <2> QED
    BY <1>14, <1>16, <2>1 DEF LoadThrows, Return
<1>17. ASSUME NEW t \in Threads, VisitThrows(t) PROVE TypeOK'
  <2>1. CASE pc' = [pc EXCEPT ![t] = "visit"]
             /\ UNCHANGED <<m_mutex, seen, historyVars>>
    BY <1>14, <1>17, <2>1 DEF VisitThrows
  <2>2. CASE ReadUnlock(t) /\ Return(t) /\ UNCHANGED careless
    BY <1>14, <1>17, <2>2 DEF VisitThrows, ReadUnlock, Return
  <2> QED
    BY <1>17, <2>1, <2>2 DEF VisitThrows
<1> QED
  BY <1>1, <1>2, <1>3, <1>4, <1>5, <1>6, <1>7, <1>8, <1>9, <1>10, <1>11,
     <1>12, <1>13, <1>15, <1>16, <1>17
  DEF Next, Continue

-----------------------------------------------------------------------------
(* Where thread s is, with what it works on.                               *)
Place(s) ==
  <<pc[s], doc[s], rest[s], x[s], v[s], snap[s], refused[s], seen[s]>>

(* A step of one thread leaves the others where they were.                 *)
LEMMA OthersStay ==
  ASSUME TypeOK, NEW t \in Threads, Moves(t), NEW s \in Threads, s # t
  PROVE  Place(s)' = Place(s) /\ (s \in m_mutex' <=> s \in m_mutex)
<1> DEFINE P == Place(s)' = Place(s) /\ (s \in m_mutex' <=> s \in m_mutex)
<1> USE DEF TypeOK, Place, tableVars, historyVars, setVars, loadUnchanged,
            Advance
<1>1. CASE Continue(t)
  <2>1. CASE Find(t) \/ FindNothing(t) \/ SetNothing(t)
    BY <2>1 DEF Find, FindNothing, SetNothing
  <2>2. CASE SetDiffers(t)
    BY <2>2 DEF SetDiffers, SetValue
  <2>3. CASE Notify(t)
    BY <2>3 DEF Notify
  <2>4. CASE Store(t)
    BY <2>4 DEF Store
  <2>5. CASE EndLoad(t) \/ EndVisit(t)
    BY <2>5 DEF EndLoad, EndVisit, Return, ReadUnlock
  <2>6. ASSUME NEW n \in Names, VisitCallback(t, n) PROVE P
    BY <2>6 DEF VisitCallback, Visited
  <2> QED
    BY <1>1, <2>1, <2>2, <2>3, <2>4, <2>5, <2>6 DEF Continue
<1>2. ASSUME NEW n \in Names, VisitCallbackLooksUp(t, n) PROVE P
  BY <1>2 DEF VisitCallbackLooksUp, Visited
<1>3. ASSUME NEW n \in Names, NEW str \in Texts, VisitCallbackSets(t, n, str)
      PROVE  P
  BY <1>3 DEF VisitCallbackSets, Visited, SetValue
<1>4. CASE Visit(t)
  BY <1>4 DEF Visit, ReadLock
<1>5. ASSUME NEW d \in Docs, LoadFromYaml(t, d) PROVE P
  BY <1>5 DEF LoadFromYaml
<1>6. ASSUME NEW n \in Names, NEW ty \in Types, Lookup(t, n, ty) PROVE P
  BY <1>6 DEF Lookup
<1>7. CASE NodeRefused(t)
  BY <1>7 DEF NodeRefused, ListenerThrows
<1>8. CASE LoadThrows(t)
  BY <1>8 DEF LoadThrows, ListenerThrows, Return
<1>9. CASE VisitThrows(t)
  BY <1>9 DEF VisitThrows, ListenerThrows, ReadUnlock, Return
<1> QED
  BY <1>1, <1>2, <1>3, <1>4, <1>5, <1>6, <1>7, <1>8, <1>9 DEF Moves

(* A step writes into the table only in a section under the write lock,    *)
(* which nobody is in while a visit lasts, and changes no variable there.  *)
LEMMA TableStays ==
  ASSUME TypeOK, NEW t \in Threads, Moves(t)
  PROVE  /\ \A n \in Registered : s_datas'[n] = s_datas[n]
         /\ m_mutex # {} => s_datas' = s_datas
<1> USE DEF tableVars, loadUnchanged
<1>1. ASSUME NEW n, NEW ty \in Types, Register(n, ty)
      PROVE  /\ \A m \in Registered : s_datas'[m] = s_datas[m]
             /\ m_mutex # {} => s_datas' = s_datas
  BY <1>1 DEF Register, WriteLock, Registered, TypeOK
<1>2. CASE s_datas' = s_datas
  BY <1>2
<1>3. CASE \E n, ty : ty \in Types /\ Register(n, ty)
  BY <1>1, <1>3
<1>4. s_datas' = s_datas \/ \E n, ty : ty \in Types /\ Register(n, ty)
  BY DEF Moves, Continue, Find, FindNothing, SetNothing, SetDiffers, Notify,
         Store, EndLoad, EndVisit, VisitCallback, VisitCallbackLooksUp,
         VisitCallbackSets, Visit, LoadFromYaml, Lookup, HookLooksUp,
         NodeRefused, LoadThrows, VisitThrows, ListenerThrows
<1> QED
  BY <1>2, <1>3, <1>4

-----------------------------------------------------------------------------
(* What the other threads are doing stays right, and what the moving one   *)
(* does is right, action by action.                                        *)
LEMMA RestStep == IInv /\ [Next]_vars => RestInv'
<1> SUFFICES ASSUME IInv, [Next]_vars PROVE RestInv'
  OBVIOUS
<1> DEFINE R(s) ==
      /\ pc[s] = "set" \/ (pc[s] \in {"notify", "store"} /\ s \notin m_mutex) =>
           rest[s] # {}
      /\ pc[s] = "set" => s_datas[Node(s).name] # Absent
<1>1. CASE UNCHANGED vars
  <2>1. \A t \in Threads : Node(t)' = Node(t)
    BY <1>1, NodeStays DEF vars
  <2> QED
    BY <1>1, <2>1 DEF vars, tableVars, IInv, RestInv
<1>2. ASSUME NEW t \in Threads, Moves(t) PROVE RestInv'
  <2>1. ASSUME NEW s \in Threads, pc[s] = "set", rest'[s] = rest[s],
               doc'[s] = doc[s]
        PROVE  s_datas'[Node(s)'.name] # Absent
    <3>1. Node(s)' = Node(s) /\ Node(s).name \in Registered
      BY <2>1, NodeStays, NodeType DEF IInv, RestInv, Registered, Nodes
    <3>2. s_datas'[Node(s).name] = s_datas[Node(s).name]
      BY <1>2, <3>1, TableStays DEF IInv
    <3> QED
      BY <3>1, <3>2 DEF Registered
  <2>2. ASSUME NEW s \in Threads, s # t PROVE R(s)'
    BY <1>2, <2>1, <2>2, OthersStay DEF IInv, RestInv, Place
  <2>3. R(t)'
    <3> USE DEF IInv, TypeOK, RestInv, KindInv, VisitInv, tableVars, setVars,
            loadUnchanged, historyVars
    <3>1. CASE Find(t)
      <4>1. Node(t)' = Node(t)
        BY <3>1, NodeStays DEF Find
      <4> QED
        BY <3>1, <4>1 DEF Find
    <3>2. CASE FindNothing(t) \/ SetNothing(t) \/ EndLoad(t)
      BY <3>2 DEF FindNothing, SetNothing, EndLoad, Return, Advance
    <3>3. CASE SetDiffers(t)
      BY <3>3 DEF SetDiffers, SetValue
    <3>4. CASE Notify(t)
      BY <3>4 DEF Notify
    <3>5. CASE Store(t)
      BY <3>5 DEF Store, Advance
    <3>6. CASE EndVisit(t) \/ Visit(t)
      BY <3>6 DEF EndVisit, Visit, Return
    <3>7. ASSUME NEW n \in Names,
                 VisitCallback(t, n) \/ VisitCallbackLooksUp(t, n)
          PROVE  R(t)'
      BY <3>7 DEF VisitCallback, VisitCallbackLooksUp, Visited
    <3>8. ASSUME NEW n \in Names, NEW s \in Texts, VisitCallbackSets(t, n, s)
          PROVE  R(t)'
      BY <3>8 DEF VisitCallbackSets, Visited, SetValue
    <3>9. ASSUME NEW d \in Docs, LoadFromYaml(t, d) PROVE R(t)'
      BY <3>9 DEF LoadFromYaml
    <3>10. ASSUME NEW n \in Names, NEW ty \in Types, Lookup(t, n, ty)
           PROVE  R(t)'
      BY <3>10 DEF Lookup
    <3>11. CASE NodeRefused(t)
      BY <3>11 DEF NodeRefused, Advance
    <3>12. CASE LoadThrows(t) \/ VisitThrows(t)
      BY <3>12 DEF LoadThrows, VisitThrows, Return
    <3> QED
      BY <1>2, <3>1, <3>2, <3>3, <3>4, <3>5, <3>6, <3>7, <3>8, <3>9, <3>10,
         <3>11, <3>12
      DEF Moves, Continue
  <2> QED
    BY <2>2, <2>3 DEF RestInv
<1> QED
  BY <1>1, <1>2 DEF Next, Moves

LEMMA SetStep == IInv /\ [Next]_vars => SetInv'
<1> SUFFICES ASSUME IInv, [Next]_vars PROVE SetInv'
  OBVIOUS
<1> DEFINE S(s) == pc[s] \in {"notify", "store"} => x[s] \in Names /\ v[s] \in Vals
<1>1. CASE UNCHANGED vars
  BY <1>1 DEF vars, setVars, IInv, SetInv
<1>2. ASSUME NEW t \in Threads, Moves(t) PROVE SetInv'
  <2>1. ASSUME NEW s \in Threads, s # t PROVE S(s)'
    BY <1>2, <2>1, OthersStay DEF IInv, SetInv, Place
  <2>2. S(t)'
    <3> USE DEF IInv, TypeOK, SetInv, setVars, loadUnchanged, Advance
    <3>1. CASE Find(t) \/ FindNothing(t) \/ SetNothing(t) \/ EndLoad(t)
      BY <3>1 DEF Find, FindNothing, SetNothing, EndLoad, Return
    <3>2. CASE SetDiffers(t)
      <4>1. /\ Node(t).name \in Names /\ Converted(Node(t)) \in Vals
            /\ x' = [x EXCEPT ![t] = Node(t).name]
            /\ v' = [v EXCEPT ![t] = Converted(Node(t))]
        BY <3>2, DiffersType
      <4> QED
        BY <4>1
    <3>3. CASE Notify(t)
      BY <3>3 DEF Notify
    <3>4. CASE Store(t)
      BY <3>4 DEF Store
    <3>5. CASE EndVisit(t) \/ Visit(t)
      BY <3>5 DEF EndVisit, Visit, Return
    <3>6. ASSUME NEW n \in Names,
                 VisitCallback(t, n) \/ VisitCallbackLooksUp(t, n)
          PROVE  S(t)'
      BY <3>6 DEF VisitCallback, VisitCallbackLooksUp, Visited
    <3>7. ASSUME NEW n \in Names, NEW s \in Texts, VisitCallbackSets(t, n, s)
          PROVE  S(t)'
      <4>1. PICK y \in Vals : x' = [x EXCEPT ![t] = n] /\ v' = [v EXCEPT ![t] = y]
        BY <3>7, CallbackType
      <4> QED
        BY <4>1
    <3>8. ASSUME NEW d \in Docs, LoadFromYaml(t, d) PROVE S(t)'
      BY <3>8 DEF LoadFromYaml
    <3>9. ASSUME NEW n \in Names, NEW ty \in Types, Lookup(t, n, ty)
          PROVE  S(t)'
      BY <3>9 DEF Lookup
    <3>10. CASE NodeRefused(t) \/ LoadThrows(t) \/ VisitThrows(t)
      BY <3>10 DEF NodeRefused, LoadThrows, VisitThrows, Return
    <3> QED
      BY <1>2, <3>1, <3>2, <3>3, <3>4, <3>5, <3>6, <3>7, <3>8, <3>9, <3>10
      DEF Moves, Continue
  <2> QED
    BY <2>1, <2>2 DEF SetInv
<1> QED
  BY <1>1, <1>2 DEF Next, Moves

(* Nobody registers a variable during a visit.                             *)
LEMMA VisitStep == IInv /\ [Next]_vars => VisitInv' /\ KindInv'
<1> SUFFICES ASSUME IInv, [Next]_vars PROVE VisitInv' /\ KindInv'
  OBVIOUS
<1> DEFINE K(s) ==
      /\ pc[s] \in {"visit", "wait"} => s \in m_mutex
      /\ s \in m_mutex => snap[s] = Registered /\ seen[s] \subseteq Registered
      /\ pc[s] \in {"idle", "find", "set"} => s \notin m_mutex
      /\ pc[s] = "idle" => seen[s] = {} /\ refused[s] = {}
<1>1. CASE UNCHANGED vars
  BY <1>1
  DEF vars, tableVars, historyVars, IInv, VisitInv, KindInv, Registered
<1>2. ASSUME NEW t \in Threads, Moves(t) PROVE VisitInv' /\ KindInv'
  <2>1. m_mutex # {} => Registered' = Registered
    BY <1>2, TableStays DEF IInv, Registered
  <2>2. ASSUME NEW s \in Threads, s # t PROVE K(s)'
    BY <1>2, <2>1, <2>2, OthersStay DEF IInv, VisitInv, KindInv, Place
  <2>3. K(t)'
    <3> USE DEF IInv, TypeOK, VisitInv, KindInv, tableVars, historyVars,
            loadUnchanged, Advance
    <3>1. CASE Find(t) \/ FindNothing(t) \/ SetNothing(t)
      BY <2>1, <3>1 DEF Find, FindNothing, SetNothing
    <3>2. CASE SetDiffers(t)
      BY <2>1, <3>2 DEF SetDiffers, SetValue
    <3>3. CASE Notify(t)
      BY <2>1, <3>3 DEF Notify
    <3>4. CASE Store(t)
      BY <2>1, <3>4 DEF Store
    <3>5. CASE EndLoad(t)
      BY <2>1, <3>5 DEF EndLoad, Return
    <3>6. CASE EndVisit(t)
      BY <3>6 DEF EndVisit, Return, ReadUnlock
    <3>7. CASE Visit(t)
      <4>1. Registered' = Registered
        BY <3>7 DEF Visit, Registered
      <4>2. seen[t] \subseteq Registered
        BY <3>7 DEF Visit, Begin
      <4> QED
        BY <3>7, <4>1, <4>2 DEF Visit, ReadLock
    <3>8. ASSUME NEW n \in Names, Visited(t, n), snap' = snap,
                 m_mutex' = m_mutex, pc'[t] \in {"visit", "wait", "notify"}
          PROVE  K(t)'
      BY <2>1, <3>8 DEF Visited
    <3>9. ASSUME NEW n \in Names,
                 VisitCallback(t, n) \/ VisitCallbackLooksUp(t, n)
          PROVE  K(t)'
      BY <3>8, <3>9 DEF VisitCallback, VisitCallbackLooksUp, Visited
    <3>10. ASSUME NEW n \in Names, NEW s \in Texts, VisitCallbackSets(t, n, s)
           PROVE  K(t)'
      BY <3>8, <3>10 DEF VisitCallbackSets, SetValue
    <3>11. ASSUME NEW d \in Docs, LoadFromYaml(t, d) PROVE K(t)'
      BY <3>11 DEF LoadFromYaml, Begin
    <3>12. ASSUME NEW n \in Names, NEW ty \in Types, Lookup(t, n, ty)
           PROVE  K(t)'
      BY <3>12 DEF Lookup
    <3>13. CASE NodeRefused(t)
      BY <2>1, <3>13 DEF NodeRefused
    <3>14. CASE LoadThrows(t)
      BY <2>1, <3>14 DEF LoadThrows, Return
    <3>15. CASE VisitThrows(t)
      BY <2>1, <3>15 DEF VisitThrows, ReadUnlock, Return
    <3> QED
      BY <1>2, <3>1, <3>2, <3>3, <3>4, <3>5, <3>6, <3>7, <3>9, <3>10, <3>11,
         <3>12, <3>13, <3>14, <3>15
      DEF Moves, Continue
  <2> QED
    BY <2>2, <2>3 DEF VisitInv, KindInv
<1> QED
  BY <1>1, <1>2 DEF Next, Moves

LEMMA InitIInv == Init => IInv
<1> SUFFICES ASSUME Init PROVE IInv
  OBVIOUS
<1>1. TypeOK
  <2>1. /\ s_datas \in [Names -> Types \cup {Absent}]
        /\ m_val \in [Names -> Vals \cup {Default}]
        /\ m_mutex \subseteq Threads /\ mixed \subseteq Threads
        /\ ops \in 0 .. MaxOps
    BY ConfigRegistryAssumption DEF Init
  <2>2. /\ pc \in [Threads -> Steps] /\ careless \in BOOLEAN
        /\ x \in [Threads -> Names \cup {None}]
        /\ v \in [Threads -> Vals \cup {Default}]
        /\ seen \in [Threads -> SUBSET Names]
        /\ snap \in [Threads -> SUBSET Names]
        /\ refused \in [Threads -> SUBSET Nat]
    BY DEF Init, Steps
  <2>3. /\ doc \in [Threads -> Seq(Nodes)] /\ rest \in [Threads -> SUBSET Nat]
        /\ \A t \in Threads : rest[t] \subseteq 1 .. Len(doc[t])
    BY DEF Init
  <2> QED
    BY <2>1, <2>2, <2>3 DEF TypeOK
<1> QED
  BY <1>1 DEF Init, IInv, RestInv, SetInv, VisitInv, KindInv

LEMMA Inductive == Spec => []IInv
<1>1. IInv /\ [Next]_vars => IInv'
  BY TypeStep, RestStep, SetStep, VisitStep DEF IInv
<1> QED
  BY InitIInv, <1>1, PTL DEF Spec

-----------------------------------------------------------------------------
(* Every variable keeps its type (config.h:503-598, config.cc).            *)
THEOREM TypeCorrect == Spec => []TypeOK
<1>1. IInv => TypeOK
  BY DEF IInv
<1> QED
  BY Inductive, <1>1, PTL

(* A name keeps the variable it was registered with, and its value is      *)
(* never reset, whoever looks it up (config.h:517-534).                    *)
THEOREM VariablesStay == Spec => SameVariable
<1> DEFINE A == \A n \in Registered :
                  s_datas'[n] = s_datas[n]
                    /\ (m_val'[n] = Default => m_val[n] = Default)
<1>1. IInv /\ [Next]_vars => A
  <2> SUFFICES ASSUME IInv, [Next]_vars, NEW n \in Registered
               PROVE  /\ s_datas'[n] = s_datas[n]
                      /\ m_val'[n] = Default => m_val[n] = Default
    OBVIOUS
  <2>1. s_datas'[n] = s_datas[n]
    BY TableStays DEF IInv, Next, Moves, vars, tableVars
  <2>2. ASSUME NEW t \in Threads, Store(t)
        PROVE  m_val'[n] = Default => m_val[n] = Default
    BY <2>2, ConfigRegistryAssumption DEF Store, IInv, TypeOK, SetInv
  <2>3. ASSUME NEW h, NEW ty \in Types, Register(h, ty)
        PROVE  m_val'[n] = m_val[n]
    BY <2>3 DEF Register, IInv, TypeOK, Registered
  <2>4. \/ m_val' = m_val \/ \E t \in Threads : Store(t)
        \/ \E h, ty : ty \in Types /\ Register(h, ty)
    BY DEF vars, tableVars, loadUnchanged, Next, Continue, Lookup,
        LoadFromYaml, Find, FindNothing, SetNothing, SetDiffers, Notify,
        EndLoad, Visit, VisitCallback, VisitCallbackLooksUp,
        VisitCallbackSets, EndVisit, HookLooksUp, ListenerThrows, NodeRefused,
        LoadThrows, VisitThrows
  <2> QED
    BY <2>1, <2>2, <2>3, <2>4
<1> QED
  BY Inductive, <1>1, PTL DEF Spec, SameVariable

(* A visit calls back for exactly the variables there are, during all of   *)
(* the visit (config.cc:87-94).                                            *)
THEOREM VisitsSeeAll == Spec => VisitSeesAll
<1> DEFINE A == \A t \in Threads :
                  pc[t] = "visit" /\ pc'[t] = "idle" =>
                    seen[t] = snap[t] /\ Registered = snap[t]
<1>1. IInv /\ [Next]_vars => A
  <2> SUFFICES ASSUME IInv, [Next]_vars, NEW t \in Threads,
                      pc[t] = "visit", pc'[t] = "idle"
               PROVE  seen[t] = snap[t] /\ Registered = snap[t]
    OBVIOUS
  <2>1. Moves(t)
    <3>1. PICK s \in Threads : Moves(s)
      BY DEF Next, Moves, vars
    <3> QED
      BY <3>1, OthersStay DEF IInv, Place
  <2>2. EndVisit(t)
    BY <2>1
    DEF IInv, TypeOK, Moves, Continue, Lookup, LoadFromYaml, Begin, Find,
        FindNothing, SetNothing, SetDiffers, Notify, Store, EndLoad, Visit,
        VisitCallback, VisitCallbackLooksUp, VisitCallbackSets, SetValue,
        ListenerThrows, NodeRefused, LoadThrows, VisitThrows
  <2> QED
    BY <2>2 DEF EndVisit, IInv, VisitInv
<1> QED
  BY Inductive, <1>1, PTL DEF Spec, VisitSeesAll
-----------------------------------------------------------------------------
(* What a load has applied.                                                *)

NamesInv == Registered \subseteq Valid

(* Of threads that set variables at the same time, those that load know.   *)
MixedInv ==
  \A s, t \in Setting : s # t /\ t \notin m_mutex => t \in mixed

Loads(t) == t \in Setting /\ t \notin m_mutex

(* Of the nodes that are done, the last of a name that converts and was    *)
(* not refused is what its variable has.                                   *)
Done(t) == ListAllMember(doc[t]) \ rest[t]

DecidesSoFar(t, i) ==
  /\ Takes(doc[t], i, refused[t])
  /\ \A j \in Done(t) :
       i < j /\ doc[t][j].name = doc[t][i].name =>
         ~ Takes(doc[t], j, refused[t])

Applied(t) ==
  \A i \in Done(t) :
    doc[t][i].name \in snap[t] /\ DecidesSoFar(t, i) =>
      m_val[doc[t][i].name] = Converted(doc[t][i])

(* The nodes are done in their order, and only they have been refused.     *)
InOrder(t) ==
  /\ rest[t] \subseteq ListAllMember(doc[t])
  /\ refused[t] \cap rest[t] = {}
  /\ \A i \in rest[t], j \in ListAllMember(doc[t]) : i < j => j \in rest[t]

(* setValue sets the variable of the node to what the node's string is     *)
(* converted to.                                                           *)
AtNode(t) ==
  /\ pc[t] # "find" => rest[t] # {} /\ Node(t).name \in Registered
  /\ pc[t] \in {"notify", "store"} =>
       x[t] = Node(t).name /\ v[t] = Converted(Node(t))

LoadOk(t) ==
  /\ snap[t] \subseteq Registered
  /\ InOrder(t)
  /\ AtNode(t)
  /\ t \notin mixed => Applied(t)

LoadInv == \A t \in Threads : Loads(t) => LoadOk(t)

(* Every step is of one of these kinds, for the threads that set.          *)
LEMMA MixedStep ==
  ASSUME IInv, NamesInv, MixedInv, NEW t \in Threads, Moves(t)
  PROVE  NamesInv' /\ MixedInv'
<1> USE DEF tableVars, historyVars, setVars, loadUnchanged
<1>a. /\ pc \in [Threads -> Steps] /\ (pc[t] = "visit" => t \in m_mutex)
      /\ (pc[t] = "find" => t \notin m_mutex)
  BY DEF IInv, TypeOK, VisitInv, KindInv
<1>b. /\ t \in Setting <=> pc[t] \in {"find", "set", "notify", "store"}
      /\ t \in Setting' <=> pc'[t] \in {"find", "set", "notify", "store"}
  BY DEF Setting
<1>1. NamesInv'
  <2>1. \/ s_datas' = s_datas
        \/ \E n, ty : ty \in Types /\ Register(n, ty)
    BY DEF Moves, Continue, Find, FindNothing, SetNothing, SetDiffers, Notify,
           Store, EndLoad, EndVisit, VisitCallback, VisitCallbackLooksUp,
           VisitCallbackSets, Visit, LoadFromYaml, Lookup, HookLooksUp,
           NodeRefused, LoadThrows, VisitThrows, ListenerThrows
  <2> QED
    BY <2>1 DEF NamesInv, Registered, Register, IInv, TypeOK
<1>2. \A s \in Threads : s # t =>
        (s \in Setting' <=> s \in Setting) /\ (s \in m_mutex' <=> s \in m_mutex)
  BY OthersStay DEF Setting, Place, IInv
<1>3. ASSUME mixed \subseteq mixed', t \in Setting' => t \in Setting,
             t \notin m_mutex' => t \notin m_mutex
      PROVE  MixedInv'
  BY <1>2, <1>3 DEF MixedInv, Setting
<1>4. ASSUME t \notin Setting', mixed \ {t} \subseteq mixed' PROVE MixedInv'
  BY <1>2, <1>4 DEF MixedInv, Setting
<1> HIDE DEF Setting
<1>5. ASSUME Continue(t) PROVE MixedInv'
  <2>1. CASE Find(t) \/ FindNothing(t) \/ SetNothing(t)
    <3>1. pc[t] \in {"find", "set"} /\ m_mutex' = m_mutex /\ mixed' = mixed
      BY <2>1 DEF Find, FindNothing, SetNothing
    <3> QED
      BY <1>b, <1>3, <3>1
  <2>2. CASE SetDiffers(t)
    <3>1. pc[t] = "set" /\ m_mutex' = m_mutex /\ mixed' = mixed
      BY <2>2 DEF SetDiffers
    <3> QED
      BY <1>b, <1>3, <3>1
  <2>3. CASE Notify(t)
    <3>1. pc[t] = "notify" /\ m_mutex' = m_mutex /\ mixed' = mixed
      BY <2>3 DEF Notify
    <3> QED
      BY <1>b, <1>3, <3>1
  <2>4. CASE Store(t)
    <3>1. pc[t] = "store" /\ m_mutex' = m_mutex /\ mixed' = mixed
      BY <2>4 DEF Store
    <3> QED
      BY <1>b, <1>3, <3>1
  <2>5. CASE EndLoad(t) \/ EndVisit(t)
    <3>1. pc'[t] = "idle" /\ mixed' = mixed \ {t}
      BY <1>a, <2>5 DEF EndLoad, EndVisit, Return
    <3> QED
      BY <1>b, <1>4, <3>1
  <2>6. ASSUME NEW n \in Names, VisitCallback(t, n) PROVE MixedInv'
    BY <1>3, <1>b, <2>6 DEF VisitCallback, Visited
  <2> QED
    BY <1>5, <2>1, <2>2, <2>3, <2>4, <2>5, <2>6 DEF Continue
<1>6. ASSUME NEW n \in Names, VisitCallbackLooksUp(t, n) PROVE MixedInv'
  <2>1. pc'[t] = "wait" /\ mixed' = mixed
    BY <1>a, <1>6 DEF VisitCallbackLooksUp
  <2> QED
    BY <1>b, <1>4, <2>1
<1>7. ASSUME NEW n \in Names, NEW str \in Texts, VisitCallbackSets(t, n, str)
      PROVE  MixedInv'
  <2>1. t \in m_mutex' /\ mixed' = mixed \cup Setting
    BY <1>a, <1>7 DEF VisitCallbackSets, Visited
  <2> QED
    BY <1>2, <2>1 DEF MixedInv, Setting
<1>8. ASSUME Visit(t) PROVE MixedInv'
  <2>1. pc'[t] = "visit" /\ mixed' = mixed
    BY <1>a, <1>8 DEF Visit
  <2> QED
    BY <1>b, <1>4, <2>1
<1>9. ASSUME NEW d \in Docs, LoadFromYaml(t, d) PROVE MixedInv'
  <2>1. mixed' = IF Setting = {} THEN mixed ELSE mixed \cup Setting \cup {t}
    BY <1>9 DEF LoadFromYaml
  <2> QED
    BY <1>2, <2>1 DEF MixedInv, Setting
<1>10. ASSUME NEW n \in Names, NEW ty \in Types, Lookup(t, n, ty)
       PROVE  MixedInv'
  BY <1>3, <1>b, <1>10 DEF Lookup
<1>11. ASSUME NodeRefused(t) PROVE MixedInv'
  <2>1. pc[t] = "notify" /\ m_mutex' = m_mutex /\ mixed' = mixed
    BY <1>11 DEF NodeRefused, ListenerThrows
  <2> QED
    BY <1>b, <1>3, <2>1
<1>12. ASSUME LoadThrows(t) \/ VisitThrows(t) PROVE MixedInv'
  <2>1. pc'[t] \in {"idle", "visit"} /\ mixed \ {t} \subseteq mixed'
    BY <1>a, <1>12 DEF LoadThrows, VisitThrows, Return
  <2> QED
    BY <1>b, <1>4, <2>1
<1> QED
  BY <1>1, <1>5, <1>6, <1>7, <1>8, <1>9, <1>10, <1>11, <1>12 DEF Moves

(* A step that changes neither the load nor its variables.                 *)
LEMMA AppliedStays ==
  ASSUME NEW t, Applied(t), doc'[t] = doc[t], rest'[t] = rest[t],
         snap'[t] = snap[t], refused'[t] = refused[t],
         \A n \in snap[t] : s_datas'[n] = s_datas[n] /\ m_val'[n] = m_val[n]
  PROVE  Applied(t)'
<1>1. Done(t)' = Done(t)
  BY DEF Done, ListAllMember
<1>2. \A n : n.name \in snap[t] => Converted(n)' = Converted(n)
  BY DEF Converted
<1> SUFFICES ASSUME NEW i \in Done(t), doc[t][i].name \in snap[t],
                    DecidesSoFar(t, i)'
             PROVE  m_val'[doc[t][i].name] = Converted(doc[t][i])'
  BY <1>1 DEF Applied
<1>3. DecidesSoFar(t, i)
  BY <1>1, <1>2 DEF DecidesSoFar, Takes
<1> QED
  BY <1>2, <1>3 DEF Applied

(* The first node is done: it did not convert or was refused, or its       *)
(* variable has what its string is converted to.                           *)
Refuses(t) == refused'[t] \in {refused[t], refused[t] \cup {First(t)}}

NodeTakes(t) == Converted(Node(t)) # Fails /\ First(t) \notin refused'[t]

LEMMA AppliedAdvances ==
  ASSUME TypeOK, NEW t \in Threads, rest[t] # {}, InOrder(t), Applied(t),
         doc'[t] = doc[t], rest'[t] = rest[t] \ {First(t)}, snap'[t] = snap[t],
         Refuses(t),
         \A n \in snap[t] :
           /\ s_datas'[n] = s_datas[n]
           /\ ~ (n = Node(t).name /\ NodeTakes(t)) => m_val'[n] = m_val[n]
           /\ n = Node(t).name /\ NodeTakes(t) => m_val'[n] = Converted(Node(t))
  PROVE  Applied(t)'
<1> DEFINE f == First(t)
<1>1. f \in rest[t] /\ \A j \in rest[t] : f <= j
  BY FirstIsNext
<1>2. Done(t)' = Done(t) \cup {f}
  BY <1>1 DEF Done, ListAllMember, InOrder
<1>3. \A i \in Done(t) : i < f
  <2>1. Done(t) \subseteq Nat /\ f \in Nat
    BY <1>1 DEF Done, ListAllMember, TypeOK
  <2>2. \A i \in Done(t) : i # f /\ ~ (f < i)
    BY <1>1 DEF InOrder, Done
  <2> QED
    BY <2>1, <2>2
<1>4. Node(t) = doc[t][f]
  BY DEF Node
<1>r. refused'[t] \in {refused[t], refused[t] \cup {f}}
      /\ (NodeTakes(t) <=> Converted(Node(t)) # Fails /\ f \notin refused'[t])
  BY DEF Refuses, NodeTakes
<1> HIDE DEF f
<1>5. \A n : n.name \in snap[t] => Converted(n)' = Converted(n)
  BY DEF Converted
<1> SUFFICES ASSUME NEW i \in Done(t) \cup {f}, doc[t][i].name \in snap[t],
                    DecidesSoFar(t, i)'
             PROVE  m_val'[doc[t][i].name] = Converted(doc[t][i])'
  BY <1>2 DEF Applied
<1>6. CASE i = f
  BY <1>4, <1>5, <1>6, <1>r DEF DecidesSoFar, Takes
<1>7. CASE i \in Done(t)
  <2>0. \A j \in Done(t) : j \in refused'[t] <=> j \in refused[t]
    <3>1. \A j \in Done(t) : j # f
      BY <1>1 DEF Done
    <3> QED
      BY <1>r, <3>1
  <2>1. DecidesSoFar(t, i)
    BY <1>2, <1>5, <1>7, <2>0 DEF DecidesSoFar, Takes
  <2>2. m_val[doc[t][i].name] = Converted(doc[t][i])
    BY <1>7, <2>1 DEF Applied
  <2>3. i < f
    BY <1>3, <1>7
  <2>4. f \in Done(t)'
    BY <1>2
  <2>5. doc[t][f].name = doc[t][i].name => ~ NodeTakes(t)
    BY <1>4, <1>5, <1>r, <2>3, <2>4 DEF DecidesSoFar, Takes
  <2>6. m_val'[doc[t][i].name] = m_val[doc[t][i].name]
    BY <1>4, <2>5
  <2> QED
    BY <1>5, <2>2, <2>6
<1> QED
  BY <1>6, <1>7

LEMMA InOrderAdvances ==
  ASSUME TypeOK, NEW t \in Threads, rest[t] # {}, InOrder(t),
         doc'[t] = doc[t], rest'[t] = rest[t] \ {First(t)}, Refuses(t)
  PROVE  InOrder(t)'
<1>1. \A j \in rest[t] : First(t) <= j
  BY FirstIsNext
<1>2. ListAllMember(doc[t])' = ListAllMember(doc[t])
  BY DEF ListAllMember
<1>3. rest[t] \subseteq Nat /\ First(t) \in Nat /\ ListAllMember(doc[t]) \subseteq Nat
  BY FirstIsNext DEF TypeOK, ListAllMember
<1>4. refused'[t] \cap rest'[t] = {}
  BY DEF InOrder, Refuses
<1> QED
  BY <1>1, <1>2, <1>3, <1>4 DEF InOrder

(* Only the write section of setValue changes a registered variable.       *)
LEMMA ValuesStay ==
  ASSUME IInv, NEW t \in Threads, Moves(t), ~ Store(t)
  PROVE  \A n \in Registered : m_val'[n] = m_val[n]
<1>1. ASSUME NEW h, NEW ty \in Types, Register(h, ty)
      PROVE  \A n \in Registered : m_val'[n] = m_val[n]
  BY <1>1 DEF Register, IInv, TypeOK, Registered
<1>2. m_val' = m_val \/ \E h, ty : ty \in Types /\ Register(h, ty)
  BY DEF tableVars, loadUnchanged, Moves, Continue, Lookup, LoadFromYaml, Find,
         FindNothing, SetNothing, SetDiffers, Notify, EndLoad, Visit,
         VisitCallback, VisitCallbackLooksUp, VisitCallbackSets, EndVisit,
         HookLooksUp, NodeRefused, LoadThrows, VisitThrows, ListenerThrows
<1> QED
  BY <1>1, <1>2

(* A thread leaves only itself out of those that set together.             *)
LEMMA MixedStays ==
  ASSUME NEW t \in Threads, Moves(t)
  PROVE  mixed \ {t} \subseteq mixed'
BY DEF historyVars, loadUnchanged, Moves, Continue, Lookup, LoadFromYaml, Find,
       FindNothing, SetNothing, SetDiffers, Notify, Store, EndLoad, Visit,
       VisitCallback, VisitCallbackLooksUp, VisitCallbackSets, EndVisit, Return,
       NodeRefused, LoadThrows, VisitThrows

(* A step of another thread leaves a load as it was: if that sets a        *)
(* variable, the load knows.                                               *)
LEMMA LoadElsewhere ==
  ASSUME IInv, MixedInv, LoadInv, NEW t \in Threads, Moves(t),
         NEW s \in Threads, s # t, Loads(s)'
  PROVE  LoadOk(s)'
<1>1. Place(s)' = Place(s) /\ (s \in m_mutex' <=> s \in m_mutex)
  BY OthersStay DEF IInv
<1>2. Loads(s)
  BY <1>1 DEF Loads, Setting, Place
<1>3. LoadOk(s)
  BY <1>2 DEF LoadInv
<1>4. \A n \in Registered : s_datas'[n] = s_datas[n]
  BY TableStays DEF IInv
<1>5. Registered \subseteq Registered'
  BY <1>4 DEF Registered
<1>6. Node(s)' = Node(s)
  BY <1>1, NodeStays DEF Place
<1>7. InOrder(s)'
  BY <1>1, <1>3 DEF InOrder, LoadOk, ListAllMember, Place
<1>8. AtNode(s)'
  BY <1>1, <1>3, <1>4, <1>5, <1>6 DEF AtNode, LoadOk, Place, Converted
<1>9. ASSUME s \notin mixed' PROVE Applied(s)'
  <2>1. s \notin mixed
    BY <1>9, MixedStays
  <2>2. t \notin Setting
    BY <1>2, <2>1 DEF MixedInv, Loads, Setting
  <2>3. ~ Store(t)
    BY <2>2 DEF Store, Setting
  <2>4. \A n \in snap[s] : s_datas'[n] = s_datas[n] /\ m_val'[n] = m_val[n]
    BY <1>3, <1>4, <2>3, ValuesStay DEF LoadOk
  <2> QED
    BY <1>1, <1>3, <2>1, <2>4, AppliedStays DEF LoadOk, Place
<1> QED
  BY <1>1, <1>3, <1>5, <1>7, <1>8, <1>9 DEF LoadOk, Place

(* A load that goes on to the next node, this one's string not converted,  *)
(* of a name that is not there, refused, or its value stored.              *)
LEMMA LoadAdvances ==
  ASSUME IInv, NEW t \in Threads, Moves(t), LoadOk(t), rest[t] # {},
         Advance(t), doc' = doc, snap' = snap, mixed' = mixed, Refuses(t),
         \A n \in Registered :
           /\ ~ (n = Node(t).name /\ NodeTakes(t)) => m_val'[n] = m_val[n]
           /\ n = Node(t).name /\ NodeTakes(t) => m_val'[n] = Converted(Node(t))
  PROVE  LoadOk(t)'
<1>1. \A n \in Registered : s_datas'[n] = s_datas[n]
  BY TableStays DEF IInv
<1>2. Registered \subseteq Registered'
  BY <1>1 DEF Registered
<1>3. rest'[t] = rest[t] \ {First(t)} /\ pc'[t] = "find"
  BY DEF Advance, IInv, TypeOK
<1>4. snap'[t] = snap[t] /\ doc'[t] = doc[t] /\ snap[t] \subseteq Registered
  BY DEF LoadOk
<1>5. InOrder(t)'
  BY <1>3, <1>4, InOrderAdvances DEF LoadOk, IInv
<1>6. AtNode(t)'
  BY <1>3 DEF AtNode
<1>7. ASSUME t \notin mixed PROVE Applied(t)'
  <2>1. TypeOK /\ InOrder(t) /\ Applied(t)
    BY <1>7 DEF LoadOk, IInv
  <2> QED
    BY <1>1, <1>3, <1>4, <2>1, AppliedAdvances
<1> QED
  BY <1>2, <1>4, <1>5, <1>6, <1>7 DEF LoadOk

(* A load that stays at its node, while no registered variable changes.    *)
LEMMA LoadStays ==
  ASSUME IInv, NEW t \in Threads, Moves(t), LoadOk(t), ~ Store(t),
         rest' = rest, doc' = doc, snap' = snap, mixed' = mixed,
         refused' = refused, rest[t] # {}, Node(t).name \in Registered,
         pc'[t] \in {"notify", "store"} =>
           x'[t] = Node(t).name /\ v'[t] = Converted(Node(t))
  PROVE  LoadOk(t)'
<1>1. \A n \in Registered : s_datas'[n] = s_datas[n] /\ m_val'[n] = m_val[n]
  BY TableStays, ValuesStay DEF IInv
<1>2. Registered \subseteq Registered'
  BY <1>1 DEF Registered
<1>3. Node(t)' = Node(t) /\ Converted(Node(t))' = Converted(Node(t))
  BY <1>1, NodeStays DEF Converted
<1>4. InOrder(t)'
  BY DEF InOrder, LoadOk, ListAllMember
<1>5. AtNode(t)'
  BY <1>2, <1>3 DEF AtNode
<1>6. ASSUME t \notin mixed PROVE Applied(t)'
  BY <1>1, <1>6, AppliedStays DEF LoadOk
<1> QED
  BY <1>2, <1>4, <1>5, <1>6 DEF LoadOk

LEMMA LoadStep ==
  ASSUME IInv, MixedInv, LoadInv, NEW t \in Threads, Moves(t)
  PROVE  LoadInv'
<1> DEFINE G == Loads(t)' => LoadOk(t)'
<1> USE DEF tableVars, historyVars, setVars, loadUnchanged
<1>a. pc \in [Threads -> Steps] /\ doc \in [Threads -> Seq(Nodes)]
      /\ rest \in [Threads -> SUBSET Nat] /\ snap \in [Threads -> SUBSET Names]
      /\ x \in [Threads -> Names \cup {None}]
      /\ v \in [Threads -> Vals \cup {Default}]
  BY DEF IInv, TypeOK
<1>b. (pc[t] = "visit" => t \in m_mutex)
      /\ (pc[t] \in {"find", "set"} => t \notin m_mutex)
      /\ (pc[t] = "set" => rest[t] # {})
  BY DEF IInv, VisitInv, KindInv, RestInv
<1>c. pc'[t] \in {"idle", "visit", "wait"} \/ t \in m_mutex' => G
  BY DEF Loads, Setting
<1>d. t \notin m_mutex /\ pc[t] \in {"find", "set", "notify", "store"} => LoadOk(t)
  BY DEF LoadInv, Loads, Setting
<1>e. ASSUME rest[t] # {}, s_datas[Node(t).name] # Absent
      PROVE  Node(t).name \in Registered
  BY <1>e, NodeType DEF IInv, Registered, Nodes
<1> HIDE DEF G
<1>1. ASSUME Find(t) PROVE G
  <2>1. /\ rest[t] # {} /\ s_datas[Node(t).name] # Absent /\ pc'[t] = "set"
        /\ LoadOk(t) /\ ~ Store(t)
    BY <1>1, <1>a, <1>b, <1>d DEF Find, Store
  <2>2. rest' = rest /\ doc' = doc /\ snap' = snap /\ mixed' = mixed
        /\ refused' = refused
    BY <1>1 DEF Find
  <2> QED
    BY <1>e, <2>1, <2>2, LoadStays DEF G
<1>2. ASSUME FindNothing(t) PROVE G
  <2>1. rest[t] # {} /\ Advance(t) /\ LoadOk(t) /\ m_val' = m_val
    BY <1>2, <1>b, <1>d DEF FindNothing
  <2>2. Node(t).name \notin Registered
    BY <1>2 DEF FindNothing, Registered
  <2>3. doc' = doc /\ snap' = snap /\ mixed' = mixed /\ Refuses(t)
    BY <1>2 DEF FindNothing, Refuses
  <2> QED
    BY <2>1, <2>2, <2>3, LoadAdvances DEF G
<1>3. ASSUME SetNothing(t) PROVE G
  <2>1. rest[t] # {} /\ Advance(t) /\ LoadOk(t) /\ m_val' = m_val
    BY <1>3, <1>b, <1>d DEF SetNothing
  <2>2. Converted(Node(t)) # Fails => m_val[Node(t).name] = Converted(Node(t))
    BY <1>3 DEF SetNothing
  <2>3. doc' = doc /\ snap' = snap /\ mixed' = mixed /\ Refuses(t)
    BY <1>3 DEF SetNothing, Refuses
  <2> QED
    BY <2>1, <2>2, <2>3, LoadAdvances DEF G, NodeTakes
<1>4. ASSUME SetDiffers(t) PROVE G
  <2>1. rest[t] # {} /\ LoadOk(t) /\ ~ Store(t)
    BY <1>4, <1>b, <1>d DEF SetDiffers, Store
  <2>2. Node(t).name \in Registered
    BY <1>4, <1>e, <2>1 DEF SetDiffers, IInv, RestInv
  <2>3. x'[t] = Node(t).name /\ v'[t] = Converted(Node(t))
    BY <1>4, <1>a DEF SetDiffers, SetValue
  <2>4. rest' = rest /\ doc' = doc /\ snap' = snap /\ mixed' = mixed
        /\ refused' = refused
    BY <1>4 DEF SetDiffers
  <2> QED
    BY <2>1, <2>2, <2>3, <2>4, LoadStays DEF G
<1>5. ASSUME Notify(t) PROVE G
  <2>1. CASE t \in m_mutex
    BY <1>5, <1>c, <2>1 DEF Notify
  <2>2. CASE t \notin m_mutex
    <3>1. LoadOk(t) /\ ~ Store(t)
      BY <1>5, <1>d, <2>2 DEF Notify, Store
    <3>2. /\ rest[t] # {} /\ Node(t).name \in Registered
          /\ x[t] = Node(t).name /\ v[t] = Converted(Node(t))
      BY <1>5, <3>1 DEF Notify, LoadOk, AtNode
    <3>3. /\ rest' = rest /\ doc' = doc /\ snap' = snap /\ mixed' = mixed
          /\ x' = x /\ v' = v /\ refused' = refused
      BY <1>5 DEF Notify
    <3> QED
      BY <3>1, <3>2, <3>3, LoadStays DEF G
  <2> QED
    BY <2>1, <2>2
<1>6. ASSUME Store(t) PROVE G
  <2>1. CASE t \in m_mutex
    BY <1>6, <1>c, <2>1 DEF Store
  <2>2. CASE t \notin m_mutex
    <3>1. LoadOk(t) /\ Advance(t)
      BY <1>6, <1>d, <2>2 DEF Store
    <3>2. /\ rest[t] # {} /\ x[t] = Node(t).name /\ v[t] = Converted(Node(t))
      BY <1>6, <3>1 DEF Store, LoadOk, AtNode
    <3>3. Converted(Node(t)) # Fails
      BY <1>6, <3>2, ConfigRegistryAssumption DEF Store, IInv, SetInv
    <3>4. \A n \in Registered :
            m_val'[n] = IF n = x[t] THEN v[t] ELSE m_val[n]
      BY <1>6 DEF Store, IInv, TypeOK, Registered
    <3>5. doc' = doc /\ snap' = snap /\ mixed' = mixed /\ Refuses(t)
      BY <1>6 DEF Store, Refuses
    <3>6. NodeTakes(t)
      <4>1. First(t) \in rest[t] /\ refused' = refused
        BY <1>6, <3>2, FirstIsNext DEF Store, IInv
      <4> QED
        BY <3>1, <3>3, <4>1 DEF NodeTakes, LoadOk, InOrder
    <3> QED
      BY <3>1, <3>2, <3>4, <3>5, <3>6, LoadAdvances DEF G
  <2> QED
    BY <2>1, <2>2
<1>7. ASSUME EndLoad(t) \/ EndVisit(t) PROVE G
  BY <1>7, <1>a, <1>c DEF EndLoad, EndVisit, Return
<1>8. ASSUME NEW n \in Names, VisitCallback(t, n) \/ VisitCallbackLooksUp(t, n)
      PROVE  G
  BY <1>8, <1>a, <1>c DEF VisitCallback, VisitCallbackLooksUp, Visited
<1>9. ASSUME NEW n \in Names, NEW str \in Texts, VisitCallbackSets(t, n, str)
      PROVE  G
  BY <1>9, <1>b, <1>c DEF VisitCallbackSets, Visited
<1>10. ASSUME Visit(t) PROVE G
  BY <1>10, <1>a, <1>c DEF Visit
<1>11. ASSUME NEW d \in Docs, LoadFromYaml(t, d) PROVE G
  <2>1. /\ pc'[t] = "find" /\ doc'[t] = d /\ rest'[t] = ListAllMember(d)
        /\ snap'[t] = Registered /\ s_datas' = s_datas /\ refused'[t] = {}
    BY <1>11, <1>a DEF LoadFromYaml, Begin, IInv, KindInv
  <2>2. ListAllMember(doc[t])' = rest'[t] /\ Registered' = Registered
    BY <2>1 DEF ListAllMember, Registered
  <2> QED
    BY <2>1, <2>2 DEF G, LoadOk, InOrder, AtNode, Applied, Done
<1>12. ASSUME NEW n \in Names, NEW ty \in Types, Lookup(t, n, ty) PROVE G
  BY <1>12, <1>c DEF Lookup
<1>14. ASSUME NodeRefused(t) PROVE G
  <2>1. LoadOk(t) /\ Advance(t) /\ rest[t] # {}
    BY <1>14, <1>d DEF NodeRefused, ListenerThrows, IInv, RestInv
  <2>2. /\ doc' = doc /\ snap' = snap /\ mixed' = mixed
        /\ refused'[t] = refused[t] \cup {First(t)} /\ ~ Store(t)
    BY <1>14 DEF NodeRefused, ListenerThrows, IInv, TypeOK, Store
  <2>3. Refuses(t) /\ ~ NodeTakes(t)
    BY <2>2 DEF Refuses, NodeTakes
  <2>4. \A n \in Registered : m_val'[n] = m_val[n]
    BY <2>2, ValuesStay
  <2> QED
    BY <2>1, <2>2, <2>3, <2>4, LoadAdvances DEF G
<1>15. ASSUME LoadThrows(t) \/ VisitThrows(t) PROVE G
  BY <1>15, <1>a, <1>c DEF LoadThrows, VisitThrows, Return
<1>13. G
  BY <1>1, <1>2, <1>3, <1>4, <1>5, <1>6, <1>7, <1>8, <1>9, <1>10, <1>11, <1>12,
     <1>14, <1>15
  DEF Moves, Continue
<1> QED
  BY <1>13, LoadElsewhere DEF LoadInv, G

LInv == NamesInv /\ MixedInv /\ LoadInv

LEMMA LoadInductive == Spec => []LInv
<1>1. Init => LInv
  BY DEF Init, LInv, NamesInv, MixedInv, LoadInv, Loads, Setting, Registered
<1>2. IInv /\ LInv /\ [Next]_vars => LInv'
  <2> SUFFICES ASSUME IInv, LInv, [Next]_vars PROVE LInv'
    OBVIOUS
  <2>1. ASSUME NEW t \in Threads, Moves(t) PROVE LInv'
    BY <2>1, MixedStep, LoadStep DEF LInv
  <2>2. ASSUME UNCHANGED vars PROVE LInv'
    <3>1. \A t \in Threads : Node(t)' = Node(t)
      BY <2>2, NodeStays DEF vars
    <3>2. NamesInv' /\ MixedInv'
      BY <2>2 DEF vars, tableVars, historyVars, LInv, NamesInv, MixedInv,
                  Setting, Registered
    <3>3. \A t \in Threads : Loads(t)' => Loads(t)
      BY <2>2 DEF vars, tableVars, Loads, Setting
    <3>4. \A t \in Threads : LoadOk(t) => LoadOk(t)'
      BY <2>2, <3>1
      DEF vars, tableVars, historyVars, setVars, LoadOk, InOrder, AtNode,
          Applied, DecidesSoFar, Takes, Done, Converted, ListAllMember,
          Registered
    <3> QED
      BY <3>2, <3>3, <3>4 DEF LInv, LoadInv
  <2> QED
    BY <2>1, <2>2 DEF Next, Moves
<1> QED
  BY Inductive, <1>1, <1>2, PTL DEF Spec

(* A document that a thread loads while no other thread sets variables is  *)
(* applied: each variable it knew at the start has the last value that its *)
(* name is given, that converts and that no listener throws at             *)
(* (config.cc:57-85, config.h:436-446).                                    *)
THEOREM DocumentsApply == Spec => LoadApplied
<1> DEFINE A == \A t \in Threads :
                  pc[t] = "find" /\ pc'[t] = "idle" /\ t \notin mixed =>
                    \A i \in 1 .. Len(doc[t]) :
                      doc[t][i].name \in snap[t] /\ Decides(doc[t], i, refused[t]) =>
                        m_val[doc[t][i].name] = Converted(doc[t][i])
<1>1. IInv /\ LInv /\ [Next]_vars => A
  <2> SUFFICES ASSUME IInv, LInv, [Next]_vars, NEW t \in Threads,
                      pc[t] = "find", pc'[t] = "idle", t \notin mixed,
                      NEW i \in 1 .. Len(doc[t]),
                      doc[t][i].name \in snap[t], Decides(doc[t], i, refused[t])
               PROVE  m_val[doc[t][i].name] = Converted(doc[t][i])
    OBVIOUS
  <2>1. Moves(t)
    <3>1. PICK s \in Threads : Moves(s)
      BY DEF Next, Moves, vars
    <3> QED
      BY <3>1, OthersStay DEF IInv, Place
  <2>2. EndLoad(t)
    BY <2>1
    DEF IInv, TypeOK, Moves, Continue, Lookup, LoadFromYaml, Begin, Find,
        FindNothing, SetNothing, SetDiffers, SetValue, Notify, Store, EndVisit,
        Visit, VisitCallback, VisitCallbackLooksUp, VisitCallbackSets, Advance,
        Visited, ListenerThrows, NodeRefused, LoadThrows, VisitThrows
  <2>3. LoadOk(t) /\ Applied(t)
    BY DEF LInv, LoadInv, Loads, Setting, IInv, KindInv, LoadOk
  <2>4. Done(t) = ListAllMember(doc[t]) /\ doc[t][i].name \in Valid
    BY <2>2, <2>3 DEF EndLoad, Done, LoadOk, LInv, NamesInv
  <2>5. i \in Done(t)
    BY <2>4 DEF ListAllMember
  <2>6. DecidesSoFar(t, i)
    <3>1. Len(doc[t]) \in Nat
      BY DEF IInv, TypeOK
    <3>2. \A j \in Done(t) : i < j => j \in i + 1 .. Len(doc[t])
      BY <2>4, <3>1 DEF ListAllMember
    <3> QED
      BY <3>2 DEF Decides, DecidesSoFar
  <2> QED
    BY <2>3, <2>5, <2>6 DEF Applied
<1> QED
  BY Inductive, LoadInductive, <1>1, PTL DEF Spec, LoadApplied

-----------------------------------------------------------------------------
(* Conversions.                                                            *)

(* Induction, for a set of positions.                                      *)
LEMMA FromOneUp ==
  ASSUME NEW m \in Nat, NEW S, 1 \in S,
         \A k \in 1 .. m : k \in S /\ k + 1 <= m => k + 1 \in S
  PROVE  1 .. m \subseteq S
<1> DEFINE Bad == {k \in 1 .. m : k \notin S}
<1> SUFFICES ASSUME Bad # {} PROVE FALSE
  OBVIOUS
<1>1. PICK b \in Bad : \A j \in Bad : b <= j
  <2>1. Bad \subseteq Nat
    OBVIOUS
  <2> QED
    BY <2>1, HasFirst
<1>2. b # 1 /\ b - 1 \in 1 .. m
  OBVIOUS
<1>3. b - 1 \notin Bad
  BY <1>1, <1>2
<1> QED
  BY <1>2, <1>3

(* The conversions of a type are those of its constructors, one after the  *)
(* other.                                                                  *)
LEMMA CastsStep ==
  ASSUME NEW C, NEW ty \in Seq(C), ty # <<>>, NEW S
  PROVE  /\ CastsOf(ty, S)[1] = BasicCast(ty[1], S)
         /\ \A k \in 2 .. Len(ty) :
              CastsOf(ty, S)[k] =
                ContainerCast(ty[k], CastsOf(ty, S)[k - 1], S)
<1> DEFINE Body(f, k) == IF k = 1 THEN BasicCast(ty[1], S)
                         ELSE ContainerCast(ty[k], f[k - 1], S)
           Loop(f, m) == f = [k \in 1 .. m |-> Body(f, k)]
           T == {m \in Nat : \E f : Loop(f, m)}
<1>0. Len(ty) \in Nat \ {0}
  OBVIOUS
<1>1. 1 \in T
  <2> DEFINE f == [k \in 1 .. 1 |-> BasicCast(ty[1], S)]
  <2>1. f = [k \in 1 .. 1 |-> Body(f, k)]
    OBVIOUS
  <2> HIDE DEF f, Body
  <2> QED
    BY <2>1
<1>2. ASSUME NEW m \in Nat, m \in T PROVE m + 1 \in T
  <2>1. PICK f : Loop(f, m)
    BY <1>2
  <2> DEFINE g == [k \in 1 .. m + 1 |-> IF k = m + 1 THEN Body(f, k) ELSE f[k]]
  <2>2. \A k \in 1 .. m : g[k] = f[k] /\ f[k] = Body(f, k)
    <3> HIDE DEF Body
    <3>1. f = [k \in 1 .. m |-> Body(f, k)]
      BY <2>1
    <3>2. \A k \in 1 .. m : f[k] = Body(f, k)
      BY <3>1
    <3>3. \A k \in 1 .. m : k \in 1 .. m + 1 /\ k # m + 1
      OBVIOUS
    <3> QED
      BY <3>2, <3>3
  <2>3. \A k \in 1 .. m + 1 : Body(g, k) = Body(f, k)
    <3>1. ASSUME NEW k \in 1 .. m + 1, k # 1 PROVE g[k - 1] = f[k - 1]
      <4>1. k - 1 \in 1 .. m
        BY <3>1
      <4> QED
        BY <2>2, <4>1
    <3> HIDE DEF g
    <3> QED
      BY <3>1
  <2>4. g = [k \in 1 .. m + 1 |-> Body(g, k)]
    <3> HIDE DEF Body
    <3>1. ASSUME NEW k \in 1 .. m + 1 PROVE g[k] = Body(g, k)
      <4>1. k = m + 1 \/ k \in 1 .. m
        OBVIOUS
      <4>2. m + 1 \in 1 .. m + 1 /\ g[m + 1] = Body(f, m + 1)
        OBVIOUS
      <4> QED
        BY <2>2, <2>3, <4>1, <4>2
    <3> QED
      BY <3>1
  <2> HIDE DEF g, Body
  <2> QED
    BY <2>4
<1>3. Len(ty) \in T
  <2>1. 1 .. Len(ty) \subseteq T
    <3> HIDE DEF T
    <3> QED
      BY <1>0, <1>1, <1>2, FromOneUp
  <2> QED
    BY <1>0, <2>1
<1>4. Loop(CastsOf(ty, S), Len(ty))
  <2>1. PICK f : Loop(f, Len(ty))
    BY <1>3
  <2>2. CastsOf(ty, S) = CHOOSE h : Loop(h, Len(ty))
    BY DEF CastsOf
  <2> HIDE DEF Loop
  <2> QED
    BY <2>1, <2>2, Zenon
<1> HIDE DEF Body
<1>5. \A k \in 1 .. Len(ty) : CastsOf(ty, S)[k] = Body(CastsOf(ty, S), k)
  BY <1>4
<1> QED
  BY <1>0, <1>5 DEF Body

-----------------------------------------------------------------------------
(* What is emitted for a container is loaded as that container.            *)
LEMMA ContainerLoads ==
  /\ \A ns : Load(Emit(Sequence(ns))) = Sequence(ns)
  /\ \A ps : Load(Emit(Mapping(ps))) = Mapping(ps)
<1>1. ASSUME NEW ns PROVE Load(Emit(Sequence(ns))) = Sequence(ns)
  <2>1. Sequence(ns) # Null /\ Sequence(ns).node = "sequence"
    BY DEF Sequence, Null
  <2>2. Emit(Sequence(ns)) = [dump |-> Sequence(ns)]
    BY <2>1 DEF Emit
  <2> QED
    BY <2>2 DEF Load
<1>2. ASSUME NEW ps PROVE Load(Emit(Mapping(ps))) = Mapping(ps)
  <2>1. Mapping(ps) # Null /\ Mapping(ps).node = "map"
    BY DEF Mapping, Null
  <2>2. Emit(Mapping(ps)) = [dump |-> Mapping(ps)]
    BY <2>1 DEF Emit
  <2> QED
    BY <2>2 DEF Load
<1> QED
  BY <1>1, <1>2

(* A plain word is emitted for the scalar that holds it.                   *)
LEMMA PlainEmitted == \A w : IsPlain(w) => Emit(Scalar(w)) = w
<1> TAKE w
<1>1. Scalar(w) # Null /\ Scalar(w).node = "scalar" /\ Scalar(w).text = w
  BY DEF Scalar, Null
<1> QED
  BY <1>1 DEF Emit

(* SetToSeq lists each member of a finite set once.                        *)
LEMMA ListsOnce ==
  ASSUME NEW T, IsFiniteSet(T)
  PROVE  \E c \in Nat :
           /\ SetToSeq(T) \in [1 .. c -> T]
           /\ \A e \in T : \E i \in 1 .. c : SetToSeq(T)[i] = e
           /\ \A i, j \in 1 .. c : SetToSeq(T)[i] = SetToSeq(T)[j] => i = j
<1> DEFINE c == Cardinality(T)
           q == SetToSeq(T)
<1>1. c \in Nat /\ ExistsBijection(1 .. c, T)
  BY FS_CardinalityType
<1>2. \E f \in [1 .. c -> T] : IsInjective(f)
  BY <1>1 DEF ExistsBijection, Bijection, Injection, IsInjective
<1>3. q \in [1 .. c -> T] /\ IsInjective(q)
  BY <1>2 DEF SetToSeq
<1> HIDE DEF q
<1>4. q \in Injection(1 .. c, T)
  BY <1>3 DEF Injection, IsInjective
<1>5. Cardinality(1 .. c) = c
  BY <1>1, FS_Interval
<1>6. q \in Surjection(1 .. c, T)
  BY <1>4, <1>5, FS_Injection
<1> HIDE DEF c
<1>7. /\ q \in [1 .. c -> T]
      /\ \A e \in T : \E i \in 1 .. c : q[i] = e
      /\ \A i, j \in 1 .. c : q[i] = q[j] => i = j
  BY <1>3, <1>6 DEF Surjection, IsInjective
<1> QED
  BY <1>1, <1>7 DEF q

(* The members of a list are a finite set.                                 *)
LEMMA FinitelyMany ==
  ASSUME NEW m \in Nat, NEW f, DOMAIN f = 1 .. m
  PROVE  IsFiniteSet({f[i] : i \in 1 .. m})
<1> DEFINE T == {f[i] : i \in 1 .. m}
           g == [i \in 1 .. m |-> f[i]]
<1>1. g \in Surjection(1 .. m, T)
  BY DEF Surjection
<1>2. IsFiniteSet(1 .. m)
  BY FS_Interval
<1> QED
  BY <1>1, <1>2, FS_Surjection

-----------------------------------------------------------------------------
(* The strings of the elements of what a string loads as.                  *)
LEMMA TextsRead ==
  ASSUME NEW s \in Strings
  PROVE  LET texts == ElementTexts(Load(s)) IN
         \E m \in Nat : DOMAIN texts = 1 .. m /\ \A i \in 1 .. m : texts[i] \in Strings
<1> DEFINE n == Load(s)
           texts == ElementTexts(n)
<1>1. /\ n.node = "sequence" => n.items \in Seq(ToSet(n.items))
      /\ n.node = "map" => n.pairs \in Seq(ToSet(n.pairs))
      /\ {texts[i] : i \in DOMAIN texts} \subseteq Strings
  BY ConfigCastsAssumption DEF ToSet
<1> HIDE DEF n
<1>2. \E m \in Nat : DOMAIN texts = 1 .. m
  <2>1. CASE n.node = "sequence"
    <3>1. Len(n.items) \in Nat
      BY <1>1, <2>1
    <3> QED
      BY <2>1, <3>1 DEF ElementTexts
  <2>2. CASE n.node = "map"
    <3>1. Len(n.pairs) \in Nat
      BY <1>1, <2>2
    <3> QED
      BY <2>2, <3>1 DEF ElementTexts
  <2>3. CASE n.node \notin {"sequence", "map"}
    <3>1. texts = <<>>
      BY <2>3 DEF ElementTexts
    <3> QED
      BY <3>1
  <2> QED
    BY <2>1, <2>2, <2>3
<1> HIDE DEF texts
<1>3. \A i \in DOMAIN texts : texts[i] \in Strings
  BY <1>1
<1> QED
  BY <1>2, <1>3 DEF texts, n

(* The entries of what a string loads as.                                  *)
LEMMA EntriesRead ==
  ASSUME NEW s \in Strings
  PROVE  LET ps == Entries(Load(s)) IN
         \E m \in Nat : DOMAIN ps = 1 .. m /\ \A i \in 1 .. m : Emit(ps[i].value) \in Strings
<1> DEFINE n == Load(s)
           ps == Entries(n)
<1>1. /\ n.node = "map" => n.pairs \in Seq(ToSet(n.pairs))
      /\ \A p \in {ps[i] : i \in DOMAIN ps} : Emit(p.value) \in Strings
  BY ConfigCastsAssumption DEF ToSet
<1> HIDE DEF n
<1>2. \E m \in Nat : DOMAIN ps = 1 .. m
  <2>1. CASE n.node = "map"
    <3>1. Len(n.pairs) \in Nat /\ DOMAIN n.pairs = 1 .. Len(n.pairs)
      BY <1>1, <2>1
    <3> QED
      BY <2>1, <3>1 DEF Entries
  <2>2. CASE n.node # "map"
    <3>1. ps = <<>>
      BY <2>2 DEF Entries
    <3> QED
      BY <3>1
  <2> QED
    BY <2>1, <2>2
<1> HIDE DEF ps
<1>3. \A i \in DOMAIN ps : Emit(ps[i].value) \in Strings
  BY <1>1
<1> QED
  BY <1>2, <1>3 DEF ps, n

(* Of the entries with a key, there is a first one.                        *)
LEMMA FirstIsOne ==
  ASSUME NEW m \in Nat, NEW ps, DOMAIN ps = 1 .. m,
         NEW k \in {ps[i].key : i \in 1 .. m}
  PROVE  \E i \in 1 .. m : FirstWith(ps, k) = ps[i] /\ ps[i].key = k
<1> DEFINE T == {i \in 1 .. m : ps[i].key = k}
<1>1. PICK i \in T : \A j \in T : i <= j
  <2>1. T # {} /\ T \subseteq Nat
    OBVIOUS
  <2> HIDE DEF T
  <2> QED
    BY <2>1, HasFirst
<1>2. \A j \in 1 .. i - 1 : ps[j].key # k
  BY <1>1
<1> DEFINE Is(h) == ps[h].key = k /\ \A j \in 1 .. h - 1 : ps[j].key # k
           h0 == CHOOSE h \in DOMAIN ps : Is(h)
<1>3. \E h \in DOMAIN ps : Is(h)
  BY <1>1, <1>2
<1>4. h0 \in DOMAIN ps /\ Is(h0)
  <2> HIDE DEF Is
  <2> QED
    BY <1>3
<1>5. FirstWith(ps, k) = ps[h0]
  BY DEF FirstWith
<1> HIDE DEF h0
<1> QED
  BY <1>4, <1>5

(* A function on the positions of a list of m, and its values.             *)
IsList(f, m) == f = [i \in 1 .. m |-> f[i]]
ValuesOf(f, m) == {f[i] : i \in 1 .. m}

(* What the string of a sequence is converted to.                          *)
LEMMA SequenceRead ==
  ASSUME NEW con \in {"vector", "list", "set"}, NEW from, NEW m \in Nat,
         NEW ns, IsList(ns, m), NEW ws, IsList(ws, m),
         \A i \in 1 .. m : ws[i] = from[Emit(ns[i])]
  PROVE  FromElements(con, from, Emit(Sequence(ns))) =
           UnlessFails(ValuesOf(ws, m),
             IF con = "set" THEN [set |-> ValuesOf(ws, m)] ELSE [seq |-> ws])
<1> DEFINE n == Load(Emit(Sequence(ns)))
           texts == ElementTexts(n)
           vs == [i \in DOMAIN texts |-> from[texts[i]]]
           es == {vs[i] : i \in DOMAIN vs}
<1>1. n.node = "sequence" /\ n.items = ns
  BY ContainerLoads DEF Sequence
<1>2. Len(ns) = m
  BY DEF IsList
<1> HIDE DEF n
<1>3. texts = [i \in 1 .. m |-> Emit(ns[i])]
  BY <1>1, <1>2 DEF ElementTexts
<1> HIDE DEF texts
<1>4. vs = ws /\ DOMAIN vs = 1 .. m
  BY <1>3 DEF IsList
<1>5. FromElements(con, from, Emit(Sequence(ns))) =
        UnlessFails(es, IF con = "set" THEN [set |-> es] ELSE [seq |-> vs])
  BY DEF FromElements, FromItems, FromEntries, texts, n
<1> HIDE DEF vs
<1> QED
  BY <1>4, <1>5 DEF ValuesOf

(* What the elements of a container are converted to and from.             *)
IsCast(cast) ==
  /\ DOMAIN cast.to = {cast.from[s] : s \in Strings} \ {BadCast}
  /\ cast.lossy \subseteq DOMAIN cast.to

(* A value is read as it is written.                                       *)
Keeps(cast) ==
  \A y \in DOMAIN cast.to \ cast.lossy :
    cast.to[y] \in Strings /\ cast.from[cast.to[y]] = y

(* An element is read from the string that its container's node has for it.*)
LEMMA ElementKept ==
  ASSUME NEW con, NEW cast, Keeps(cast),
         NEW e \in DOMAIN cast.to \ cast.lossy, Legible(con, cast.to[e])
  PROVE  LET n == IF con \in {"list", "set"} THEN Scalar(cast.to[e])
                  ELSE Load(cast.to[e])
         IN  cast.from[Emit(n)] = e
<1>1. cast.to[e] \in Strings /\ cast.from[cast.to[e]] = e
  BY DEF Keeps
<1>2. CASE con \in {"list", "set"}
  BY <1>1, <1>2, PlainEmitted DEF Legible
<1>3. CASE con \notin {"list", "set"}
  <2>1. Emit(Load(cast.to[e])) = cast.to[e]
    BY <1>1, <1>3, ConfigCastsAssumption DEF Legible
  <2> QED
    BY <1>1, <1>3, <2>1
<1> QED
  BY <1>2, <1>3

(* A value is a list of m elements, none of which failed.                  *)
Lists(y, cast, m, vs) ==
  /\ y = [seq |-> vs] /\ vs = [i \in 1 .. m |-> vs[i]]
  /\ BadCast \notin {vs[i] : i \in 1 .. m}
  /\ \A i \in 1 .. m : vs[i] \in DOMAIN cast.to
  /\ Elements(y) = {vs[i] : i \in 1 .. m}

(* What a string is converted to, for a container with an order.           *)
LEMMA SeqValue ==
  ASSUME NEW con \in {"vector", "list"}, NEW cast, IsCast(cast),
         NEW s \in Strings, NEW y, y = FromElements(con, cast.from, s), y # BadCast
  PROVE  \E m \in Nat : \E vs : Lists(y, cast, m, vs)
<1> DEFINE texts == ElementTexts(Load(s))
           vs == [i \in DOMAIN texts |-> cast.from[texts[i]]]
           es == {vs[i] : i \in DOMAIN vs}
<1>1. PICK m \in Nat : DOMAIN texts = 1 .. m /\ \A i \in 1 .. m : texts[i] \in Strings
  BY TextsRead
<1>2. y = UnlessFails(es, [seq |-> vs])
  BY DEF FromElements, FromItems, FromEntries
<1> HIDE DEF texts
<1>3. DOMAIN vs = 1 .. m /\ vs = [i \in 1 .. m |-> vs[i]]
  BY <1>1
<1>4. \A i \in 1 .. m : vs[i] \in {cast.from[t] : t \in Strings}
  BY <1>1
<1> HIDE DEF vs
<1>5. y = [seq |-> vs] /\ BadCast \notin es
  BY <1>2 DEF UnlessFails
<1>6. \A i \in 1 .. m : vs[i] \in DOMAIN cast.to
  BY <1>3, <1>4, <1>5 DEF IsCast
<1>7. Elements(y) = es /\ es = {vs[i] : i \in 1 .. m}
  BY <1>3, <1>5 DEF Elements
<1>8. Lists(y, cast, m, vs)
  BY <1>3, <1>5, <1>6, <1>7 DEF Lists
<1> QED
  BY <1>8

(* A vector or a list that is written is read as the same.                *)
LEMMA SeqKept ==
  ASSUME NEW con \in {"vector", "list"}, NEW cast, IsCast(cast), Keeps(cast),
         NEW s \in Strings, NEW y, y = FromElements(con, cast.from, s), y # BadCast,
         \A e \in Elements(y) : e \notin cast.lossy /\ Legible(con, cast.to[e])
  PROVE  FromElements(con, cast.from, ToElements(con, cast.to, y)) = y
<1>0. PICK m \in Nat : \E vs : Lists(y, cast, m, vs)
  BY SeqValue
<1>01. PICK vs : Lists(y, cast, m, vs)
  BY <1>0
<1>1. /\ y = [seq |-> vs] /\ vs = [i \in 1 .. m |-> vs[i]]
      /\ BadCast \notin {vs[i] : i \in 1 .. m}
      /\ \A i \in 1 .. m : vs[i] \in DOMAIN cast.to
      /\ Elements(y) = {vs[i] : i \in 1 .. m}
  BY <1>01 DEF Lists
<1> DEFINE NodeOf(w) == IF con \in {"list", "set"} THEN Scalar(w) ELSE Load(w)
           ns == [i \in 1 .. m |-> NodeOf(cast.to[vs[i]])]
           ws == [i \in 1 .. m |-> cast.from[Emit(ns[i])]]
           es == {ws[i] : i \in 1 .. m}
<1>2. \A i \in 1 .. m : vs[i] \notin cast.lossy /\ Legible(con, cast.to[vs[i]])
  BY <1>1
<1>3. \A i \in 1 .. m : cast.from[Emit(NodeOf(cast.to[vs[i]]))] = vs[i]
  <2>1. TAKE i \in 1 .. m
  <2>2. vs[i] \in DOMAIN cast.to \ cast.lossy /\ Legible(con, cast.to[vs[i]])
    BY <1>1, <1>2
  <2> QED
    BY <2>2, ElementKept
<1>4. ToElements(con, cast.to, y) = Emit(Sequence(ns))
  <2>1. DOMAIN vs = 1 .. m /\ y.seq = vs
    BY <1>1
  <2> DEFINE ss == [i \in DOMAIN y.seq |-> cast.to[y.seq[i]]]
  <2>2. DOMAIN ss = 1 .. m /\ \A i \in 1 .. m : ss[i] = cast.to[vs[i]]
    BY <2>1
  <2>3. ToElements(con, cast.to, y) =
          Emit(IF con = "vector" THEN PushLoaded(ss) ELSE PushText(ss))
    BY DEF ToElements
  <2> HIDE DEF ss
  <2>4. con = "vector" => PushLoaded(ss) = Sequence(ns)
    BY <2>2 DEF PushLoaded
  <2>5. con = "list" => PushText(ss) = Sequence(ns)
    BY <2>2 DEF PushText
  <2> QED
    BY <2>3, <2>4, <2>5
<1> HIDE DEF NodeOf
<1>5. ws = vs /\ es = {vs[i] : i \in 1 .. m}
  BY <1>1, <1>3
<1>6. IsList(ns, m) /\ IsList(ws, m) /\ es = ValuesOf(ws, m)
  BY DEF IsList, ValuesOf
<1>7. \A i \in 1 .. m : ws[i] = cast.from[Emit(ns[i])]
  OBVIOUS
<1>8. con \in {"vector", "list", "set"} /\ con # "set"
  OBVIOUS
<1> HIDE DEF ns, ws, es
<1>9. FromElements(con, cast.from, Emit(Sequence(ns))) = UnlessFails(es, [seq |-> ws])
  BY <1>6, <1>7, <1>8, SequenceRead
<1> QED
  BY <1>1, <1>4, <1>5, <1>9 DEF UnlessFails

(* So is a set, in whatever order its elements are written.                *)
LEMMA SetKept ==
  ASSUME NEW cast, IsCast(cast), Keeps(cast),
         NEW s \in Strings, NEW y, y = FromElements("set", cast.from, s), y # BadCast,
         \A e \in Elements(y) : e \notin cast.lossy /\ Legible("set", cast.to[e])
  PROVE  FromElements("set", cast.from, ToElements("set", cast.to, y)) = y
<1> DEFINE texts == ElementTexts(Load(s))
           vs == [i \in DOMAIN texts |-> cast.from[texts[i]]]
           es == {vs[i] : i \in DOMAIN vs}
           T == {cast.to[e] : e \in es}
           q == SetToSeq(T)
<1>1. PICK m \in Nat : DOMAIN texts = 1 .. m /\ \A i \in 1 .. m : texts[i] \in Strings
  BY TextsRead
<1>2. y = UnlessFails(es, [set |-> es])
  BY DEF FromElements, FromItems, FromEntries
<1>3. y = [set |-> es] /\ BadCast \notin es
  BY <1>2 DEF UnlessFails
<1>4. y.set = es /\ Elements(y) = es
  BY <1>3 DEF Elements
<1> HIDE DEF texts
<1>5. DOMAIN vs = 1 .. m /\ \A i \in 1 .. m : vs[i] \in {cast.from[t] : t \in Strings}
  BY <1>1
<1> HIDE DEF vs
<1>6. es \subseteq DOMAIN cast.to \ cast.lossy
  BY <1>3, <1>4, <1>5 DEF IsCast
<1>7. \A e \in es : /\ Emit(Scalar(cast.to[e])) = cast.to[e]
                   /\ cast.from[cast.to[e]] = e
  BY <1>4, <1>6, PlainEmitted DEF Keeps, Legible
<1>8. IsFiniteSet(T)
  <2> DEFINE f == [i \in 1 .. m |-> cast.to[vs[i]]]
  <2>1. T = {f[i] : i \in 1 .. m}
    BY <1>5
  <2>2. DOMAIN f = 1 .. m
    OBVIOUS
  <2> HIDE DEF f
  <2> QED
    BY <2>1, <2>2, FinitelyMany
<1>9. PICK c \in Nat : /\ q \in [1 .. c -> T]
                       /\ \A e \in T : \E i \in 1 .. c : q[i] = e
  BY <1>8, ListsOnce
<1> DEFINE ns == [i \in 1 .. c |-> Scalar(q[i])]
           ws == [i \in 1 .. c |-> cast.from[Emit(ns[i])]]
           fs == {ws[i] : i \in 1 .. c}
<1>10. ToElements("set", cast.to, y) = Emit(Sequence(ns))
  <2>1. ToElements("set", cast.to, y) = Emit(PushText(q))
    BY <1>4 DEF ToElements
  <2> HIDE DEF q
  <2>2. PushText(q) = Sequence(ns)
    BY <1>9 DEF PushText
  <2> QED
    BY <2>1, <2>2
<1> HIDE DEF q
<1>11. fs = es
  <2>1. ASSUME NEW i \in 1 .. c PROVE ws[i] \in es
    <3>1. PICK e \in es : q[i] = cast.to[e]
      BY <1>9
    <3> QED
      BY <1>7, <3>1
  <2>2. ASSUME NEW e \in es PROVE \E i \in 1 .. c : ws[i] = e
    <3>1. PICK i \in 1 .. c : q[i] = cast.to[e]
      BY <1>9
    <3> QED
      BY <1>7, <3>1
  <2> HIDE DEF ws, es
  <2> QED
    BY <2>1, <2>2
<1>12. IsList(ns, c) /\ IsList(ws, c) /\ fs = ValuesOf(ws, c)
  BY DEF IsList, ValuesOf
<1>13. \A i \in 1 .. c : ws[i] = cast.from[Emit(ns[i])]
  OBVIOUS
<1> HIDE DEF ns, ws, fs, es
<1>14. FromElements("set", cast.from, Emit(Sequence(ns))) =
         UnlessFails(fs, [set |-> fs])
  BY <1>12, <1>13, SequenceRead
<1> QED
  BY <1>3, <1>10, <1>11, <1>14 DEF UnlessFails

(* So is a map, whose first entry for a key is that with the key's value.  *)
LEMMA MapKept ==
  ASSUME NEW cast, IsCast(cast), Keeps(cast),
         NEW s \in Strings, NEW y, y = FromElements("map", cast.from, s), y # BadCast,
         \A e \in Elements(y) : e \notin cast.lossy /\ Legible("map", cast.to[e])
  PROVE  FromElements("map", cast.from, ToElements("map", cast.to, y)) = y
<1> DEFINE Value(ps, k) == cast.from[Emit(FirstWith(ps, k).value)]
           KeysOf(ps) == {ps[i].key : i \in DOMAIN ps}
           Map(ps) == [k \in KeysOf(ps) |-> Value(ps, k)]
           Fails1(ps) == BadCast \in {cast.from[Emit(ps[i].value)] : i \in DOMAIN ps}
<1>1. \A t : LET n == Load(t) IN
        FromElements("map", cast.from, t) =
          IF n.node = "sequence" /\ n.items # <<>> THEN BadCast
          ELSE IF Fails1(Entries(n)) THEN BadCast ELSE [map |-> Map(Entries(n))]
  BY DEF FromElements, FromItems, FromEntries, UnlessFails
<1> DEFINE ps0 == Entries(Load(s))
           f == Map(ps0)
           K == KeysOf(ps0)
           ks == SetToSeq(K)
<1>2. y = [map |-> f] /\ ~ Fails1(ps0)
  <2> HIDE DEF Fails1, Map
  <2> QED
    BY <1>1
<1>3. y.map = f /\ DOMAIN f = K
  BY <1>2
<1>4. PICK m \in Nat : DOMAIN ps0 = 1 .. m /\ \A i \in 1 .. m : Emit(ps0[i].value) \in Strings
  BY EntriesRead
<1>5. \A k \in K : f[k] \in DOMAIN cast.to
  <2>1. TAKE k \in K
  <2> HIDE DEF ps0
  <2>2. PICK i \in 1 .. m : FirstWith(ps0, k) = ps0[i]
    BY <1>4, FirstIsOne
  <2>3. f[k] = cast.from[Emit(ps0[i].value)]
    BY <2>2
  <2>4. f[k] # BadCast
    BY <1>2, <1>4, <2>3
  <2>5. Emit(ps0[i].value) \in Strings
    BY <1>4
  <2> QED
    BY <2>3, <2>4, <2>5 DEF IsCast
<1>6. Elements(y) = {f[k] : k \in K}
  <2> HIDE DEF f, K
  <2>1. DOMAIN y = {"map"} /\ y.map = f
    BY <1>2
  <2>2. "seq" \notin DOMAIN y /\ "set" \notin DOMAIN y
    BY <2>1
  <2> QED
    BY <1>3, <2>1, <2>2 DEF Elements
<1>7. IsFiniteSet(K)
  <2> DEFINE g == [i \in 1 .. m |-> ps0[i].key]
  <2>1. K = {g[i] : i \in 1 .. m}
    BY <1>4
  <2>2. DOMAIN g = 1 .. m
    OBVIOUS
  <2> HIDE DEF g, K
  <2> QED
    BY <2>1, <2>2, FinitelyMany
<1>8. PICK c \in Nat : /\ ks \in [1 .. c -> K]
                       /\ \A k \in K : \E i \in 1 .. c : ks[i] = k
                       /\ \A i, j \in 1 .. c : ks[i] = ks[j] => i = j
  <2> HIDE DEF K
  <2> QED
    BY <1>7, ListsOnce
<1> DEFINE w(k) == cast.to[f[k]]
           ps1 == [i \in 1 .. c |-> Entry(ks[i], Load(w(ks[i])))]
<1>9. ToElements("map", cast.to, y) = Emit(PushEntries(ps1))
  <2>1. ToElements("map", cast.to, y) =
          Emit(PushEntries([i \in DOMAIN ks |-> Entry(ks[i], Load(cast.to[f[ks[i]]]))]))
    BY <1>3 DEF ToElements
  <2> HIDE DEF ks, f
  <2>2. DOMAIN ks = 1 .. c
    BY <1>8
  <2> QED
    BY <2>1, <2>2
<1>14. f = [k \in K |-> f[k]] /\ \A k \in K : f[k] # BadCast
  <2>1. \A k \in K : f[k] # BadCast
    <3> HIDE DEF f, K
    <3> QED
      BY <1>5 DEF IsCast
  <2> HIDE DEF Value, KeysOf
  <2>2. f = [k \in K |-> f[k]]
    OBVIOUS
  <2> QED
    BY <2>1, <2>2
<1> HIDE DEF f, K, ps0, ks
<1>10. \A k \in K : cast.from[Emit(Load(w(k)))] = f[k]
  <2>1. TAKE k \in K
  <2>2. f[k] \in DOMAIN cast.to \ cast.lossy /\ Legible("map", cast.to[f[k]])
    BY <1>5, <1>6
  <2>3. PICK con : con = "map"
    OBVIOUS
  <2>4. Legible(con, cast.to[f[k]]) /\ con \notin {"list", "set"}
    BY <2>2, <2>3
  <2> DEFINE e == f[k]
  <2>5. e \in DOMAIN cast.to \ cast.lossy /\ Legible(con, cast.to[e])
    BY <2>2, <2>4
  <2> HIDE DEF e
  <2>6. cast.from[Emit(Load(cast.to[e]))] = e
    BY <2>4, <2>5, ElementKept
  <2> QED
    BY <2>6 DEF e
<1>11. CASE c = 0
  <2>1. ps1 = <<>> /\ K = {}
    BY <1>8, <1>11
  <2>2. PushEntries(ps1) = Sequence(<<>>)
    BY <2>1 DEF PushEntries
  <2> DEFINE n == Load(Emit(Sequence(<<>>)))
  <2>3. n.node = "sequence" /\ n.items = <<>>
    BY ContainerLoads DEF Sequence
  <2>4. Entries(n) = <<>>
    BY <2>3 DEF Entries
  <2>5. KeysOf(<<>>) = {} /\ ~ Fails1(<<>>)
    OBVIOUS
  <2>6. Map(<<>>) = [k \in {} |-> f[k]]
    BY <2>5
  <2> HIDE DEF n, Map, Fails1, ps1
  <2>7. FromElements("map", cast.from, Emit(Sequence(<<>>))) = [map |-> Map(<<>>)]
    BY <1>1, <2>3, <2>4, <2>5 DEF n
  <2> QED
    BY <1>2, <1>9, <1>14, <2>1, <2>2, <2>6, <2>7
<1>12. CASE c # 0
  <2>1. DOMAIN ps1 = 1 .. c /\ ps1 # <<>>
    BY <1>12
  <2>2. PushEntries(ps1) = Mapping(ps1)
    BY <2>1 DEF PushEntries
  <2> DEFINE n == Load(Emit(Mapping(ps1)))
  <2>3. n.node = "map" /\ Entries(n) = ps1
    BY ContainerLoads DEF Mapping, Entries
  <2>4. \A i \in 1 .. c : /\ ps1[i].key = ks[i]
                          /\ cast.from[Emit(ps1[i].value)] = f[ks[i]]
                          /\ ks[i] \in K
    BY <1>8, <1>10 DEF Entry
  <2> HIDE DEF ps1, n
  <2>5. KeysOf(ps1) = K
    BY <1>8, <2>1, <2>4
  <2>6. \A k \in K : Value(ps1, k) = f[k]
    <3>1. TAKE k \in K
    <3>2. k \in {ps1[i].key : i \in 1 .. c}
      BY <2>1, <2>5
    <3>3. PICK i \in 1 .. c : FirstWith(ps1, k) = ps1[i] /\ ps1[i].key = k
      BY <2>1, <3>2, FirstIsOne
    <3> QED
      BY <2>4, <3>3
  <2>7. ~ Fails1(ps1)
    BY <1>14, <2>1, <2>4
  <2>8. Map(ps1) = f
    <3> HIDE DEF KeysOf, Value
    <3>1. Map(ps1) = [k \in K |-> Value(ps1, k)]
      BY <2>5
    <3> QED
      BY <1>14, <2>6, <3>1
  <2> HIDE DEF Map, Fails1
  <2>9. FromElements("map", cast.from, Emit(Mapping(ps1))) = [map |-> Map(ps1)]
    BY <1>1, <2>3, <2>7 DEF n
  <2> QED
    BY <1>2, <1>9, <2>2, <2>8, <2>9
<1> QED
  BY <1>11, <1>12

(* A container keeps its values when its elements are kept.                *)
LEMMA ContainerKeeps ==
  ASSUME NEW con \in Containers, NEW cast, IsCast(cast), Keeps(cast),
         NEW c, c = ContainerCast(con, cast, Strings),
         \A y \in DOMAIN c.to \ c.lossy : c.to[y] \in Strings
  PROVE  IsCast(c) /\ Keeps(c)
<1> DEFINE From(s) == FromElements(con, cast.from, s)
           To(y) == ToElements(con, cast.to, y)
           values == {From(s) : s \in Strings} \ {BadCast}
           Bad(y) == \E e \in Elements(y) :
                       e \in cast.lossy \/ ~ Legible(con, cast.to[e])
<1>1. \A y \in values : ~ Bad(y) => From(To(y)) = y
  <2>1. SUFFICES ASSUME NEW y \in values, ~ Bad(y) PROVE From(To(y)) = y
    OBVIOUS
  <2>2. PICK s \in Strings : y = FromElements(con, cast.from, s)
    OBVIOUS
  <2>3. y # BadCast
    OBVIOUS
  <2>4. \A e \in Elements(y) : e \notin cast.lossy /\ Legible(con, cast.to[e])
    BY <2>1
  <2>5. CASE con \in {"vector", "list"}
    <3> HIDE DEF values
    <3> QED
      BY <2>2, <2>3, <2>4, <2>5, SeqKept
  <2>6. CASE con = "set"
    <3> HIDE DEF values
    <3> QED
      BY <2>2, <2>3, <2>4, <2>6, SetKept
  <2>7. CASE con = "map"
    <3> HIDE DEF values
    <3> QED
      BY <2>2, <2>3, <2>4, <2>7, MapKept
  <2> QED
    BY <2>5, <2>6, <2>7 DEF Containers
<1> DEFINE from == [s \in Strings |-> From(s)]
<1>2. {from[s] : s \in Strings} = {From(s) : s \in Strings}
  <2> HIDE DEF From
  <2> QED
    OBVIOUS
<1>3. c = [from |-> from, to |-> [y \in values |-> To(y)],
           lossy |-> {y \in values : Bad(y)}]
  <2> HIDE DEF Bad, To, From
  <2>1. c = [from |-> from,
             to |-> [y \in {from[s] : s \in Strings} \ {BadCast} |-> To(y)],
             lossy |-> {y \in {from[s] : s \in Strings} \ {BadCast} : Bad(y)}]
    BY Zenon DEF ContainerCast, Bad, To, From
  <2> QED
    BY <1>2, <2>1, Zenon
<1> HIDE DEF From, To, Bad
<1>4. /\ c.from = [s \in Strings |-> From(s)]
      /\ c.to = [y \in values |-> To(y)]
      /\ c.lossy = {y \in values : Bad(y)}
  BY <1>3
<1>5. {c.from[s] : s \in Strings} = {From(s) : s \in Strings}
  BY <1>4
<1>6. IsCast(c)
  BY <1>4, <1>5 DEF IsCast
<1>7. Keeps(c)
  <2>1. ASSUME NEW y \in DOMAIN c.to \ c.lossy
        PROVE  c.to[y] \in Strings /\ c.from[c.to[y]] = y
    <3>1. y \in values /\ ~ Bad(y) /\ c.to[y] = To(y) /\ To(y) \in Strings
      BY <1>4
    <3> QED
      BY <1>1, <1>4, <3>1
  <2> QED
    BY <2>1 DEF Keeps
<1> QED
  BY <1>6, <1>7

(* A basic type keeps its values: its string is the value.                 *)
LEMMA BasicKeeps ==
  ASSUME NEW b
  PROVE  IsCast(BasicCast(b, Strings)) /\ Keeps(BasicCast(b, Strings))
<1> DEFINE c == BasicCast(b, Strings)
           values == {FromBasic(b, s) : s \in Strings} \ {BadCast}
<1>1. /\ c.from = [s \in Strings |-> FromBasic(b, s)]
      /\ c.to = [y \in {c.from[s] : s \in Strings} \ {BadCast} |-> y]
      /\ c.lossy = {}
  BY DEF BasicCast
<1> HIDE DEF c
<1>2. {c.from[s] : s \in Strings} \ {BadCast} = values
  BY <1>1
<1>3. \A y \in values : y \in Strings /\ FromBasic(b, y) = y
  BY DEF FromBasic
<1>4. IsCast(c)
  BY <1>1 DEF IsCast
<1>5. Keeps(c)
  <2>1. DOMAIN c.to = values /\ \A y \in values : c.to[y] = y
    BY <1>1, <1>2
  <2> HIDE DEF values
  <2> QED
    BY <1>1, <1>3, <2>1 DEF Keeps
<1> QED
  BY <1>4, <1>5 DEF c

(* Every type keeps its values.                                            *)
LEMMA TypesKeep ==
  ASSUME NEW ty \in Types
  PROVE  IsCast(Casts[ty]) /\ Keeps(Casts[ty])
<1> DEFINE T == TypeOf[ty]
           casts == CastsOf(T, Strings)
           Kept == {k \in DOMAIN T : IsCast(casts[k]) /\ Keeps(casts[k])}
<1>1. /\ T \in Seq(BasicTypes \cup Containers) /\ T # <<>>
      /\ \A k \in DOMAIN T : T[k] \in BasicTypes <=> k = 1
      /\ \A k \in DOMAIN T :
           \A y \in DOMAIN casts[k].to \ casts[k].lossy : casts[k].to[y] \in Strings
  BY ConfigCastsAssumption
<1> HIDE DEF T
<1>2. Len(T) \in Nat \ {0} /\ DOMAIN T = 1 .. Len(T)
  BY <1>1
<1>3. /\ casts[1] = BasicCast(T[1], Strings)
      /\ \A k \in 2 .. Len(T) : casts[k] = ContainerCast(T[k], casts[k - 1], Strings)
  BY <1>1, CastsStep
<1> HIDE DEF casts
<1>4. 1 \in Kept
  BY <1>2, <1>3, BasicKeeps
<1>5. ASSUME NEW k \in 1 .. Len(T), k \in Kept, k + 1 <= Len(T)
      PROVE  k + 1 \in Kept
  <2>1. k + 1 \in 2 .. Len(T) /\ k + 1 \in DOMAIN T /\ (k + 1) - 1 = k /\ k + 1 # 1
    BY <1>2, <1>5
  <2>2. casts[k + 1] = ContainerCast(T[k + 1], casts[k], Strings)
    BY <1>3, <2>1
  <2>3. T[k + 1] \in Containers
    BY <1>1, <1>2, <2>1
  <2>4. IsCast(casts[k + 1]) /\ Keeps(casts[k + 1])
    BY <1>1, <1>5, <2>1, <2>2, <2>3, ContainerKeeps
  <2> QED
    BY <2>1, <2>4
<1>6. 1 .. Len(T) \subseteq Kept
  <2> HIDE DEF Kept
  <2> QED
    BY <1>2, <1>4, <1>5, FromOneUp
<1>7. Casts[ty] = casts[Len(T)]
  BY DEF Casts, CastOf, casts, T
<1> QED
  BY <1>2, <1>6, <1>7

-----------------------------------------------------------------------------
(* Values in the table.                                                    *)

(* What a string is converted to survives being written.                   *)
LEMMA ConvertedSurvives ==
  ASSUME NEW ty \in Types, NEW s \in Texts, FromStr[<<ty, s>>] # Fails
  PROVE  <<ty, FromStr[<<ty, s>>]>> \in Survivors
<1> DEFINE cast == Casts[ty]
           y == FromStr[<<ty, s>>]
<1>1. s \in Strings /\ y = cast.from[s] /\ y # BadCast
  BY ConfigCastsAssumption
<1>2. IsCast(cast) /\ Keeps(cast)
  BY TypesKeep
<1> HIDE DEF cast, y
<1>3. y \in DOMAIN cast.to
  BY <1>1, <1>2 DEF IsCast
<1>4. y \in Surviving(cast)
  BY <1>2, <1>3 DEF Keeps, Surviving
<1> QED
  BY <1>4 DEF Survivors, cast, y

(* What setValue is storing is a value of its variable's type that         *)
(* survives being written, although the type may have been looked up long  *)
(* before.                                                                 *)
StoringInv ==
  \A t \in Threads :
    pc[t] \in {"notify", "store"} =>
      x[t] \in Registered /\ <<s_datas[x[t]], v[t]>> \in Survivors

ValuesInv == SurvivesWriting /\ StoringInv

LEMMA StoringStep == IInv /\ StoringInv /\ [Next]_vars => StoringInv'
<1> SUFFICES ASSUME IInv, StoringInv, [Next]_vars PROVE StoringInv'
  OBVIOUS
<1> DEFINE S(s) == pc[s] \in {"notify", "store"} =>
                     x[s] \in Registered /\ <<s_datas[x[s]], v[s]>> \in Survivors
<1>1. CASE UNCHANGED vars
  BY <1>1 DEF vars, tableVars, setVars, StoringInv, Registered
<1>2. ASSUME NEW t \in Threads, Moves(t) PROVE StoringInv'
  <2>1. \A n \in Registered : s_datas'[n] = s_datas[n] /\ n \in Registered'
    <3>1. \A n \in Registered : s_datas'[n] = s_datas[n]
      BY <1>2, TableStays DEF IInv
    <3> QED
      BY <3>1 DEF Registered
  <2>2. ASSUME NEW s \in Threads, pc[s] \in {"notify", "store"},
               x'[s] = x[s], v'[s] = v[s]
        PROVE  S(s)'
    <3>1. x[s] \in Registered /\ <<s_datas[x[s]], v[s]>> \in Survivors
      BY <2>2 DEF StoringInv
    <3> QED
      BY <2>1, <2>2, <3>1
  <2>3. ASSUME NEW s \in Threads, s # t PROVE S(s)'
    <3>1. pc'[s] = pc[s] /\ x'[s] = x[s] /\ v'[s] = v[s]
      BY <1>2, <2>3, OthersStay DEF IInv, Place
    <3> QED
      BY <2>2, <3>1
  <2>4. ASSUME NEW n \in Registered, NEW s \in Texts,
               SetValue(t, n, FromStr[<<s_datas[n], s>>])
        PROVE  S(t)'
    <3>1. s_datas[n] \in Types
      BY DEF Registered, IInv, TypeOK
    <3>2. <<s_datas[n], FromStr[<<s_datas[n], s>>]>> \in Survivors
      BY <2>4, <3>1, ConvertedSurvives DEF SetValue
    <3>3. x'[t] = n /\ v'[t] = FromStr[<<s_datas[n], s>>]
      BY <2>4 DEF SetValue, IInv, TypeOK
    <3> QED
      BY <2>1, <3>2, <3>3
  <2>5. S(t)'
    <3> USE DEF IInv, TypeOK, setVars, tableVars, loadUnchanged
    <3>1. CASE Find(t)
      BY <3>1 DEF Find
    <3>2. CASE FindNothing(t) \/ SetNothing(t) \/ EndLoad(t)
      BY <3>2 DEF FindNothing, SetNothing, EndLoad, Return, Advance
    <3>3. CASE SetDiffers(t)
      <4>1. Node(t) \in Nodes /\ Node(t).name \in Registered
        BY <3>3, NodeType DEF SetDiffers, RestInv, Registered, Nodes
      <4>2. Node(t).text \in Texts
        BY <4>1 DEF Nodes
      <4> QED
        BY <2>4, <3>3, <4>1, <4>2 DEF SetDiffers, Converted
    <3>4. CASE Notify(t)
      BY <2>2, <3>4 DEF Notify
    <3>5. CASE Store(t)
      BY <3>5 DEF Store, Advance
    <3>6. CASE EndVisit(t) \/ Visit(t)
      BY <3>6 DEF EndVisit, Visit, Return
    <3>7. ASSUME NEW n \in Names,
                 VisitCallback(t, n) \/ VisitCallbackLooksUp(t, n)
          PROVE  S(t)'
      BY <3>7 DEF VisitCallback, VisitCallbackLooksUp, Visited
    <3>8. ASSUME NEW n \in Names, NEW s \in Texts, VisitCallbackSets(t, n, s)
          PROVE  S(t)'
      BY <2>4, <3>8 DEF VisitCallbackSets, Visited
    <3>9. ASSUME NEW d \in Docs, LoadFromYaml(t, d) PROVE S(t)'
      BY <3>9 DEF LoadFromYaml
    <3>10. ASSUME NEW n \in Names, NEW ty \in Types, Lookup(t, n, ty)
           PROVE  S(t)'
      BY <3>10 DEF Lookup
    <3>11. CASE NodeRefused(t) \/ LoadThrows(t) \/ VisitThrows(t)
      BY <3>11 DEF NodeRefused, LoadThrows, VisitThrows, Return, Advance
    <3> QED
      BY <1>2, <3>1, <3>2, <3>3, <3>4, <3>5, <3>6, <3>7, <3>8, <3>9, <3>10,
         <3>11
      DEF Moves, Continue
  <2> QED
    BY <2>3, <2>5 DEF StoringInv
<1> QED
  BY <1>1, <1>2 DEF Next, Moves

LEMMA SurvivesStep == IInv /\ ValuesInv /\ [Next]_vars => SurvivesWriting'
<1> SUFFICES ASSUME IInv, ValuesInv, [Next]_vars PROVE SurvivesWriting'
  OBVIOUS
<1> DEFINE W(n) == m_val[n] # Default => <<s_datas[n], m_val[n]>> \in Survivors
<1>1. CASE UNCHANGED vars
  BY <1>1 DEF vars, tableVars, ValuesInv, SurvivesWriting, Registered
<1>2. ASSUME NEW t \in Threads, Moves(t) PROVE SurvivesWriting'
  <2>1. CASE m_val' = m_val /\ s_datas' = s_datas
    BY <2>1 DEF ValuesInv, SurvivesWriting, Registered
  <2>2. ASSUME NEW h, NEW ty \in Types, Register(h, ty) PROVE SurvivesWriting'
    <3>1. ASSUME NEW n \in Registered' PROVE W(n)'
      BY <2>2, <3>1 DEF Register, IInv, TypeOK, ValuesInv, SurvivesWriting, Registered
    <3> QED
      BY <3>1 DEF SurvivesWriting
  <2>3. CASE Store(t)
    <3>1. /\ <<s_datas[x[t]], v[t]>> \in Survivors
          /\ s_datas' = s_datas /\ m_val' = [m_val EXCEPT ![x[t]] = v[t]]
      BY <2>3 DEF Store, ValuesInv, StoringInv
    <3>2. ASSUME NEW n \in Registered PROVE W(n)'
      <4>1. m_val'[n] = IF n = x[t] THEN v[t] ELSE m_val[n]
        BY <3>1 DEF IInv, TypeOK, Registered
      <4> QED
        BY <3>1, <4>1 DEF ValuesInv, SurvivesWriting
    <3> QED
      BY <3>1, <3>2 DEF SurvivesWriting, Registered
  <2>4. \/ m_val' = m_val /\ s_datas' = s_datas
        \/ \E h, ty : ty \in Types /\ Register(h, ty)
        \/ Store(t)
    BY <1>2
    DEF Moves, Continue, Find, FindNothing, SetNothing, SetDiffers, Notify,
        EndLoad, EndVisit, VisitCallback, VisitCallbackLooksUp,
        VisitCallbackSets, Visit, LoadFromYaml, Lookup, tableVars,
        loadUnchanged, HookLooksUp, NodeRefused, LoadThrows, VisitThrows,
        ListenerThrows
  <2> QED
    BY <2>1, <2>2, <2>3, <2>4
<1> QED
  BY <1>1, <1>2 DEF Next, Moves

(* The value that a load or a callback leaves in a variable survives being *)
(* written with toString and read again with fromString                    *)
(* (config.h:66-383, 415, 436), for every type made of the containers of   *)
(* LexcalCast, but for elements that are not read as they are written.     *)
THEOREM ValuesSurvive == Spec => []SurvivesWriting
<1>1. Init => ValuesInv
  BY DEF Init, ValuesInv, SurvivesWriting, StoringInv, Registered
<1>2. IInv /\ ValuesInv /\ [Next]_vars => ValuesInv'
  BY StoringStep, SurvivesStep DEF ValuesInv
<1>3. ValuesInv => SurvivesWriting
  BY DEF ValuesInv
<1>4. Spec => []IInv
  BY Inductive
<1> QED
  BY <1>1, <1>2, <1>3, <1>4, PTL DEF Spec
=============================================================================
