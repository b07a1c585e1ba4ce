---------------------------- MODULE ConfigRegistry ----------------------------
(***************************************************************************)
(* Config, the table of all ConfigVars (mumu/config.h:503-598,             *)
(* mumu/config.cc): threads register variables with Lookup, load YAML      *)
(* documents into them and visit them.                                     *)
(*                                                                         *)
(* GetMutex() is held for writing by Lookup(name, default) and LookupBase, *)
(* in sections that wait for nothing, and for reading by Visit while its   *)
(* callbacks run; Lookup(name) reads and changes nothing.  A section under *)
(* the write lock is one step, enabled when nobody reads; m_mutex is the   *)
(* set of the visiting threads.  Loading holds no lock of the table while  *)
(* it sets a variable, whose listener may call Lookup; a visitor that sets *)
(* one does.  setValue is that of ConfigVar: it notifies in a read section *)
(* of the variable's lock and stores later, unless the listener throws.    *)
(*                                                                         *)
(* A document is the sequence of its nodes in document order, each with    *)
(* the dotted name that ListAllMember makes of its path and the string     *)
(* that is made of it.  Names are lower case once they are valid, so       *)
(* ::tolower changes nothing.  A lookup that finds the name changes        *)
(* nothing.                                                                *)
(***************************************************************************)
EXTENDS Naturals, Sequences

CONSTANTS
  Threads,
  Names, Valid,  \* names of nodes; those of them without an invalid character
  Types, Absent, \* types T of the ConfigVars; no variable of that name
  Texts, Vals,   \* strings of YAML; values of the types
  FromStr,       \* what a string is converted to for a variable of a type,
  Fails,         \* or Fails, when that throws
  Default,       \* the default_val of a variable
  Docs,          \* the documents
  Hook, None,    \* per name: the variable its listener looks up, or None
  Throwing,      \* the names whose listener may throw
  MaxOps         \* bound: loads and visits begun over a behaviour

ASSUME ConfigRegistryAssumption ==
  /\ Valid \subseteq Names
  /\ Absent \notin Types
  /\ FromStr \in [Types \X Texts -> Vals \cup {Fails}] /\ Fails \notin Vals
  /\ Default \notin Vals  \* a variable that was never set
  /\ Docs \subseteq Seq([name : Names, text : Texts])
  /\ Hook \in [Names -> Valid \cup {None}] /\ None \notin Valid
  /\ Throwing \subseteq Names
  /\ MaxOps \in Nat

VARIABLES
  s_datas,  \* per name: the type of the variable, or Absent
  m_val,    \* per name: the value of the variable
  m_mutex,  \* the threads that hold GetMutex() for reading
  pc,       \* per thread: the next step
  doc,      \* per thread: the nodes of the document it loads
  rest,     \* per thread: the positions of the nodes still to be loaded
  x, v,     \* per thread: the variable whose setValue it is in, the argument
  seen,     \* per thread: the variables visited
  ops,      \* loads and visits begun (see MaxOps)
  snap,     \* history, per thread: the names registered when it began
  refused,  \* history, per thread: the nodes at which a listener threw
  mixed,    \* history: the threads that set variables while others did
  careless  \* history: a callback of Visit has called Lookup or setValue

tableVars == <<s_datas, m_val, m_mutex>>
setVars == <<x, v>>
historyVars == <<snap, refused, mixed, careless>>
vars == <<tableVars, pc, doc, rest, setVars, seen, ops, historyVars>>

Registered == {n \in Names : s_datas[n] # Absent}

Nodes == [name : Names, text : Texts]

Steps == {"idle", "find", "set", "notify", "store", "visit", "wait"}

TypeOK ==
  /\ s_datas \in [Names -> Types \cup {Absent}]
  /\ m_val \in [Names -> Vals \cup {Default}]
  /\ m_mutex \subseteq Threads
  /\ pc \in [Threads -> Steps]
  /\ doc \in [Threads -> Seq(Nodes)]
  /\ rest \in [Threads -> SUBSET Nat]
  /\ \A t \in Threads : rest[t] \subseteq 1 .. Len(doc[t])
  /\ x \in [Threads -> Names \cup {None}]
  /\ v \in [Threads -> Vals \cup {Default}]
  /\ seen \in [Threads -> SUBSET Names]
  /\ ops \in 0 .. MaxOps
  /\ snap \in [Threads -> SUBSET Names]
  /\ refused \in [Threads -> SUBSET Nat]
  /\ mixed \subseteq Threads
  /\ careless \in BOOLEAN

Init ==
  /\ s_datas = [n \in Names |-> Absent]
  /\ m_val = [n \in Names |-> Default]
  /\ m_mutex = {}
  /\ pc = [t \in Threads |-> "idle"]
  /\ doc = [t \in Threads |-> <<>>]
  /\ rest = [t \in Threads |-> {}]
  /\ x = [t \in Threads |-> None]
  /\ v = [t \in Threads |-> Default]
  /\ seen = [t \in Threads |-> {}]
  /\ ops = 0
  /\ snap = [t \in Threads |-> {}]
  /\ refused = [t \in Threads |-> {}]
  /\ mixed = {}
  /\ careless = FALSE

Begin(t) == pc[t] = "idle" /\ ops < MaxOps /\ ops' = ops + 1

-----------------------------------------------------------------------------
(* RWMutexType, through its guards: a WriteLock that is taken and given    *)
(* back within a step, and a ReadLock.                                     *)
WriteLock == m_mutex = {}
ReadLock(t) == m_mutex' = m_mutex \cup {t}
ReadUnlock(t) == m_mutex' = m_mutex \ {t}

-----------------------------------------------------------------------------
(* Lookup(name, default_val, description).                                 *)

(* Mutated form: the name is not looked for before the variable is made.   *)
Register_NoFind(n, ty) ==
  /\ WriteLock
  /\ n \in Valid
  /\ s_datas' = [s_datas EXCEPT ![n] = ty]
  /\ m_val' = [m_val EXCEPT ![n] = Default]

(* Mutated form: Lookup takes the lock for reading.                        *)
Register_ReadLock(n, ty) ==
  /\ n \in Valid /\ s_datas[n] = Absent
  /\ s_datas' = [s_datas EXCEPT ![n] = ty]
  /\ m_val' = [m_val EXCEPT ![n] = Default]

(* A new variable, under the write lock.                                   *)
Register(n, ty) ==
  /\ WriteLock
  /\ n \in Valid /\ s_datas[n] = Absent
  /\ s_datas' = [s_datas EXCEPT ![n] = ty]
  /\ m_val' = [m_val EXCEPT ![n] = Default]

Lookup(t, n, ty) ==
  /\ pc[t] = "idle"
  /\ Register(n, ty)
  /\ UNCHANGED <<m_mutex, pc, doc, rest, setVars, seen, ops, historyVars>>

-----------------------------------------------------------------------------
(* LoadFromYaml.                                                           *)

(* A node whose name is invalid is left out, and with it those below it,   *)
(* whose names begin with that name.                                       *)
ListAllMember(d) == {i \in 1 .. Len(d) : d[i].name \in Valid}

(* The threads that set variables, or are going to.                        *)
Setting == {t \in Threads : pc[t] \in {"find", "set", "notify", "store"}}

LoadFromYaml(t, d) ==
  /\ Begin(t)
  /\ pc' = [pc EXCEPT ![t] = "find"]
  /\ doc' = [doc EXCEPT ![t] = d]
  /\ rest' = [rest EXCEPT ![t] = ListAllMember(d)]
  /\ snap' = [snap EXCEPT ![t] = Registered]
  /\ mixed' = IF Setting = {} THEN mixed ELSE mixed \cup Setting \cup {t}
  /\ UNCHANGED <<tableVars, setVars, seen, refused, careless>>

loadUnchanged == <<doc, seen, ops, historyVars>>

(* Mutated form: output.emplace_front.                                     *)
First_Reversed(t) == CHOOSE i \in rest[t] : \A j \in rest[t] : j <= i

(* The nodes are loaded in document order.                                 *)
First(t) == CHOOSE i \in rest[t] : \A j \in rest[t] : i <= j

Node(t) == doc[t][First(t)]

(* On to the next node.                                                    *)
Advance(t) ==
  /\ rest' = [rest EXCEPT ![t] = @ \ {First(t)}]
  /\ pc' = [pc EXCEPT ![t] = "find"]

(* Mutated form: the lock is not released when the variable is found.      *)
Find_KeepsLock(t) ==
  /\ pc[t] = "find" /\ rest[t] # {}
  /\ m_mutex \subseteq {t}
  /\ m_mutex' = {t}
  /\ s_datas[Node(t).name] # Absent
  /\ pc' = [pc EXCEPT ![t] = "set"]
  /\ UNCHANGED <<s_datas, m_val, rest, setVars, loadUnchanged>>

(* LookupBase, under the write lock.                                       *)
Find(t) ==
  /\ pc[t] = "find" /\ rest[t] # {}
  /\ WriteLock
  /\ s_datas[Node(t).name] # Absent
  /\ pc' = [pc EXCEPT ![t] = "set"]
  /\ UNCHANGED <<tableVars, rest, setVars, loadUnchanged>>

FindNothing(t) ==
  /\ pc[t] = "find" /\ rest[t] # {}
  /\ WriteLock
  /\ s_datas[Node(t).name] = Absent
  /\ Advance(t)
  /\ UNCHANGED <<tableVars, setVars, loadUnchanged>>

(* What the variable of type T makes of the node's string.                 *)
Converted(n) == FromStr[<<s_datas[n.name], n.text>>]

(* fromString: the node does not convert, or the value is there already.   *)
SetNothing(t) ==
  /\ pc[t] = "set"
  /\ Converted(Node(t)) \in {Fails, m_val[Node(t).name]}
  /\ Advance(t)
  /\ UNCHANGED <<tableVars, setVars, loadUnchanged>>

(* The comparison of setValue finds a difference.                          *)
SetValue(t, n, y) ==
  /\ y \notin {Fails, m_val[n]}
  /\ x' = [x EXCEPT ![t] = n]
  /\ v' = [v EXCEPT ![t] = y]
  /\ pc' = [pc EXCEPT ![t] = "notify"]

SetDiffers(t) ==
  /\ pc[t] = "set"
  /\ SetValue(t, Node(t).name, Converted(Node(t)))
  /\ UNCHANGED <<tableVars, rest, loadUnchanged>>

(* The variable's listener, if any, looks up a variable, which is made or  *)
(* found; that of a visitor waits, since the visit holds the lock.         *)
HookLooksUp(t) ==
  LET h == Hook[x[t]] IN
  \/ h # None /\ \E ty \in Types : Register(h, ty)
  \/ /\ h # None => WriteLock /\ s_datas[h] # Absent
     /\ UNCHANGED <<s_datas, m_val>>

(* It returns.                                                             *)
Notify(t) ==
  /\ pc[t] = "notify"
  /\ HookLooksUp(t)
  /\ pc' = [pc EXCEPT ![t] = "store"]
  /\ UNCHANGED <<m_mutex, rest, setVars, loadUnchanged>>

Notifying(n) == \E t \in Threads : pc[t] = "notify" /\ x[t] = n

(* The write section of setValue, and on to the next node or variable.     *)
Store(t) ==
  /\ pc[t] = "store"
  /\ ~ Notifying(x[t])
  /\ m_val' = [m_val EXCEPT ![x[t]] = v[t]]
  /\ x' = [x EXCEPT ![t] = None]
  /\ v' = [v EXCEPT ![t] = Default]
  /\ \/ t \notin m_mutex /\ Advance(t)
     \/ /\ t \in m_mutex
        /\ pc' = [pc EXCEPT ![t] = "visit"]
        /\ UNCHANGED rest
  /\ UNCHANGED <<s_datas, m_mutex, loadUnchanged>>

(* It throws, after its lookup or before: setValue ends without a store.   *)
ListenerThrows(t) ==
  /\ pc[t] = "notify" /\ x[t] \in Throwing
  /\ HookLooksUp(t) \/ UNCHANGED <<s_datas, m_val>>
  /\ x' = [x EXCEPT ![t] = None]
  /\ v' = [v EXCEPT ![t] = Default]

(* A std::exception is caught by fromString, and the next node is next.    *)
NodeRefused(t) ==
  /\ t \notin m_mutex
  /\ ListenerThrows(t)
  /\ Advance(t)
  /\ refused' = [refused EXCEPT ![t] = @ \cup {First(t)}]
  /\ UNCHANGED <<m_mutex, doc, seen, ops, snap, mixed, careless>>

(* The end of an operation, with its local and history variables.          *)
Return(t) ==
  /\ pc' = [pc EXCEPT ![t] = "idle"]
  /\ seen' = [seen EXCEPT ![t] = {}]
  /\ snap' = [snap EXCEPT ![t] = {}]
  /\ refused' = [refused EXCEPT ![t] = {}]
  /\ mixed' = mixed \ {t}

(* Any other exception leaves LoadFromYaml, with nodes still to be loaded. *)
LoadThrows(t) ==
  /\ t \notin m_mutex
  /\ ListenerThrows(t)
  /\ Return(t)
  /\ doc' = [doc EXCEPT ![t] = <<>>]
  /\ rest' = [rest EXCEPT ![t] = {}]
  /\ UNCHANGED <<m_mutex, ops, careless>>

EndLoad(t) ==
  /\ pc[t] = "find" /\ rest[t] = {}
  /\ Return(t)
  /\ doc' = [doc EXCEPT ![t] = <<>>]
  /\ UNCHANGED <<tableVars, rest, setVars, ops, careless>>

-----------------------------------------------------------------------------
(* Visit.                                                                  *)

Visit(t) ==
  /\ Begin(t)
  /\ ReadLock(t)
  /\ pc' = [pc EXCEPT ![t] = "visit"]
  /\ snap' = [snap EXCEPT ![t] = Registered]
  /\ UNCHANGED <<s_datas, m_val, doc, rest, setVars, seen, refused, mixed, careless>>

(* The callback is given the next variable.                                *)
Visited(t, n) ==
  /\ pc[t] = "visit"
  /\ n \in Registered \ seen[t]
  /\ seen' = [seen EXCEPT ![t] = @ \cup {n}]

(* The callback reads it, as that of tests/test_config.cc:265 does.        *)
VisitCallback(t, n) ==
  /\ Visited(t, n)
  /\ UNCHANGED <<tableVars, pc, doc, rest, setVars, ops, historyVars>>

(* The callback calls Lookup or LookupBase, and waits for its own thread.  *)
VisitCallbackLooksUp(t, n) ==
  /\ Visited(t, n)
  /\ pc' = [pc EXCEPT ![t] = "wait"]
  /\ careless' = TRUE
  /\ UNCHANGED <<tableVars, doc, rest, setVars, ops, snap, refused, mixed>>

(* The callback sets the variable to another value.                        *)
VisitCallbackSets(t, n, s) ==
  /\ Visited(t, n)
  /\ SetValue(t, n, FromStr[<<s_datas[n], s>>])
  /\ mixed' = mixed \cup Setting
  /\ careless' = TRUE
  /\ UNCHANGED <<tableVars, doc, rest, ops, snap, refused>>

(* A listener throws: the callback catches it, or it leaves Visit as well, *)
(* whose lock is released.                                                 *)
VisitThrows(t) ==
  /\ t \in m_mutex
  /\ ListenerThrows(t)
  /\ \/ /\ pc' = [pc EXCEPT ![t] = "visit"]
        /\ UNCHANGED <<m_mutex, seen, historyVars>>
     \/ ReadUnlock(t) /\ Return(t) /\ UNCHANGED careless
  /\ UNCHANGED <<doc, rest, ops>>

EndVisit(t) ==
  /\ pc[t] = "visit"
  /\ Registered \subseteq seen[t]
  /\ ReadUnlock(t)
  /\ Return(t)
  /\ UNCHANGED <<s_datas, m_val, doc, rest, setVars, ops, careless>>

-----------------------------------------------------------------------------
Continue(t) ==
  \/ Find(t) \/ FindNothing(t) \/ SetNothing(t) \/ SetDiffers(t)
  \/ Notify(t) \/ Store(t) \/ EndLoad(t)
  \/ \E n \in Names : VisitCallback(t, n)
  \/ EndVisit(t)

Next ==
  \E t \in Threads :
    \/ Continue(t)
    \/ NodeRefused(t) \/ LoadThrows(t) \/ VisitThrows(t)
    \/ \E n \in Names : VisitCallbackLooksUp(t, n)
    \/ \E n \in Names, s \in Texts : VisitCallbackSets(t, n, s)
    \/ Visit(t) \/ \E d \in Docs : LoadFromYaml(t, d)
    \/ \E n \in Names, ty \in Types : Lookup(t, n, ty)

Spec == Init /\ [][Next]_vars

(* A thread inside LoadFromYaml or Visit is scheduled.                     *)
FairSpec == Spec /\ \A t \in Threads : WF_vars(Continue(t))

-----------------------------------------------------------------------------
(* Properties.                                                             *)

(* A name registered once keeps its variable: the pointers that callers of *)
(* Lookup keep in statics stay those that LoadFromYaml sets                *)
(* (config.h:517-534, 546-547), and a value is never the default again.    *)
SameVariable ==
  [][\A n \in Registered :
       s_datas'[n] = s_datas[n] /\ (m_val'[n] = Default => m_val[n] = Default)]_vars

(* A visit that no exception leaves calls back for exactly the variables   *)
(* registered when it began, and for each of them (config.cc:87-94),       *)
(* although lookups and listeners of other threads register variables      *)
(* meanwhile.                                                              *)
VisitSeesAll ==
  [][\A t \in Threads :
       pc[t] = "visit" /\ pc'[t] = "idle" =>
         seen[t] = snap[t] /\ Registered = snap[t]]_vars

(* What node i of document d gives the variable of its name counts: it     *)
(* converts and no listener refuses it, and no later one does both.        *)
Takes(d, i, no) == Converted(d[i]) # Fails /\ i \notin no

Decides(d, i, no) ==
  /\ Takes(d, i, no)
  /\ \A j \in i + 1 .. Len(d) : d[j].name = d[i].name => ~ Takes(d, j, no)

(* When LoadFromYaml returns, and nobody else set variables meanwhile,     *)
(* each variable that was registered when it began has the last value that *)
(* the document gives its name, that converts and that no listener threw   *)
(* at (config.cc:57-85): a value whose listener threw leaves the one       *)
(* before it, and the nodes after it are loaded all the same               *)
(* (config.h:433-443, 457-462).                                            *)
LoadApplied ==
  [][\A t \in Threads :
       pc[t] = "find" /\ pc'[t] = "idle" /\ t \notin mixed =>
         \A i \in 1 .. Len(doc[t]) :
           doc[t][i].name \in snap[t] /\ Decides(doc[t], i, refused[t]) =>
             m_val[doc[t][i].name] = Converted(doc[t][i])]_vars

(* Loads and visits return: a listener may look variables up, since no     *)
(* lock of the table is held while it runs (config.cc:71-82).  They may    *)
(* not if a callback of Visit calls Lookup or sets a variable, for it      *)
(* holds one (config.cc:89-92).                                            *)
OperationsReturn ==
  \A t \in Threads : pc[t] # "idle" ~> pc[t] = "idle" \/ careless
=============================================================================
