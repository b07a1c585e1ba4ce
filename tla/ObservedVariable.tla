--------------------------- MODULE ObservedVariable ---------------------------
(***************************************************************************)
(* What a variable promises its observers: a new value is announced to     *)
(* each of them once, in order, before it replaces the old one, and while  *)
(* one of them is still to be told neither the value nor the set of        *)
(* observers changes.  An announcement may be given up halfway.            *)
(***************************************************************************)
EXTENDS Naturals

CONSTANTS Callers, Values, Keys, InitVal

VARIABLES
  value,
  observers,  \* the keys of the observers
  busy,       \* the callers that are replacing the value
  new,        \* per caller: the value it announces
  left        \* per caller: the observers it has still to tell

vars == <<value, observers, busy, new, left>>

Init ==
  /\ value = InitVal
  /\ observers = {}
  /\ busy = {}
  /\ new = [t \in Callers |-> InitVal]
  /\ left = [t \in Callers |-> {}]

Announcing == {t \in busy : left[t] # {}}

Begin(t, x) ==
  /\ t \notin busy
  /\ x # value
  /\ busy' = busy \cup {t}
  /\ new' = [new EXCEPT ![t] = x]
  /\ left' = [left EXCEPT ![t] = observers]
  /\ UNCHANGED <<value, observers>>

Tell(t, k) ==
  /\ t \in busy
  /\ k \in left[t] /\ \A j \in left[t] : k <= j
  /\ left' = [left EXCEPT ![t] = @ \ {k}]
  /\ UNCHANGED <<value, observers, busy, new>>

GiveUp(t) ==
  /\ t \in Announcing
  /\ busy' = busy \ {t}
  /\ UNCHANGED <<value, observers, new, left>>

Replace(t) ==
  /\ t \in busy /\ Announcing = {}
  /\ value' = new[t]
  /\ busy' = busy \ {t}
  /\ UNCHANGED <<observers, new, left>>

Observe(S) ==
  /\ Announcing = {}
  /\ observers' = S
  /\ UNCHANGED <<value, busy, new, left>>

Next ==
  \/ \E t \in Callers :
       \/ GiveUp(t) \/ Replace(t)
       \/ \E x \in Values : Begin(t, x)
       \/ \E k \in Keys : Tell(t, k)
  \/ \E S \in SUBSET Keys : Observe(S)

Spec == Init /\ [][Next]_vars
=============================================================================
