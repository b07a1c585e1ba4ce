----------------------------- MODULE ReadWriteLock -----------------------------
(***************************************************************************)
(* What a lock promises its users: any number of readers or one writer,    *)
(* and only who holds it lets go.  An exclusive lock is one that has no    *)
(* readers.  Nothing is promised once somebody gave back what he did not   *)
(* hold.                                                                   *)
(***************************************************************************)
CONSTANT Threads

VARIABLES
  readers,  \* the threads that may read what the lock protects
  writers,  \* the threads that may change it
  misused   \* somebody gave back a lock he did not hold

vars == <<readers, writers, misused>>

Init == readers = {} /\ writers = {} /\ misused = FALSE

AcquireRead(t) ==
  /\ writers = {}
  /\ readers' = readers \cup {t}
  /\ UNCHANGED <<writers, misused>>

AcquireWrite(t) ==
  /\ readers = {} /\ writers = {}
  /\ writers' = {t}
  /\ UNCHANGED <<readers, misused>>

Release(t) ==
  /\ t \in readers \cup writers
  /\ readers' = readers \ {t}
  /\ writers' = writers \ {t}
  /\ UNCHANGED misused

Misuse == misused' = TRUE

Next ==
  \/ \E t \in Threads : AcquireRead(t) \/ AcquireWrite(t) \/ Release(t)
  \/ Misuse

Spec == Init /\ [][Next]_vars
=============================================================================
