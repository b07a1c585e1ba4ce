---------------------------- MODULE ListenerHandles ----------------------------
(***************************************************************************)
(* What the callers of ConfigVar<T>::addListener rely on: the key it       *)
(* returned is the listener's own (mumu/config.h:466-491), for the         *)
(* variables of one T.                                                     *)
(***************************************************************************)
VARIABLES
  cbs,      \* m_cbs per variable: the map of listeners, as pairs <<key, cb>>
  handles,  \* history: what every addListener returned, as [cb, var, key]
  live      \* history: the handles neither deleted nor cleared

(* The key of a variable's listener is never handed out again: "the key    *)
(* must be unique" (config.h:495).                                         *)
KeyIsUnique ==
  \A g, h \in handles : g.var = h.var /\ g.key = h.key => g.cb = h.cb

(* The key addListener returned finds the listener it was returned for     *)
(* until that key is deleted or the listeners are cleared: a registration  *)
(* is neither lost to another one nor removed with another one's key.      *)
HandleFindsItsCallback ==
  \A h \in live : <<h.key, h.cb>> \in cbs[h.var]
=============================================================================
