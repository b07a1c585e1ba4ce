-------------------------------- MODULE Logger --------------------------------
(***************************************************************************)
(* Logger and LogAppender (mumu/log.h:168-241, mumu/log.cc:252-398) used   *)
(* by several threads.                                                     *)
(*                                                                         *)
(* A logger's spin lock is held over several steps: while a message is     *)
(* written to its appenders, while addAppender looks at the appender and   *)
(* while setFormatter goes through the list.  A section under an           *)
(* appender's own spin lock waits for nothing and is one step, so those    *)
(* locks have no variable.  delAppender and clearAppender are one step     *)
(* each for the same reason; setLevel takes no lock.                       *)
(*                                                                         *)
(* A formatter is known by its identity, a message by its level.  The      *)
(* appenders let every level pass (their default).  setFormatter with an   *)
(* invalid pattern changes nothing; getFormatter and toYamlString neither. *)
(* An appender is an object; a formatter may be nullptr, also a logger's.  *)
(***************************************************************************)
EXTENDS Naturals, SequencesExt

CONSTANTS
  Threads,
  Loggers, Root,     \* every other logger's m_root is Root, Root's is null
  Appenders,
  Formatters, Null,  \* Null: no formatter (nullptr)
  Unset,             \* nobody called the appender's setFormatter yet
  Default,           \* the formatter a Logger is constructed with
  Free,              \* the holder of a lock nobody holds
  MaxOps             \* bound: operations begun over a behaviour

ASSUME LoggerAssumption ==
  /\ Root \in Loggers
  /\ Default \in Formatters
  /\ Null \notin Formatters /\ Unset \notin Formatters \cup {Null}
  /\ Free \notin Threads
  /\ MaxOps \in Nat

VARIABLES
  m_mutex,         \* per logger: the thread that holds its lock, or Free
  m_level,         \* per logger
  m_appenders,     \* per logger: the list
  m_formatter,     \* per logger
  a_formatter,     \* per appender: LogAppender::m_formatter
  m_hasFormatter,  \* per appender
  frame,           \* per thread: the operation it is in
  ops,             \* operations begun so far (see MaxOps)
  own,             \* history, per appender: what setFormatter last gave it
  joined,          \* history: <<l, a>> if l.addAppender(a) was called
  readded,         \* history: appenders given to addAppender more than once
  raced,           \* history: those given a formatter during addAppender
  emptied          \* history: loggers whose setFormatter was given nullptr

loggerVars == <<m_level, m_appenders, m_formatter>>
appenderVars == <<a_formatter, m_hasFormatter, own>>
historyVars == <<joined, readded, raced, emptied>>
vars == <<m_mutex, loggerVars, appenderVars, frame, ops, historyVars>>

Levels == {1, 2}

(* pc: the next step; at: the logger the operation was called on; outlet:  *)
(* the logger whose appenders are written to; arg: the appender to add;    *)
(* level: that of the message; todo: the rest of the list under the        *)
(* iterator; wrote (history): the appenders the message has reached.       *)
Frames ==
  [pc : {"idle", "log", "logRoot", "write", "addCheck", "addSet", "addPush",
         "propagate"},
   at : Loggers, outlet : Loggers, arg : Appenders \cup {Null},
   level : Levels, todo : Seq(Appenders), wrote : Seq(Appenders)]

(* The appenders given to addAppender so far.                              *)
added == {a \in Appenders : \E l \in Loggers : <<l, a>> \in joined}

Idle == [pc |-> "idle", at |-> Root, outlet |-> Root, arg |-> Null,
         level |-> 1, todo |-> <<>>, wrote |-> <<>>]

TypeOK ==
  /\ m_mutex \in [Loggers -> Threads \cup {Free}]
  /\ m_level \in [Loggers -> Levels]
  /\ m_appenders \in [Loggers -> Seq(Appenders)]
  /\ m_formatter \in [Loggers -> Formatters \cup {Null}]
  /\ a_formatter \in [Appenders -> Formatters \cup {Null}]
  /\ m_hasFormatter \in [Appenders -> BOOLEAN]
  /\ frame \in [Threads -> Frames]
  /\ ops \in 0 .. MaxOps
  /\ own \in [Appenders -> Formatters \cup {Null, Unset}]
  /\ joined \subseteq Loggers \X Appenders
  /\ readded \subseteq added
  /\ raced \subseteq Appenders
  /\ emptied \subseteq Loggers

Init ==
  /\ m_mutex = [l \in Loggers |-> Free]
  /\ m_level = [l \in Loggers |-> 1]
  /\ m_appenders = [l \in Loggers |-> <<>>]
  /\ m_formatter = [l \in Loggers |-> Default]
  /\ a_formatter = [a \in Appenders |-> Null]
  /\ m_hasFormatter = [a \in Appenders |-> FALSE]
  /\ frame = [t \in Threads |-> Idle]
  /\ ops = 0
  /\ own = [a \in Appenders |-> Unset]
  /\ joined = {}
  /\ readded = {}
  /\ raced = {}
  /\ emptied = {}

-----------------------------------------------------------------------------
Begin(t) == frame[t].pc = "idle" /\ ops < MaxOps /\ ops' = ops + 1
Take(t, l) == m_mutex[l] = Free /\ m_mutex' = [m_mutex EXCEPT ![l] = t]
Release(ls) == m_mutex' = [l \in Loggers |-> IF l \in ls THEN Free
                                             ELSE m_mutex[l]]
Goto(t, fr) == frame' = [frame EXCEPT ![t] = fr]
Return(t) == Goto(t, Idle)

-----------------------------------------------------------------------------
(* Writing a message.                                                      *)

(* The macro MUHUI_LOG_LEVEL lets the message pass, without a lock.        *)
LogCall(t, l, lv) ==
  /\ Begin(t)
  /\ m_level[l] <= lv
  /\ Goto(t, [frame[t] EXCEPT !.pc = "log", !.at = l, !.level = lv])
  /\ UNCHANGED <<m_mutex, loggerVars, appenderVars, historyVars>>

logUnchanged == <<loggerVars, appenderVars, ops, historyVars>>

(* The level is tested again, now under the lock.                          *)
Accepts(l, t) == frame[t].level >= m_level[l]

(* The iteration over the appenders of l begins.                           *)
Iterate(t, l) ==
  Goto(t, [frame[t] EXCEPT !.pc = "write", !.outlet = l,
                           !.todo = m_appenders[l]])

(* Logger::log, with appenders.                                            *)
LogEnter(t) ==
  LET l == frame[t].at IN
  /\ frame[t].pc = "log"
  /\ Take(t, l)
  /\ Accepts(l, t) /\ m_appenders[l] # <<>>
  /\ Iterate(t, l)
  /\ UNCHANGED logUnchanged

(* Without: the message goes to m_root, under this logger's lock.          *)
LogToRoot(t) ==
  LET l == frame[t].at IN
  /\ frame[t].pc = "log"
  /\ Take(t, l)
  /\ Accepts(l, t) /\ m_appenders[l] = <<>> /\ l # Root
  /\ Goto(t, [frame[t] EXCEPT !.pc = "logRoot"])
  /\ UNCHANGED logUnchanged

(* The level has been raised meanwhile, or Root has no appenders.          *)
LogNothing(t) ==
  LET l == frame[t].at IN
  /\ frame[t].pc = "log"
  /\ m_mutex[l] = Free
  /\ ~ Accepts(l, t) \/ (l = Root /\ m_appenders[Root] = <<>>)
  /\ Return(t)
  /\ UNCHANGED <<logUnchanged, m_mutex>>

(* m_root->log                                                             *)
RootEnter(t) ==
  /\ frame[t].pc = "logRoot"
  /\ Take(t, Root)
  /\ Accepts(Root, t) /\ m_appenders[Root] # <<>>
  /\ Iterate(t, Root)
  /\ UNCHANGED logUnchanged

RootNothing(t) ==
  /\ frame[t].pc = "logRoot"
  /\ m_mutex[Root] = Free
  /\ ~ Accepts(Root, t) \/ m_appenders[Root] = <<>>
  /\ Release({frame[t].at})
  /\ Return(t)
  /\ UNCHANGED logUnchanged

(* i->log: the appender formats and writes the message under its own lock. *)
(* Without a formatter a null pointer is followed, and the program ends.   *)
Write(t) ==
  /\ frame[t].pc = "write" /\ frame[t].todo # <<>>
  /\ a_formatter[Head(frame[t].todo)] # Null
  /\ Goto(t, [frame[t] EXCEPT !.wrote = Append(@, Head(frame[t].todo)),
                              !.todo = Tail(@)])
  /\ UNCHANGED <<logUnchanged, m_mutex>>

(* Mutated form: the lock of the root logger is not released.              *)
LogReturn_KeepsRoot(t) ==
  /\ frame[t].pc = "write" /\ frame[t].todo = <<>>
  /\ Release({frame[t].at})
  /\ Return(t)
  /\ UNCHANGED logUnchanged

LogReturn(t) ==
  /\ frame[t].pc = "write" /\ frame[t].todo = <<>>
  /\ Release({frame[t].at, frame[t].outlet})
  /\ Return(t)
  /\ UNCHANGED logUnchanged

-----------------------------------------------------------------------------
(* The appenders of a logger.                                              *)

AddBegin(t, l, a) ==
  /\ Begin(t)
  /\ Take(t, l)
  /\ Goto(t, [frame[t] EXCEPT !.pc = "addCheck", !.at = l, !.arg = a])
  /\ joined' = joined \cup {<<l, a>>}
  /\ readded' = readded \cup ({a} \cap added)
  /\ UNCHANGED <<loggerVars, appenderVars, raced, emptied>>

(* Mutated form: the appender is given the formatter whatever it has.      *)
AddCheck_Ignored(t) ==
  /\ frame[t].pc = "addCheck"
  /\ Goto(t, [frame[t] EXCEPT !.pc = "addSet"])
  /\ UNCHANGED <<m_mutex, loggerVars, appenderVars, ops, historyVars>>

(* Mutated form: the test is the wrong way round.                          *)
AddCheck_Reversed(t) ==
  /\ frame[t].pc = "addCheck"
  /\ Goto(t, [frame[t] EXCEPT !.pc =
                IF a_formatter[frame[t].arg] # Null THEN "addSet" ELSE "addPush"])
  /\ UNCHANGED <<m_mutex, loggerVars, appenderVars, ops, historyVars>>

(* getFormatter() takes and releases the appender's lock.                  *)
AddCheck(t) ==
  /\ frame[t].pc = "addCheck"
  /\ Goto(t, [frame[t] EXCEPT !.pc =
                IF a_formatter[frame[t].arg] = Null THEN "addSet" ELSE "addPush"])
  /\ UNCHANGED <<m_mutex, loggerVars, appenderVars, ops, historyVars>>

(* The appender's lock is taken again to set its formatter.                *)
AddSet(t) ==
  /\ frame[t].pc = "addSet"
  /\ a_formatter' =
       [a_formatter EXCEPT ![frame[t].arg] = m_formatter[frame[t].at]]
  /\ Goto(t, [frame[t] EXCEPT !.pc = "addPush"])
  /\ UNCHANGED <<m_mutex, loggerVars, m_hasFormatter, own, ops, historyVars>>

(* Mutated form: the pointer has been moved from when it is pushed.        *)
AddPush_Moved(t) ==
  LET l == frame[t].at IN
  /\ frame[t].pc = "addPush"
  /\ m_appenders' = [m_appenders EXCEPT ![l] = Append(@, Null)]
  /\ Release({l})
  /\ Return(t)
  /\ UNCHANGED <<m_level, m_formatter, appenderVars, ops, historyVars>>

AddPush(t) ==
  LET l == frame[t].at IN
  /\ frame[t].pc = "addPush"
  /\ m_appenders' = [m_appenders EXCEPT ![l] = Append(@, frame[t].arg)]
  /\ Release({l})
  /\ Return(t)
  /\ UNCHANGED <<m_level, m_formatter, appenderVars, ops, historyVars>>

listUnchanged == <<m_mutex, m_level, m_formatter, appenderVars, frame, historyVars>>

(* Mutated form: delAppender does not take the lock.                       *)
DelAppender_NoLock(t, l, a) ==
  /\ Begin(t)
  /\ m_appenders' = [m_appenders EXCEPT ![l] = RemoveFirst(@, a)]
  /\ UNCHANGED listUnchanged

DelAppender(t, l, a) ==
  /\ Begin(t)
  /\ m_mutex[l] = Free
  /\ m_appenders' = [m_appenders EXCEPT ![l] = RemoveFirst(@, a)]
  /\ UNCHANGED listUnchanged

ClearAppender(t, l) ==
  /\ Begin(t)
  /\ m_mutex[l] = Free
  /\ m_appenders' = [m_appenders EXCEPT ![l] = <<>>]
  /\ UNCHANGED listUnchanged

-----------------------------------------------------------------------------
(* Levels and formatters.                                                  *)

SetLevel(t, l, lv) ==
  /\ Begin(t)
  /\ m_level' = [m_level EXCEPT ![l] = lv]
  /\ UNCHANGED <<m_mutex, m_appenders, m_formatter, appenderVars, frame, historyVars>>

(* Logger::setFormatter, also with nullptr: the list is gone through, one  *)
(* appender a step.                                                        *)
SetFormatter(t, l, f) ==
  /\ Begin(t)
  /\ Take(t, l)
  /\ m_formatter' = [m_formatter EXCEPT ![l] = f]
  /\ Goto(t, [frame[t] EXCEPT !.pc = "propagate", !.at = l,
                              !.todo = m_appenders[l]])
  /\ emptied' = IF f = Null THEN emptied \cup {l} ELSE emptied
  /\ UNCHANGED <<m_level, m_appenders, appenderVars, joined, readded, raced>>

(* Mutated form: the condition is the opposite.                            *)
Inherits_Reversed(a) == m_hasFormatter[a]

Inherits(a) == ~ m_hasFormatter[a]

Propagate(t) ==
  LET a == Head(frame[t].todo) IN
  /\ frame[t].pc = "propagate" /\ frame[t].todo # <<>>
  /\ a_formatter' = [a_formatter EXCEPT ![a] =
                       IF Inherits(a) THEN m_formatter[frame[t].at] ELSE @]
  /\ Goto(t, [frame[t] EXCEPT !.todo = Tail(@)])
  /\ UNCHANGED <<m_mutex, loggerVars, m_hasFormatter, own, ops, historyVars>>

SetFormatterReturn(t) ==
  /\ frame[t].pc = "propagate" /\ frame[t].todo = <<>>
  /\ Release({frame[t].at})
  /\ Return(t)
  /\ UNCHANGED <<loggerVars, appenderVars, ops, historyVars>>

Adding(a) ==
  \E t \in Threads :
    frame[t].pc \in {"addCheck", "addSet", "addPush"} /\ frame[t].arg = a

(* LogAppender::setFormatter with a formatter of the caller's, or nullptr. *)
AppenderSetFormatter(t, a, f) ==
  /\ Begin(t)
  /\ a_formatter' = [a_formatter EXCEPT ![a] = f]
  /\ m_hasFormatter' = [m_hasFormatter EXCEPT ![a] = f # Null]
  /\ own' = [own EXCEPT ![a] = f]
  /\ raced' = IF Adding(a) THEN raced \cup {a} ELSE raced
  /\ UNCHANGED <<m_mutex, loggerVars, frame, joined, readded, emptied>>

-----------------------------------------------------------------------------
Continue(t) ==
  \/ LogEnter(t) \/ LogToRoot(t) \/ LogNothing(t)
  \/ RootEnter(t) \/ RootNothing(t)
  \/ Write(t) \/ LogReturn(t)
  \/ AddCheck(t) \/ AddSet(t) \/ AddPush(t)
  \/ Propagate(t) \/ SetFormatterReturn(t)

Call(t) ==
  \E l \in Loggers, a \in Appenders, f \in Formatters \cup {Null}, lv \in Levels :
    \/ LogCall(t, l, lv) \/ SetLevel(t, l, lv)
    \/ AddBegin(t, l, a) \/ DelAppender(t, l, a) \/ ClearAppender(t, l)
    \/ SetFormatter(t, l, f) \/ AppenderSetFormatter(t, a, f)

Next == \E t \in Threads : Continue(t) \/ Call(t)

Spec == Init /\ [][Next]_vars

(* A thread inside an operation is scheduled; nobody has to begin one.     *)
FairSpec == Spec /\ \A t \in Threads : WF_vars(Continue(t))

-----------------------------------------------------------------------------
(* Properties.                                                             *)

(* A message that a logger accepts is written to every appender of that    *)
(* logger (or of Root) exactly once and in list order, whatever the other  *)
(* threads add, remove and clear meanwhile (log.cc:266-274).               *)
DeliveredInFull ==
  [][\A t \in Threads :
       frame[t].pc = "write" /\ frame'[t].pc = "idle" =>
         /\ frame[t].wrote = m_appenders[frame[t].outlet]
         /\ frame[t].outlet = frame[t].at
              \/ m_appenders[frame[t].at] = <<>>]_vars

(* An appender in a list has a formatter, so log() can follow the pointer  *)
(* (log.cc:413, 451), unless the program took it away: from the appender   *)
(* itself, or from a logger that the appender was once added to, which     *)
(* hands its nullptr on (log.cc:285-290, 358-362).                         *)
AppenderHasFormatter ==
  \A l \in Loggers : \A i \in DOMAIN m_appenders[l] :
    LET a == m_appenders[l][i] IN
    a_formatter[a] = Null =>
      own[a] = Null \/ \E k \in emptied : <<k, a>> \in joined

(* "Whether it has a formatter of its own" (log.h:187): an appender that   *)
(* has one uses the one it was given, and no logger replaces it, unless it *)
(* was given while addAppender was between its test and its assignment     *)
(* (log.cc:358-362).                                                       *)
OwnFormatterKept ==
  \A a \in Appenders \ raced :
    m_hasFormatter[a] => a_formatter[a] = own[a]

(* An appender without a formatter of its own uses its logger's, also if   *)
(* that is nullptr (or none, once the program took its own away), whenever *)
(* the logger is not being changed (log.cc:285-290, 358-362), provided it  *)
(* was added only once: an appender that comes from a logger keeps that    *)
(* logger's formatter.                                                     *)
InheritedInSync ==
  \A l \in Loggers : \A i \in DOMAIN m_appenders[l] :
    LET a == m_appenders[l][i] IN
    m_mutex[l] = Free /\ ~ m_hasFormatter[a] /\ a \notin readded =>
      \/ a_formatter[a] = m_formatter[l]
      \/ a_formatter[a] = Null /\ own[a] = Null

(* A thread is about to follow the null pointer of an appender that the    *)
(* program left without a formatter, and ends the program (log.cc:413,     *)
(* 451): see AppenderHasFormatter.                                         *)
FollowsNull ==
  \E t \in Threads :
    /\ frame[t].pc = "write" /\ frame[t].todo # <<>>
    /\ a_formatter[Head(frame[t].todo)] = Null

(* Every operation returns, or the program ends: the locks are taken in    *)
(* the order logger, root, appender, so nobody waits in a circle (MaxOps   *)
(* bounds the operations: a spin lock is not fair).                        *)
OperationsReturn ==
  \A t \in Threads :
    frame[t].pc # "idle" ~> frame[t].pc = "idle" \/ FollowsNull
=============================================================================
