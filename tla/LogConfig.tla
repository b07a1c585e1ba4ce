------------------------------- MODULE LogConfig -------------------------------
(***************************************************************************)
(* The configuration variable "logs" and the loggers it configures         *)
(* (mumu/log.cc:653-732, 829-895): threads load new values with           *)
(* ConfigVar::setValue, whose only listener, the lambda of LogIniter,      *)
(* reconfigures the loggers one call at a time inside setValue's read      *)
(* section.  What other threads see of the loggers meanwhile is the state  *)
(* between these calls; each call is atomic (see Logger), and setValue is  *)
(* the one of ConfigVar.                                                   *)
(*                                                                         *)
(* A value gives each name its LogDefine, or None; it is read from YAML    *)
(* nodes (see LogDefineCast).  A document that does not convert, since one *)
(* of its nodes has no name, changes nothing.  An appender is known by     *)
(* what it writes to (dest), its formatter and its level.  A formatter is  *)
(* known by its pattern.  The program changes no logger by other means.    *)
(***************************************************************************)
EXTENDS Integers, FiniteSetsExt, SequencesExt, LogDefineCast

CONSTANTS
  Loaders,   \* threads that set the variable
  Names,     \* names of loggers, as numbers: std::set iterates in order
  Root,      \* the name "root"
  Nodes,     \* YAML nodes: [level, formatter, appenders]
  Console,   \* where a StdoutLogAppender writes
  Default,   \* the formatter of a new Logger
  Invalid,   \* the patterns that LogFormatter finds to be in error
  MaxLoads   \* bound: changes of the value over a behaviour

ASSUME LogConfigAssumption ==
  /\ Names \subseteq Nat /\ Root \in Names
  /\ \A d \in Nodes : /\ DOMAIN d = {"level", "formatter", "appenders"}
                       /\ d.appenders \in Seq(Range(d.appenders))
  /\ None \notin Nodes \cup {Console, Default} /\ Default \notin Invalid
  /\ MaxLoads \in Nat

VARIABLES
  m_val,      \* the value of g_log_defines
  m_mutex,    \* the loaders in setValue's read section
  m_loggers,  \* the names the LoggerManager has a logger for
  level, formatter, appenders,  \* per name: that of its Logger
  frame,      \* per loader: where it is
  loads,      \* loads begun so far (see MaxLoads)
  overlapped  \* history: a load began before another had ended

loggerVars == <<m_loggers, level, formatter, appenders>>
loadVars == <<loads, overlapped>>
vars == <<m_val, m_mutex, loggerVars, frame, loadVars>>

(* The formatter made of a pattern: none of an empty or an invalid one,    *)
(* which setFormatter and the listener leave out.                          *)
Parsed(f) == IF f \in Invalid THEN None ELSE f

(* An appender after addAppender: f is what the logger has to offer.       *)
Appender(dest, lv, own, f) ==
  [dest |-> dest, level |-> lv, own |-> own # None,
   formatter |-> IF own = None THEN f ELSE own]

(* The one that the listener makes of a LogAppenderDefine.                 *)
Configured(a, f) ==
  Appender(IF a.type = 1 THEN a.file ELSE Console, a.level,
           Parsed(a.formatter), f)

Defines == {FromYaml(x) : x \in Nodes}

Values == [Names -> Defines \cup {None}]

(* pc: the next step; new, old: the listener's arguments; todo, gone:      *)
(* names still to be configured, to be removed; rest: the LogAppender-     *)
(* Defines still to be added to the first of todo.                         *)
Idle == [pc |-> "idle", new |-> [n \in Names |-> None],
         old |-> [n \in Names |-> None], todo |-> {}, gone |-> {},
         rest |-> <<>>]

TypeOK ==
  /\ m_val \in Values
  /\ m_mutex \subseteq Loaders
  /\ m_loggers \subseteq Names
  /\ level \in [Names -> 0 .. 5]
  /\ \A n \in Names : \A i \in DOMAIN appenders[n] :
       /\ DOMAIN appenders[n][i] = {"dest", "level", "own", "formatter"}
       /\ appenders[n][i].level \in 0 .. 5
       /\ appenders[n][i].own \in BOOLEAN
  /\ \A t \in Loaders :
       /\ frame[t].pc \in {"idle", "next", "format", "clear", "add",
                           "clearGone", "store"}
       /\ frame[t].new \in Values /\ frame[t].old \in Values
       /\ frame[t].todo \subseteq Names /\ frame[t].gone \subseteq Names
  /\ loads \in 0 .. MaxLoads
  /\ overlapped \in BOOLEAN

(* getLogger makes a Logger like this; until then nobody can see it.       *)
Init ==
  /\ m_val = [n \in Names |-> None]
  /\ m_mutex = {}
  /\ m_loggers = {Root}
  /\ level = [n \in Names |-> 1]
  /\ formatter = [n \in Names |-> Default]
  /\ appenders = [n \in Names |-> IF n = Root THEN <<Appender(Console, 1, None, Default)>>
                                  ELSE <<>>]
  /\ frame = [t \in Loaders |-> Idle]
  /\ loads = 0
  /\ overlapped = FALSE

-----------------------------------------------------------------------------
(* setValue.                                                               *)

(* Mutated form: operator== of LogDefine forgets the appenders.            *)
Differ_IgnoresAppenders(d, e) ==
  d # e /\ (d = None \/ e = None \/ d.level # e.level \/ d.formatter # e.formatter)

(* operator== of LogDefine compares all members.                           *)
Differ(d, e) == d # e

(* The value differs: the listener is called.                              *)
Load(t, x) ==
  /\ frame[t].pc = "idle"
  /\ loads < MaxLoads /\ loads' = loads + 1
  /\ overlapped' = (overlapped \/ \E s \in Loaders : frame[s].pc # "idle")
  /\ x # m_val
  /\ m_mutex' = m_mutex \cup {t}
  /\ frame' = [frame EXCEPT ![t] =
       [pc |-> "next", new |-> x, old |-> m_val,
        todo |-> {n \in Names : x[n] # None /\ Differ(x[n], m_val[n])},
        gone |-> {n \in Names : x[n] = None /\ m_val[n] # None},
        rest |-> <<>>]]
  /\ UNCHANGED <<m_val, loggerVars>>

(* The listener has returned: the read section ends.                       *)
EndNotify(t) ==
  /\ frame[t].pc = "next" /\ frame[t].todo = {} /\ frame[t].gone = {}
  /\ m_mutex' = m_mutex \ {t}
  /\ frame' = [frame EXCEPT ![t].pc = "store"]
  /\ UNCHANGED <<m_val, loggerVars, loadVars>>

Store(t) ==
  /\ frame[t].pc = "store"
  /\ m_mutex = {}
  /\ m_val' = frame[t].new
  /\ frame' = [frame EXCEPT ![t] = Idle]
  /\ UNCHANGED <<m_mutex, loggerVars, loadVars>>

-----------------------------------------------------------------------------
(* The listener, for a new or modified LogDefine.                          *)

First(t) == Min(frame[t].todo)
Define(t) == frame[t].new[First(t)]

(* MUHUI_LOG_NAME and setLevel.                                            *)
SetLevel(t) ==
  /\ frame[t].pc = "next" /\ frame[t].todo # {}
  /\ m_loggers' = m_loggers \cup {First(t)}
  /\ level' = [level EXCEPT ![First(t)] = Define(t).level]
  /\ frame' = [frame EXCEPT ![t].pc = "format"]
  /\ UNCHANGED <<m_val, m_mutex, formatter, appenders, loadVars>>

(* setFormatter, unless the pattern is empty or invalid; the appenders the *)
(* logger still has follow unless they have a formatter of their own.      *)
SetFormatter(t) ==
  LET f == Parsed(Define(t).formatter)  n == First(t) IN
  /\ frame[t].pc = "format"
  /\ formatter' = [formatter EXCEPT ![n] = IF f = None THEN @ ELSE f]
  /\ appenders' = [appenders EXCEPT ![n] =
       [i \in DOMAIN @ |-> IF f = None \/ @[i].own THEN @[i]
                           ELSE Appender(@[i].dest, @[i].level, None, f)]]
  /\ frame' = [frame EXCEPT ![t].pc = "clear"]
  /\ UNCHANGED <<m_val, m_mutex, m_loggers, level, loadVars>>

(* Mutated form: clearAppender is not called.                              *)
ClearAppender_Forgotten(t) ==
  /\ frame[t].pc = "clear"
  /\ frame' = [frame EXCEPT ![t].pc = "add", ![t].rest = Define(t).appenders]
  /\ UNCHANGED <<m_val, m_mutex, loggerVars, loadVars>>

ClearAppender(t) ==
  /\ frame[t].pc = "clear"
  /\ appenders' = [appenders EXCEPT ![First(t)] = <<>>]
  /\ frame' = [frame EXCEPT ![t].pc = "add", ![t].rest = Define(t).appenders]
  /\ UNCHANGED <<m_val, m_mutex, m_loggers, level, formatter, loadVars>>

(* A new appender, with its own formatter if it has one, is added.         *)
AddAppender(t) ==
  LET a == Head(frame[t].rest)  n == First(t) IN
  /\ frame[t].pc = "add" /\ frame[t].rest # <<>>
  /\ appenders' = [appenders EXCEPT ![n] =
       Append(@, Configured(a, formatter[n]))]
  /\ frame' = [frame EXCEPT ![t].rest = Tail(@)]
  /\ UNCHANGED <<m_val, m_mutex, m_loggers, level, formatter, loadVars>>

NextDefine(t) ==
  /\ frame[t].pc = "add" /\ frame[t].rest = <<>>
  /\ frame' = [frame EXCEPT ![t].pc = "next", ![t].todo = @ \ {First(t)}]
  /\ UNCHANGED <<m_val, m_mutex, loggerVars, loadVars>>

-----------------------------------------------------------------------------
(* The listener, for a LogDefine that is not in the new value:             *)
(* MUHUI_LOG_NAME and setLevel, then clearAppender.                        *)

(* Mutated form: the level becomes one that LogLevel does not have.        *)
ResetLevel_Negative(t) ==
  /\ frame[t].pc = "next" /\ frame[t].todo = {} /\ frame[t].gone # {}
  /\ m_loggers' = m_loggers \cup {Min(frame[t].gone)}
  /\ level' = [level EXCEPT ![Min(frame[t].gone)] = -1]
  /\ frame' = [frame EXCEPT ![t].pc = "clearGone"]
  /\ UNCHANGED <<m_val, m_mutex, formatter, appenders, loadVars>>

ResetLevel(t) ==
  /\ frame[t].pc = "next" /\ frame[t].todo = {} /\ frame[t].gone # {}
  /\ m_loggers' = m_loggers \cup {Min(frame[t].gone)}
  /\ level' = [level EXCEPT ![Min(frame[t].gone)] = 0]
  /\ frame' = [frame EXCEPT ![t].pc = "clearGone"]
  /\ UNCHANGED <<m_val, m_mutex, formatter, appenders, loadVars>>

ClearGone(t) ==
  LET n == Min(frame[t].gone) IN
  /\ frame[t].pc = "clearGone"
  /\ appenders' = [appenders EXCEPT ![n] = <<>>]
  /\ frame' = [frame EXCEPT ![t].pc = "next", ![t].gone = @ \ {n}]
  /\ UNCHANGED <<m_val, m_mutex, m_loggers, level, formatter, loadVars>>

-----------------------------------------------------------------------------
(* getLogger by anybody.                                                   *)
GetLogger(n) ==
  /\ m_loggers' = m_loggers \cup {n}
  /\ UNCHANGED <<m_val, m_mutex, level, formatter, appenders, frame, loadVars>>

Listener(t) ==
  \/ SetLevel(t) \/ SetFormatter(t) \/ ClearAppender(t) \/ AddAppender(t)
  \/ NextDefine(t) \/ ResetLevel(t) \/ ClearGone(t)

Next ==
  \/ \E t \in Loaders :
       Listener(t) \/ EndNotify(t) \/ Store(t) \/ \E x \in Values : Load(t, x)
  \/ \E n \in Names : GetLogger(n)

Spec == Init /\ [][Next]_vars
-----------------------------------------------------------------------------
(* LoggerManager::toYamlString writes these nodes.                         *)

(* Mutated form: that of a StdoutLogAppender forgets the formatter.        *)
AppenderToYaml_FileOnly(a) ==
  [type |-> IF a.dest = Console THEN "StdoutLogAppender" ELSE "FileLogAppender",
   file |-> IF a.dest = Console THEN None ELSE a.dest,
   level |-> WriteLevel(a.level),
   formatter |-> IF a.own /\ a.dest # Console THEN a.formatter ELSE None]

AppenderToYaml(a) ==
  [type |-> IF a.dest = Console THEN "StdoutLogAppender" ELSE "FileLogAppender",
   file |-> IF a.dest = Console THEN None ELSE a.dest,
   level |-> WriteLevel(a.level),
   formatter |-> IF a.own THEN a.formatter ELSE None]

LoggerToYaml(n) ==
  [level |-> WriteLevel(level[n]), formatter |-> formatter[n],
   appenders |-> [i \in DOMAIN appenders[n] |-> AppenderToYaml(appenders[n][i])]]

(* What the listener makes of a new Logger whose LogDefine is d.           *)
NewLogger(d) ==
  LET f == IF Parsed(d.formatter) = None THEN Default ELSE Parsed(d.formatter)
  IN  [level |-> d.level, formatter |-> f,
       appenders |-> [i \in DOMAIN d.appenders |-> Configured(d.appenders[i], f)]]

-----------------------------------------------------------------------------
(* Properties.                                                             *)

Dests(s) == [i \in DOMAIN s |-> s[i].dest]
DefineDests(d) == Dests([i \in DOMAIN d.appenders |-> Configured(d.appenders[i], None)])

(* When no load is in progress, the loggers are as the variable's value    *)
(* says: the level, the appenders in order, each with its own formatter or *)
(* the logger's, whichever patterns are invalid (log.cc:837-880), and a    *)
(* logger the value no longer names has no appenders (882-890).  Not so    *)
(* after two loads that overlapped: each configures what it finds to       *)
(* differ from a value that the other is about to replace.                 *)
ConfiguredAsStored ==
  (\A t \in Loaders : frame[t].pc = "idle") /\ ~ overlapped =>
    \A n \in Names :
      IF m_val[n] = None
      THEN appenders[n] = <<>> \/ (n = Root /\ level[n] = 1)
      ELSE /\ n \in m_loggers
           /\ level[n] = m_val[n].level
           /\ Parsed(m_val[n].formatter) \in {None, formatter[n]}
           /\ appenders[n] =
                [i \in DOMAIN m_val[n].appenders |->
                  Configured(m_val[n].appenders[i], formatter[n])]

(* While a load is in progress, a logger writes to what the old value says *)
(* or to a first part of what the new one says, never to both (log.cc:858, *)
(* 878), as long as no two loads overlap.                                  *)
NeverMixed ==
  ~ overlapped => \A t \in Loaders, n \in Names : frame[t].pc # "idle" =>
    LET old == frame[t].old[n]  new == frame[t].new[n]
    IN  \/ appenders[n] = <<>>
        \/ old # None /\ Dests(appenders[n]) = DefineDests(old)
        \/ new # None /\ IsPrefix(Dests(appenders[n]), DefineDests(new))
        \/ n = Root /\ old = None /\ Dests(appenders[n]) = <<Console>>

(* Each LogDefine that is stored is read again from the YAML that the      *)
(* conversion of an element writes of it (log.cc:735-827).  This is that   *)
(* of a LogDefine only: the set they are in is written with each element   *)
(* as a text (config.h:229), which the conversion does not read.           *)
DefinesKept ==
  \A n \in Names : m_val[n] # None => FromYaml(ToYaml(m_val[n])) = m_val[n]

(* What LoggerManager::toYamlString writes of the loggers is, at any time  *)
(* and whichever loads overlap, a value that configures them as they are:  *)
(* the level, the formatter in use, though the stored LogDefine may have   *)
(* none or an invalid one, and the appenders in order, those without a     *)
(* formatter of their own still without one, so that they will follow the  *)
(* logger's (log.cc:311-331, 424, 461).  The levels of the appenders are   *)
(* left out here: they are written, but no conversion reads them.          *)
LoggersKept ==
  \A n \in m_loggers :
    NewLogger(FromYaml(LoggerToYaml(n))) =
      [level |-> level[n], formatter |-> formatter[n],
       appenders |-> [i \in DOMAIN appenders[n] |->
                       [appenders[n][i] EXCEPT !.level = UNKONW]]]

RoundTrip == DefinesKept /\ LoggersKept
=============================================================================
