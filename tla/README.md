# A verification of mumu

mumu (`src/mumu`, C++11) is a small server framework in its first stage: a
configuration system, a logging system configured through it, and threads with
scoped locks. This directory holds TLA+ modules that model it, TLC
configurations that check them on small instances, and TLAPS proofs of what
matters most. The repository has no documentation of its own; what its
comments (in Chinese) and tests say is quoted where it is used.

All modules are translated from the C++ source. Comments in the modules give
the lines; `PROJECT.json` maps every definition to its lines.

## The system

| Component | Source | State | Operations | Who else is involved |
|---|---|---|---|---|
| ConfigVar | `config.h:393-501` | a value, a map of listeners, a read/write lock | `setValue`, `fromString`, `addListener`, `delListener`, `clearListener` | any threads; listeners are callbacks run inside `setValue` |
| Listener keys | `config.h:466-472` | one counter per type `T` | `++` in `addListener` | all variables of one type share it |
| Config registry | `config.h:503-598`, `config.cc` | name -> variable, a read/write lock | `Lookup` (two), `LookupBase`, `LoadFromYaml`, `Visit` | `LoadFromYaml` sets variables, whose listeners may call `Lookup` |
| Logger, LogAppender | `log.h:168-241`, `log.cc:252-398` | level, list of appenders, formatters, a spin lock each | `log`, `addAppender`, `delAppender`, `clearAppender`, `setLevel`, `setFormatter` (three) | a logger without appenders writes through the root logger while its own lock is held |
| FileLogAppender | `log.cc:399-444` | a file stream, the second of its last opening | `log`, `reopen` | the file system, the clock, `logrotate`-like programs |
| StdoutLogAppender | `log.cc:445-453` | none | `log` | a write under the appender's lock |
| LoggerManager, configuration of loggers | `log.cc:653-732, 829-895` | name -> logger; the variable `logs` | `getLogger`, `toYamlString`; the listener of `logs` | reconfigures loggers, call by call, while others log |
| Conversion of LogDefine | `log.cc:33-75, 733-827` | none | YAML to LogDefine and back | called by `fromString` and `toString` |
| LogFormatter | `log.cc:499-651` | pattern, items, error flag | `init` (the pattern parser), `format` | |
| Thread, Semaphore | `thread.h:23-94`, `thread.cc` | handle, callback, id, semaphore, thread-local `t_thread` | constructor, `run`, `join`, destructor | the POSIX thread; a `shared_ptr` is usually shared |
| Scoped locks | `thread.h:88-345` | a flag `m_locked`, the lock | constructor, `lock`, `unlock`, destructor | every component above uses them |
| LexcalCast | `config.h:66-383` | none | a string of YAML to a value and back, for the containers | called by `fromString`, `toString` and itself; the YAML library |
| LogEvent, LogLevel, items, Singleton, backtrace, macros | several | immutable or none | pure functions | |

What is hard here is concurrency. There is no network and nothing is persisted;
but locks are given up between two halves of one operation (`setValue`,
`addAppender`), callbacks run while locks are held (listeners, `Visit`,
appenders), state is read and written outside of the lock that should protect
it (`m_lastTime`, `s_fun_id`), and an object's lifetime depends on a handshake
between two threads (`Thread`). Failures are exceptions of listeners and of
conversions, files that cannot be opened or written, an interrupted
`sem_wait`. The parser's index arithmetic is the one sequential piece that is
hard to test. The hazards are listed, each at its line, in `PROJECT.json`.

## The modules

| Module | Extends / instantiates | MC module and run | Proofs |
|---|---|---|---|
| `ConfigVar` | instantiates `ObservedVariable` | `MCConfigVar`, `ConfigVar_shared` | `ConfigVarProofs` |
| `ListenerKeys` | extends `ListenerHandles` | `MCListenerKeys`, `ListenerKeys_one_variable`, `ListenerKeys_two_variables` | `ConfigVarProofs`, which instantiates it |
| `ConfigRegistry` | | with `YamlConfig` | `ConfigRegistryProofs` |
| `LexcalCast` | | with `YamlConfig` | `ConfigRegistryProofs` |
| `ConfigCasts` | extends `ConfigRegistry`, `LexcalCast` | with `YamlConfig` | `ConfigRegistryProofs` |
| `YamlConfig` | extends `ConfigCasts` | `MCConfigRegistry`, `ConfigRegistry_loads` | recursive, none |
| `Thread` | | `MCThread`, `Thread_lifecycle`, `Thread_interrupted` | `ThreadProofs` |
| `ScopedLock` | instantiates `ReadWriteLock` | `MCScopedLock`, `ScopedLock_guards` | `ScopedLockProofs` |
| `Logger` | | `MCLogger`, `Logger_shared` | `LoggerProofs` |
| `LogConfig` | extends `LogDefineCast` | `MCLogConfig`, `LogConfig_loaders` | `LogConfigProofs` |
| `FileAppender` | | `MCFileAppender`, `FileAppender_rotation`, `FileAppender_full_device` | `FileAppenderProofs` |
| `FormatPattern` | | `MCFormatPattern`, `FormatPattern_all` | `FormatPatternProofs` |

`ObservedVariable` and `ReadWriteLock` are abstract: what a variable promises
its observers, and what a lock promises its users. They model no code and say
what `ConfigVar` and the guards are for; TLC and TLAPS both show that the
detailed modules implement them.

**How locks are modelled.** A section under an exclusive or a write lock that
calls nothing which waits is one atomic step, enabled when the lock can be
taken. A section in which callbacks run or other locks are taken is several
steps, and the lock is a variable: the set of its readers (`m_mutex` in
`ConfigVar`, `ConfigRegistry`, `LogConfig`), or its holder (`ListenerKeys`,
`Logger`). What the code does outside of any lock is a step of its own. Where
statements race within one line (`++s_fun_id`, `++count`), loads and stores are
separate steps; the project is built with `-O0` (`CMakeLists.txt:7`).

**History variables.** Variables marked "history" remember what happened
(what a listener was told, when a file was rotated, whether two calls
overlapped) and no guard of an action reads them but as a bound (`done`). Properties that the code can
guarantee only in the absence of some event (overlapping calls, a failed
write, crossing joins) are conditional on such a variable, so that one instance
contains both the executions in which they are promised and the others, in
which nothing is.

* `ConfigVar`: `SetSame`, `SetDiffers`, `Callback`, `CallbackThrows`,
  `EndNotify` and `Store` are the pieces of `setValue`; `via` says whether the
  caller called `fromString`, which catches `std::exception`. The iterator walks
  the live map (`Remaining`), so that a lock too weak would show. In
  `CallbackReenters` a listener calls a function of its own variable that takes
  the write lock: its setter is `"stuck"` for good. It implements
  `ObservedVariable` with the setters that are not idle as `busy` and the keys
  of `snap` not yet in `told` as those `left` to tell.
* `ListenerKeys`: `addListener` instruction by instruction, for the variables of
  one type. What its callers rely on is stated in `ListenerHandles`, over the
  maps (`cbs`, the `m_cbs` of each variable) and the keys they were given.
* `ConfigRegistry`: a document is the sequence of its nodes with their dotted
  names, of which `ListAllMember` keeps the positions of the valid ones. `Find`
  is `LookupBase`; `SetNothing`, `SetDiffers`, `Notify`, `Store` are
  `fromString`. `Notify` runs a listener that may call `Lookup` and returns; the
  listeners of the names in `Throwing` may throw instead, with or without that
  lookup, so that nothing is stored: `fromString` catches a `std::exception` and
  the load goes on with the next node (`NodeRefused`, remembered in `refused`),
  anything else leaves the load (`LoadThrows`), and out of a callback either
  leaves `Visit` unless the callback catches it (`VisitThrows`). A callback of
  `Visit` reads (`VisitCallback`), calls `Lookup` or `LookupBase` and so waits
  for its own thread (`VisitCallbackLooksUp`), or sets the variable
  (`VisitCallbackSets`); `careless` remembers the last two.
* `LexcalCast`: a type is the list of its constructors from the inside out, and
  its conversions are those of a basic type (`BasicCast`) carried through one
  container after the other (`ContainerCast`): `FromElements` and `ToElements`
  are the partial specialisations, given the conversions of the element type.
  Conversions are functions over a set of strings. The values that have an
  element which is not read as it is written are `lossy`. YAML itself is
  external: `Load` and `Emit` are inverse but for what the YAML library does to
  strings that are not plain words.
* `ConfigCasts` gives `ConfigRegistry` these conversions, by the types of the
  variables, and states what is to hold of the values. Its constant `Strings`
  is any set of strings that reading an element, and writing a value that is not
  lossy, do not lead out of (all strings, for one).
* `YamlConfig` gives it its documents (`MembersOf`, with dotted names, from YAML
  nodes) and computes a finite such set (`Closure`). The registry itself, and
  the proofs about it alone, know nothing of strings.
* `Logger`: `LogEnter`, `LogToRoot`, `RootEnter`, `Write`, `LogReturn` are
  `Logger::log`; `AddBegin`, `AddCheck`, `AddSet`, `AddPush` are `addAppender`,
  whose two sections under the appender's lock are apart; `SetFormatter`,
  `Propagate`, `SetFormatterReturn` are `setFormatter`, of a formatter or of
  `nullptr`, which is handed on to the appenders like any other. The history
  variables `emptied` (loggers that were given `nullptr`) and `joined` (which
  appenders were added to which loggers) say where a missing formatter may come
  from.
* `LogConfig`: the listener of `logs` with every call it makes on a logger as a
  step, run by any number of loaders, whose read sections may overlap as in
  `ConfigVar`. Its values are what `FromYaml` of `LogDefineCast` makes of YAML
  nodes; patterns in `Invalid` make no formatter (`Parsed`). `LoggerToYaml` and
  `AppenderToYaml` are the nodes that the three `toYamlString` write of the
  loggers, and `NewLogger` is what the listener makes of a LogDefine for a logger
  that is new.
* `FileAppender`: `Check`, `Reopen`, `Stamp`, `Write` are `log`; `m_lastTime`
  is read in `Check` and written in `Stamp`, outside of the lock. `Tick`,
  `Rotate`, `Toggle` are the clock and the file system, external to the code.
* `FormatPattern`: the loops of `LogFormatter::init` with the source's `i`, `n`,
  `fmt_status`, `fmt_begin`; one step per turn of a loop. The history variable
  `ends` says where in the pattern each item ends.
* `Thread`: `Create`, `WaitReturns`, `WaitFails` are the constructor;
  `RunStart`, `RunSwap`, `RunNotify`, `RunReturns` are `run`; `Join...` are
  `join`, with the test of the handle, `pthread_join` and the clearing of the
  handle apart; `Destroy` is the destructor.
* `ScopedLock`: guards on one lock, which is a mutex (`Mutex`, `SpinLock`,
  `CASLock`) or an rwlock (`RWMutex`), and `++count` or a look at it under them
  as in `tests/test_thread.cc`. The three guard templates have the same code but
  for the function that locks, so a guard has a `mode`. `m_readers` wraps, as an
  unsigned number does. It implements `ReadWriteLock` with the guards that say
  they are locked as `readers` and `writers`.

## The runs

| Run | Bounds | What it shows |
|---|---|---|
| `ConfigVar_shared` | 2 setters, 3 values, 2 registrations, 3 calls, throws of both kinds, listeners that re-enter | `IterationStable`, `AnnouncedBeforeVisible`; `ReplacesAnnouncedOld` if no calls overlapped; `ListenersAgree` if also no listener threw; `CallsReturn` unless a listener re-entered; `ImplementsObservedVariable` |
| `ListenerKeys_one_variable` | 3 threads, 4 registrations | `KeyIsUnique`, `HandleFindsItsCallback` |
| `ListenerKeys_two_variables` | 2 threads, 2 variables, 3 registrations | *violation* of `KeyIsUnique` |
| `ConfigRegistry_loads` | 2 threads, 3 names (one invalid), 3 types (an int, a vector of lists of strings, a map of sets of ints), 2 documents, one listener, which may throw, 2 operations and any number of lookups | `SameVariable`, `VisitSeesAll`; `LoadApplied` if nobody else set variables; `SurvivesWriting`; `OperationsReturn` until a callback was careless |
| `Logger_shared` | 2 threads, the root and one logger, 2 appenders, 2 formatters, 2 levels, 4 operations | `AppenderHasFormatter`, `OwnFormatterKept`, `InheritedInSync`, `DeliveredInFull`, `OperationsReturn` |
| `LogConfig_loaders` | 2 loaders, 2 names, 3 nodes, 3 loads, one invalid pattern; anybody calls `getLogger` | `RoundTrip` at any time; `ConfiguredAsStored` and `NeverMixed` if no loads overlapped |
| `FileAppender_rotation` | 2 threads of different loggers, 8 seconds, 2 files | `RotationNoticed`, `LossExplained` |
| `FileAppender_full_device` | 2 threads of one logger, 5 seconds, 1 file | *violation* of `ReopenOpens` |
| `FormatPattern_all` | all patterns of length at most 6 over `%`, `{`, `}`, a known and an unknown letter, another character | `SubstrInRange`, `NothingLost`, `ErrorJustified`, `Terminates` |
| `Thread_lifecycle` | 2 objects, 3 joiners, `sem_wait` may fail | `HandshakeDone`, `RunTouchesLiveObject`, `JoinImpliesFinished`, `HandleUsable`, `GetThisValid`, `ReapedOnce`, `ConstructorReturns` |
| `Thread_interrupted` | 1 object, 1 joiner | *violation* of `ConstructorBlocksUntilRun` |
| `ScopedLock_guards` | both kinds of lock, 3 threads, 3 increments, at most 4 readers counted | `GuardTellsTruth`, `CountExact`, `ImplementsReadWriteLock`, until a guard is destroyed unlocked |

`TypeOK` is checked by the runs of Logger, LogConfig and Thread; for ConfigVar,
ConfigRegistry, ListenerKeys, ScopedLock, FileAppender and FormatPattern it is
proved, by itself or as part of the inductive invariant.

`SurvivesWriting` says that what a load leaves in a variable is of its type and
is read again from its own `toString`. It excepts the elements that the code does lose: those of
lists and sets whose string is not a plain word, and empty strings in vectors
and maps (see below).

`RoundTrip` has two parts. `DefinesKept`: a stored LogDefine is read again from
the node that the conversion of a LogDefine makes of it. It is about one
element: `toString` of the variable `logs` goes through the conversion of the
set as well, which makes a text of each element that is not read back (see
below). `LoggersKept`: what `LoggerManager::toYamlString` writes of a logger is
a LogDefine from which the listener would make a logger of the same level,
formatter and appenders; this one holds for the whole list, in every state,
and although the formatter in use is often not that of the stored LogDefine. The
levels of appenders are no part of either: they are written and never read.

**Why the bounds are enough.** The hazards are races of two threads, with a
third to find what they left, and one operation is a handful of steps: two
threads with three or four operations include two that overlap, in every order,
and one that follows (in `ConfigRegistry` the lookups, which are not counted). Two listeners are enough for one to be told and another
to be skipped by a throw. Two rotations' worth of time (eight seconds) includes
two due reopenings and one that is set back by another thread. Six characters
hold a whole conversion with a format, followed or preceded by any other
character, and every way to end in the middle of one. Three loads of
`logs` bring a logger, change it and remove it, or have two overlap and a third
follow. The two documents of `ConfigRegistry_loads` hold a map below a name, the
same name as a member and dotted, nodes of the wrong kind for each type, nested
sequences, a null, a duplicate key and an invalid name. The one listener of
`ConfigRegistry_loads` is that of the name that comes twice: it looks the other
one up, and may throw at the first of its nodes, at the second, at both or at
none. `MaxCalls`, `MaxOps`,
`MaxLoads`, `MaxListeners`, `MaxCount`, `MaxTime` and `MaxFiles` are bounds of
the instances only: the proofs hold for any value. `MaxReaders` is the largest
number of readers that the rwlock counts; the proofs want more than there are
threads. Deadlock is checked except where the system may really come to rest:
operations that nobody has to begin, a join of a callback that never returns, a
listener (`ConfigVar`) or a callback of `Visit` (`ConfigRegistry`) that waits for
a lock its own thread holds.

**Fairness.** `ConfigVar`, `ConfigRegistry`, `Logger`: weak fairness of every
thread inside an operation; nobody has to begin one. It is what the scheduler
of the operating system gives a thread that can run. It suffices because the
bounds leave finitely many competitors for a lock; without them a spin lock or a
reader-preferring rwlock may starve a waiter, and the code promises nothing
else. `Thread`: the new thread is run and the constructor woken; a callback
need not return, those of `tests/test_thread.cc:35-45` do not. `FormatPattern`:
the one thread runs on. `OperationsReturn` of `Logger` has the alternative
`FollowsNull`: a program that takes away an appender's formatter, or that of a
logger it was added to, and then logs through it ends. Exceptions of listeners
are never fair: a listener need not throw.

## The proofs

Each proof module extends the module it is about (`ConfigVarProofs` also
instantiates `ListenerKeys`). All proofs hold for any
values of the constants that satisfy the module's `ASSUME`. These say
what the constants stand for: sequences are sequences, `None` and its like are
no values, names of loggers have an order, bounds are numbers.

* `ConfigVarProofs`. `IInv` joins types, `LockInv` (the read lock is held
  exactly by those who notify or are stuck), `IterationStable` itself and
  `ToldInv` (those told are the first of the map as it was). `LockInv` is what
  makes `IterationStable` inductive: a step that changes the map or the value
  needs an empty `m_mutex`. From it: `TypeCorrect`, `IterationIsStable`,
  `AnnouncedFirst` (an action property), and `Refinement`: every step is one of
  `ObservedVariable` or leaves it alone. `Tell` needs `ToldInv` (the next key of
  the live map is the smallest one left), `Replace` and `Observe` need `LockInv`
  (nobody is left to tell when the write lock is free). `AloneInv`, which says
  that without overlap at most one call is under way and the value waits for it,
  gives `ReplacesAnnounced`; `FreshInv` and `HeardInv` add what the listeners
  know and give `ListenersKnow`.
  Its last part is about `ListenerKeys`, with a state of its own and assuming
  one variable per type (`OneVariable`): the threads inside `addListener` are at
  most one (`KeyLockInv`), the register still equals the counter (`KeyStepInv`),
  all keys are below it (`KeyOrderInv`): `UniqueKeys` and
  `HandlesFindCallbacks`. The assumption is needed, as
  `ListenerKeys_two_variables` shows. `FreeOwner` is the assumption of
  `ListenerKeys` itself.
* `ThreadProofs`. `RunInv` says how far `run` is by what it did to the object,
  `JoinInv` relates the handle to the end of the thread: `TypeCorrect` (which
  needs `RunInv`, since the semaphore is posted once only), `Handshake`,
  `RunIsSafe`, `JoinWaits`. `OsInv`, what the system knows of the thread of an
  object that is not there yet, there, or gone, gives `GivenBackOnce`, of which
  one half is an action property. `ThrownInv` adds why a join may throw and gives
  `JoinedOutlivesCallback`; `HandleInv`, that without crossing joins at most
  one is under way, gives `HandlesUsable`.
* `ScopedLockProofs`. Until a guard is abandoned, `LockInv` has the writer and
  the number of readers say what the guards say, the number being the
  cardinality of the set of locked read guards (by `FiniteSetTheorems`), which
  stays below `MaxReaders` and so never wraps. With `ScopeInv` (who has loaded
  the counter is locked) and `ModeInv`: `GuardsTellTruth`, `CountIsExact`, and
  `Refinement`, that guards implement `ReadWriteLock`.
* `LoggerProofs`. `LockInv` says which locks a thread holds at each step
  (`Held`), and with it that only the holder changes a list. `LogInv`: the
  appenders a message has reached and those left make up the list, hence
  `Delivered`. `FormatterInv` follows an appender through `addAppender`, and
  `OwnInv` excepts the ones in `raced`: `HasFormatter`, `OwnKept`. A missing
  formatter is excused by `emptied` and `joined`, also on its way from a logger
  to an appender. `PlaceInv` (an
  appender that was added once is in one list, or on its way to it) and
  `SyncInv` (in each list, and for those on their way, the formatter is the
  logger's or is still coming with `propagate`) give `Inherited`.
* `FileAppenderProofs`. `FreshInv` says how old the stream may be relative to
  `m_lastTime` and to the messages under way. It is this form that survives a
  thread which sets `m_lastTime` back: `RotationsNoticed`. `ExcusedInv` is the
  same for a stream that could not be opened: `LossesExplained`.
* `ConfigRegistryProofs`. `VisitInv`: a visiting thread is a reader, also while
  its callback sets a variable, so that the names it began with are still those
  of the table: `VisitsSeeAll`. `RestInv`, `SetInv` (a value is about to be
  stored in a variable), `KindInv` (who holds no lock) and the node a load has come
  to (one of its document's, by the well-ordering of the natural numbers) give
  `TypeCorrect` and `VariablesStay`, for any table of conversions.
  `DocumentsApply` is about a load that nobody else's setting of variables
  crossed. `MixedInv`: of threads that set variables at the same time, each one
  that loads is in `mixed`, so that one which is not is alone. `LoadInv`: the
  nodes are visited in order, and of those that are done the last of a name that
  converts and was not refused is what its variable has, also while the value of
  the next one is being announced, or when its listener throws.
  The last part proves the conversions, with `ConfigCasts`. `ContainerKeeps`: if
  every value of the element type that is not lossy is read as it is written
  (`Keeps`), so is every one of a vector, list, set or map of them, whose
  elements are neither lossy nor illegible in that container. A set is written
  in any order (`ListsOnce`: the list that stands for the iteration holds each
  element), and a map read back takes the first entry of each key
  (`FirstIsOne`), of which there is one. `TypesKeep` carries this over all the
  constructors of a type, which are the positions of a list (`FromOneUp`), so
  that types are nested as deep as one likes. `StoringInv`, that the value which
  `setValue` is about to store was converted for the type that its variable
  still has, then gives `ValuesSurvive`. Assumed of strings
  (`ConfigCastsAssumption`): emitting what a string loads as gives it back,
  unless it is empty; elements of nodes are sequences; `Strings` is closed as
  said above.
* `LogConfigProofs`. `TypesKept` needs the types of what `FromYaml` reads from a
  node, a list built by a loop: `ReadUpTo` is a recursive function over the
  positions of the nodes, and its existence and type are shown by induction over
  these (`UpTo`, on the set of positions for which the claim holds). From the
  types alone, `DefineKept` shows that any well-typed LogDefine survives
  being written and read; the loggers do (`LoggerRestored`) because of
  `WritableInv`: whatever loads overlap, a logger and its appenders have valid
  formatters, and an appender without one of its own has the logger's. Both
  give `WritingLosesNothing`. `ConfigInv` is the core: without
  overlap at most one loader is active, and (`Halfway`) each logger it has yet
  to come to writes to what the old value says or to nothing (`WritesOld`), each one
  behind it is as the new value says (`AsNew`), and the one it is at has the
  first appenders of the new value, the rest still to come, and level and
  formatter as far as they are set (`Current`). `FrameInv` says that a loader
  has something left to do where it is. They give
  `LoadsConfigure` and `LoadsNeverMix`.
* `FormatPatternProofs`, for patterns of any length. The ranges of the positions
  at each step of the two loops: `PositionsInRange`. `TextInv`, that items and
  collected text are the pattern up to the outer loop, and `ConversionInv`, what
  the conversion under way was written as: `ItemsArePattern`. `AheadInv`, that a
  format that is not closed is never passed unnoticed (any conversion before it
  ends before it), and `SeenInv`, that one which is reported is there:
  `ErrorsAreJustified`. The history variable `ends` takes the place of an
  induction over the items.

Only model-checked: liveness (`CallsReturn`, `OperationsReturn`,
`ConstructorReturns`, `Terminates`), which is out of the proof system's reach.
All other properties of the runs are theorems, under the same conditions as in
the runs. The listing of a document's members (`MembersOf`) and the closure of
strings (`Closure`) are recursive and no theorem is about them: the theorems
hold for any documents and any `Strings` that is closed.

## Where the code and its comments disagree

Three disagreements are runs that must find a violation:

* `ListenerKeys_two_variables`: "key 要求唯一" (the key must be unique,
  `config.h:495`); two variables of one type increment `s_fun_id` under two
  different locks, and one listener then replaces another.
* `Thread_interrupted`: the thread is guaranteed to run or else the constructor
  blocks (`thread.cc:73`); a signal makes `sem_wait` fail and the constructor
  throw (`thread.cc:46`), and `run` goes on with an object that is gone.
* `FileAppender_full_device`: `reopen()` "opens the file again" (`log.h:260`);
  after a failed write it closes nothing and cannot open (`log.cc:438`).

Others that the models show, or that were met while reading:

* Two overlapping setters: listeners are given an old value that is not the one
  replaced, and may end with a new value that is not stored (`config.h:460-461`;
  drop `~ overlapped` from `ReplacesAnnouncedOld` or `ListenersAgree`).
* `fromString` swallows the exception its comment (`config.h:434`) announces,
  and returns false whether or not it succeeded.
* A guard unlocked before its scope ends unlocks once more in its destructor,
  and so another thread's guard, or makes the number of readers wrap
  (`thread.h:107`; drop `~ abandoned` from `GuardTellsTruth`). No component
  of the repository unlocks a guard early.
* Two loads of `logs` that overlap: both listeners configure one logger at once,
  which ends with the appenders of both, or as the value says that was replaced
  (`log.cc:834`; drop `~ overlapped` from `NeverMixed` or `ConfiguredAsStored`).
* Two joins that cross: the second uses a handle that was joined
  (`thread.cc:90`; drop `~ crossed` from `HandleUsable`).
* A formatter given to an appender while `addAppender` is between its two
  sections is replaced (`log.cc:358`; the appenders in `raced`).
* While the root logger is reconfigured it has no appenders, although
  `log.cc:666` promises that messages are written to it; a logger that is no
  longer configured is not deleted (`log.cc:885`) but keeps its formatter and
  gets level 0.
* The level of an appender is written (`log.cc:813`) but never read
  (`log.cc:759-780`).
* The example pattern in the comment of the parser (`log.cc:506`) is in error:
  `%5p` has an empty name and `%L` is unknown. `%%` never gives a percent sign.
* The casts of sets, lists and unordered containers to strings push their
  elements as plain strings (`config.h:183, 229`), those of vectors and maps as
  loaded nodes. A container inside a list or a set is so written as a quoted
  scalar, and what is read back is empty. The variable `logs` is such a set:
  each `LogDefine` by itself survives its own conversion (`RoundTrip`), the set
  does not: what `toString` of `logs` writes cannot be loaded into it. What
  `LoggerManager::toYamlString` writes can. In a vector or a
  map an empty string becomes `~`.
* A scalar given to a variable of a container type does not fail but empties it
  (the node has size 0); a sequence given to one that is a map throws.
* Of two entries of a map with one key the first stays (`insert`,
  `config.h:304`), of two nodes of a document with one name the last wins. The
  model has both rules; since the first is part of the conversion that
  `LoadApplied` takes as given, no property tells it from another one.

## What is not modelled

Formatting of messages (the `FormatItem`s, `LogEvent`) and parsing of YAML text
(a library), functions that only read (but for the `toYamlString` of loggers and
appenders), `Singleton`,
backtraces, the assertion macros. `LogAppender::setLevel` (`log.h:182`) is not an action:
appenders' levels stay at their default in `Logger`. Names of threads (`setName`,
`thread.cc:115`) are data no property tells apart. A listener that sets its own variable to yet another value, and so
notifies recursively, is left out; one that calls the variable in any other way
is in. `NullMutex` and `NullRWMutex` do nothing. Order of static constructors
before `main` is the linker's. Iteration order of the hash table is any.

## The plan

Done, in this order, the most important behaviour first: `ConfigVar` and
`ListenerKeys` (everything else is configured through them), `Thread`,
`ScopedLock`, `Logger`, `LogConfig` with `LogDefineCast`, `FileAppender`,
`ConfigRegistry`, `FormatPattern`; then the rwlock and its guards, the
conversions of containers, callbacks that call back, the abstract variable, two
loaders of `logs`; proofs about all of them, the conversions of containers last.

Next:

1. An abstract specification of a logger and its appenders, and of the registry.
2. The levels of appenders in `Logger`.
3. A listener that sets its own variable, with a stack of calls per thread.
