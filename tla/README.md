# A model of shared_lib in TLA+

shared_lib is a C++ library of the pieces that its author's other programs
share: a mutex that keeps statistics about itself, metrics, logs, a command
line parser, and wrappers around files, paths and the operating system. This
directory holds TLA+ modules of the parts of it that have behaviour worth
modelling, TLC configurations that check them on small instances, and theorems
that TLAPS has checked for every value of the constants.

`PROJECT.json` has the same information in a form that a program can read: the
components, the runs, which lines of the source each definition stands for, the
hazards, the findings and the theorems.

## How to run it

    tlc -workers 2 -config MCMutex_stats.cfg MCMutex.tla
    tlapm MutexProofs.tla

and in the same way for the other configurations and proof modules. A
configuration `MCX_question.cfg` belongs to the module `MCX.tla`.

## 1. The system

"Shared" below is state that several threads reach.

| Component | Source (src/src, src/include/shared) | State | Operations | Modelled |
|---|---|---|---|---|
| Mutex | mutex.cpp, mutex.h | shared: a `std::mutex`, plain counters, four atomics, a name under a shared mutex | lock, try_lock, unlock, RequestReset, GetDetails, SetName, SetInterestingEvents, the global SetAssumeFreeUncontendedLocks | `Mutex` |
| Mutex metadata registry | mutex.cpp | shared: a circular list through all mutexes, a cached vector, a change counter, the mutex of the list and when it dies | construction and destruction of a Mutex, GetMetadataChangeCounter, GetAllMetadata | `MutexRegistry` |
| LockGuard, UniqueLock | mutex.h | one thread's: the mutex and whether it is owned | construction, both moves, lock, unlock, destruction | `UniqueLock` |
| MetricSets list | metrics.cpp | shared: a list of raw pointers, the global set | Create, destruction, GetAll, GetGlobal, DeleteMetricsGlobals | `MetricSets` |
| MetricSet contents | metrics.cpp, metrics.h | shared: a tree of timers, counters, values, under a mutex of the set; the dummy for callers without a set | CreateTimerDef, CreateCounter, CreateDerivedValue, AddTicks, Add, both resets, the getters | `MetricContents` |
| Log | log.cpp, log.h | one thread's: a buffer, a column, an indent stack; shared: the printer | c, f, s, EnsureBOL, Flush, PushIndent, PopIndent, Enable, Disable, SetLogPrinter, copies, destruction | `Log`, `LogObjects` |
| LogIndenter | log.cpp, log.h | which log it has to pop | construction, move, PopIndent, destruction | `LogIndenter` |
| LogPrinter | log.cpp | shared: a mutex, a destination | Print | in `Log` |
| LogWithTag list, LogSet | log.cpp, log.h | a list of static objects | static initialisation and destruction, a walk over the list | `LogObjects` |
| Log formatting | log.cpp | none | LogDumpBytes, LogStringPrintable, LogStackTrace | `Reports`, but for LogStackTrace |
| CommandLineParser | CommandLineParser.cpp | one thread's: the options and where their values go | AddOption and the methods of an Option, AddHelpOption, Parse, the help | `CommandLineParser`; the wrapping of the help in `HelpLayout` |
| Enums | enums.cpp, enums.h | shared: a list of traits, two flags | construction of traits, validation at the first use, JSON | `Enums`, `EnumJson` |
| Testing | testing.cpp | a vector of failure callbacks | AddTestFailFn, RemoveTestFailFnByContext, TestFailed, comparisons of strings and bytes | `Testing`, `Reports` |
| File I/O | file_io.cpp | none of its own; files | LoadFile, LoadTextFile, SaveFile, SaveTextFile | `FileIO` |
| Paths | path*.cpp | none; the file system | splitting, joining, comparing; PathCreateFolder, PathGlob ... | `Paths`, and PathCreateFolder in `FileIO` |
| System | system.cpp, system_posix.cpp | shared: a callback for thread names, and its context | SetCurrentThreadName, strlcpy, SleepMS ... | `ThreadNames`, `CStrings` |
| Backtrace (Linux) | system_linux.cpp | child processes and pipes | GetBacktraceSymbols | `Backtrace` |
| SHA1 | sha1.cpp | a state, a buffer of a block, a count | Update, Final, Finish | `Sha1Blocks`, `Sha1` |
| Guid | guid.cpp | none | parsing, printing, comparison | `Guids` |
| Strings, load_store | strings.cpp, load_store.h | none | ForEachLine, byte order | `TextLines`, `LoadStore` |
| Debug, relacy, header glue, OS X, Windows | | | | no, see section 8 |

### How they interact

* **Mutex and registry.** The constructor of a `Mutex` links its metadata into
  the list and its destructor unlinks it, both under the one mutex of the list.
  The two share no other state, so they are two modules: `Mutex` is one mutex
  for its whole life, `MutexRegistry` is the life of all of them.
* **Everything uses Mutex.** The metric sets and the log printers lock a
  `Mutex`. They rely on what a lock is, not on the statistics. `Lockable` says
  what a lock is, and `MutexProofs` proves that `Mutex` is one. So
  `MetricSets` and `Log` model a mutex by its holder alone.
* **LogIndenter and Log.** An indenter calls `PushIndentInternal` and
  `PopIndent` of a log. `LogIndenter` extends `Log` and uses its actions.
* **Log and LogPrinter.** Logs of several threads may have one printer. A log
  calls `Print` with its buffer, and the printer locks its mutex for one `Print`.
* **UniqueLock and its mutex.** `MetricSets` returns a `UniqueLock` from
  `LockMetricSetsList`; it is moved, and unlocks when it is destroyed. That a
  moved lock still has one owner is `UniqueLock`.
* **SaveFile and PathCreateFolder.** SaveFile may create the folders of its
  path first; both are in `FileIO`, against one file system.
* **Callbacks.** The library calls its user in three places: the printer of a
  log, the failure callbacks of the tests, and the thread name callback.

### What is hard

1. Statistics that are plain integers, updated by whoever holds the mutex and
   cleared by whoever asks, without it (`mutex.cpp` 128, 140, 342).
2. A list under a mutex whose own lifetime is shared between the list and its
   elements, at the end of the program (`mutex.cpp` 48-107).
3. A cached copy with a change counter that is polled without the lock.
4. A list of raw pointers to objects that `shared_ptr`s own. A loop over it
   meets an object that is expired and not yet unlinked (`metrics.cpp` 345-361).
5. A buffer that is flushed in the middle of a line, a printer that is changed
   in the middle of a line, an indent stack that overflows (`log.cpp`).
6. Errors that leave earlier effects behind (command line, file I/O, Guid).
7. Child processes that inherit the pipes of other threads, a read whose failure
   is ignored, a wait that a signal interrupts (`system_linux.cpp`).
8. Two atomics that belong together and are updated one after the other
   (`metrics.cpp` 66, 88); a flag that is set before the work that it announces
   (`enums.cpp` 135); two plain globals that belong together (`system.cpp` 24).
9. A loop over a vector that calls what may change it, or begin the same loop
   again (`testing.cpp` 123).

### What makes each component correct

* Mutex: it is a lock; only the holder accounts; a count is never above the
  acquisitions there were, and exact when no reset raced; `GetDetails` never
  tells of the future; try_lock never waits.
* Registry: the list is the set of live mutexes; the cache keeps nobody alive;
  a caller whose counter is current has the current list; no use after
  destruction of the mutex of the list.
* Metric sets: the list is sound; a loop variable is never dangling; an expired
  set is not brought back; GetAll gives a whole answer; there is one global set.
* Log: the text comes out once, in order and laid out, whatever cuts it; a line
  that fits the buffer is not torn; the column is where the text is.
* Indenters: each push is taken back once.
* CommandLineParser: Parse accepts what is well-formed; what a successful Parse
  sets is what the arguments say; what a failed one leaves behind is a prefix
  of that.
* UniqueLock: each locked mutex has one owner that will unlock it.
* Metric contents: the tree is whole whenever its mutex is free; ticks and
  samples differ by the AddTicks that a reset crossed and no more.
* Log objects: the list of tags has the logs that exist; each character comes out
  once unless its log was copied with it.
* Enums: after the validation, what a thread walks is legal.
* Testing: when a test fails each callback is called once, before the process ends;
  one that was removed is not, and one that is passed over is the price of
  a removal.
* Files: no failure is taken for a success or goes unreported.
* Backtrace: a call returns, gives back what it took, and shows for an address
  the symbol of that address.
* Thread names: a callback is called with its own context.
* Functions: what is taken apart, formatted or stored comes back.

## 2. The modules

    Lockable   <--refines--  Mutex          <-- MutexProofs
    LiveList   <--refines--  MutexRegistry  <-- MutexRegistryProofs
                             MetricSets     <-- Components
                             Log            <-- LogProofs, LogIndenter
                             Backtrace      <-- BacktraceProofs
                             CommandLineParser <-- CommandLineParserProofs
                             Components     <-- ComponentsProofs, MetricsProofs, MCComponents

    (A <-- B: B extends A. DataLemmas, about numbers and sequences, is extended by
    all modules of proofs but MutexProofs.)

    instantiated by Components:                                   (state machines)
        UniqueLock  ThreadNames  Testing  Enums  FileIO
        MetricContents  LogObjects  LogIndenter
                                                                  (functions)
        Paths
    instantiated by MCComponents:                                 (functions)
        Guids  LoadStore  TextLines  CStrings  EnumJson
        Reports  HelpLayout  Sha1Blocks  Sha1

An `MC` module extends the module of its name and adds what a configuration
cannot say: symmetry sets, prefixes, options and what strings look like. A
definition after the comment "Mutant:" is a plausible bug in the definition that
follows it, kept to show that the properties would find it.

`Components` has the parts that share no state with each other, side by side: their
variables, their constants and what is assumed of these, and the properties of
each by name. `MetricsProofs` proves those of metrics.cpp, `ComponentsProofs` the others,
and `MCComponents` checks them all.
In `MCComponents` they take turns.
`Init` picks one of them, `part`, and only that one moves, so a behaviour is one
of a single part and the parts do not multiply. A function has no steps:
`Init` picks an input, and the property speaks of that input.

### Mutex

One action is one access to state that another thread may touch.

| Code | Actions |
|---|---|
| `lock`, 271-324 | `LockBegin` reads the settings; `LockFastTake` or `LockFastMiss` is the `try_lock` in it; `LockSlowTake` is the wait; `AddRead`, `AddWrite` are the `++`; `LockExchange` is `reset.exchange(false)`; `LockEver`, `LockTicks`, `LockReport` the rest |
| `try_lock`, 326-347 | `TryBegin`, `TryTake` or `TryMiss`, the `++`, `TryCount`, `TryExchange` |
| `Reset`, 132-138, `RequestReset`, 140-146 | `ClearField` once per field of `stats = {}`, then `ResetDone` or `RequestDone` |
| `GetDetails`, 148 on | `GetDetails`, `CopyField` once per field, `LoadTryLocks`, `LoadEverLocked`, `NameLockShared`, `NameCopy` |
| `SetName`, settings, `unlock` | `SetName`, `SetNameLock`, `SetNameStore`, `SetInterestingEvents`, `SetAssumeFreeUncontendedLocks`, `Unlock` |

The counters are plain integers that `RequestReset`, `GetDetails` and a failed
`try_lock` touch without the mutex. In C++ that is a data race. The model takes
the outcomes that the build can produce on a machine whose word accesses are
atomic: `++` is a read and a write, a structure assignment or copy touches its
fields in any order, and nothing is torn within a word. The wait ticks are one
cell, written in one step, so no property speaks of them once a reset has been
asked for.

History variables, which no guard of the code reads: `due` is what each counter
should have reached since the last reset that the holder carried out,
`requested` whether a reset was ever asked for, `calls` bounds the model.

### MutexRegistry

A mutex of the program is a `Mutexes` element and goes through `phase`:
constructed before it takes the lock of the list (`ready`), between the two
halves of linking (`linking`), linked and not yet published (`linked`), alive,
and the same on the way down. `Walk` is the loop that `GetAllMetadata` runs from
the head. A caller polls `GetMetadataChangeCounter` and, when that moved, calls
`GetAllMetadata`, as `mutex.h` 84-93 tells it to; it keeps its copy of the vector
until it drops it. `Exit` destroys the globals of `mutex.cpp`, after which
mutexes that are globals of other files are still destroyed.

### MetricSets

A thread has a shared_ptr to the sets in `held`, and to those of the vector that
its `GetAll` is filling. `use_count` is derived from them. A set whose last
shared_ptr goes is `expired`, and the thread that dropped it destroys it: takes
the lock, unlinks, and is gone. `Visit` is one turn of the loop of `GetAll`;
`Throw`, `UnwindVector` and `UnwindLock` are what happens when
`shared_from_this` throws in it. `TestGlobal`, `CreateGlobal` and `ReturnGlobal`
are `GetGlobal`. `Exit` and `Exited` are `DeleteMetricsGlobals`.

### MetricContents

| Code (metrics.cpp) | Actions |
|---|---|
| `CreateTimerDef2`, 312-340 | `CreateTimerDef` takes the mutex, `LinkTimerDef` puts the definition into the list of its parent or of the roots, `OwnTimerDef` into the list of owners; `CreateForNoSet` is the dummy |
| `TimerDef::AddTicks`, 88-91 | `AddTicks`, `AddSample`: one atomic each |
| `TimerDef::Reset`, 66-69 | `ResetTicks`, `ResetSamples`, for each definition that `ResetTimerDefs` has found |
| `Counter`, `ResetCounters` | `Add`, `ResetCounter` |
| `CreateCounter`, `CreateDerivedValue` | `AddValue` |
| the getters | `GetVector` |

`early` and `late` count, for `TicksMatchSamples`, the AddTicks that were between
their two atomics when a reset began, and those that began within it.

### UniqueLock, ThreadNames, LogObjects

`UniqueLock` has one action per member function. The thread is not modelled: an
action that would have to wait is not enabled. `HeldWithout` is what the calls
of unlock in destructor, assignment and unlock leave locked.

`ThreadNames` splits `SetSetCurrentThreadNameCallback` into its stores, in either
order, and `SetCurrentThreadName` into the test of the function (`TestFn`) and the
call (`Tell`), which may use what was tested or what is there by then, since
the globals are plain.

`LogObjects` begins before main: files define their logs and tags in any order,
and the globals are destroyed in reverse. A copy or a move of a Log copies the
buffer; no text is laid out here, a character is a number.

### Enums, Testing, FileIO, Backtrace

`Enums`: traits are constructed at any time before the list is fixed; a thread
that calls `GetFirst` runs `EnsureEnumsInitialised` first, which tests and sets
the flag in one atomic step, and validates one enum per step. A failed assertion
ends the program (`aborted`). `Accepts` is the code of the validation,
`IsLegal` what the comments say, in terms of sets of bits. The constructor of the
traits and what initialises them is one step (`Construct`): traits are objects with
static storage, as the macros make them, so their thread has nobody beside it
that could look at a part. That a failed ASSERT ends the program is what
`HandleAssertFailed` does (`debug.cpp` 107-128) in all builds but one, and without
a debugger: in the configuration Final asserts are compiled out
(`CMakeLists.txt` 93), and under a debugger the program may be resumed
(`debug.cpp` 107). There nothing keeps an illegal enum from being walked, and
`WalkedAreLegal` says nothing of such a run.

`Testing`: `TestFailed` enters the loop, `CallNext` calls one callback, and until the
next call the callback may add and remove others or itself, end the process, or
fail a TEST, which begins a loop of its own; the macro ends the process when that
one is through, so the outer loop is never resumed. The vector holds the numbers
of the callbacks; a removal closes the gaps (`Without`), and an addition may move
the vector when it is as long as at the beginning of the loop or longer, because
below that it has room (`moved`). Where there is no element to read at the
position of the loop, what it does is undefined and the model stops (`lost`).
Which callbacks were added, removed, there at the failure, and removed before their
turn (`added`, `removed`, `atFailure`, `cancelled`) are histories of what the program
asked for, kept without a look at the vector, so that the property compares the
vector with them.

`FileIO` has one action per call of the system: each may fail, and a load and
a save may run at once in two threads. `MakeFolder` is one level of
`PathCreateFolder`.

`Backtrace`: one action per system call of `RunAddr2Line`, and the children as
processes of their own. `readers` and `writers` say who has which end of which
pipe open, which `fork` duplicates. How many symbols a pipe holds is a constant.
`ModuleRanges` has the merged ranges of each module, in the order that std::sort
leaves them in (`Sorted`: the k-th is the one with k beginnings up to its own),
and `Indexes` the addresses that are in one of them.

### The functions

Each is an operator that does what the C++ function does, on sequences of numbers
(characters, bytes) or of names, next to operators that say what is to be
true of its result: `SplitsBack`, `JoinsBack`, `ComparesInOrder` (`Paths`),
`ParsesBack` (`Guids`), `OrdersRight` (`LoadStore`), `EndingsEqual` (`TextLines`),
`CopiesWhatFits` (`CStrings`), `EnumComesBack`, `FlagsComeBack` (`EnumJson`),
`DumpShowsAll`, `PrintsBack`, `StringReportShows`, `BytesReportShows` (`Reports`),
`WrapsRight` (`HelpLayout`), `DigestOfWhole` (`Sha1Blocks`), `TestVectors` (`Sha1`).
`Sha1Blocks` takes the compression function as a constant operator: with `Append`
for it the digest is the list of blocks, which shows what was hashed.

### Log, LogIndenter

`c` lays a character out: the characters that it will hand to `RawChar` are put
in `todo`, and `RawChar` takes them one at a time, so that a flush may come in
between. `Lock`, `PrintChar` and `Flushed` are a `Print`, one character at a
time, so that another log may print in between when nothing forbids it. The
text of the printers is `text`; `wrote` keeps the characters that the program
wrote, and the indent at that moment, for `LaidOut` to lay them out at once.

### CommandLineParser

One turn of the loop of `Parse` is one action: `LongArg`, `ShortArg`, `OtherArg`;
one letter of "-abc" is `ShortLetter`, and `Finish` is what follows the loop.
`HandleOption` and `DoArgument` are functions from what the variables hold to
what they hold afterwards. `DoArgument` goes through the kinds of variables in
the order of the code and stops at the first that the text does not fit, so an
option that has several is written in part. `Parse` may be called again, and
options added in between.

The properties compare this loop with a meaning of the whole command line that
is not computed step by step: which arguments are taken by the short option in
front of them (`Taken`), the sequence of uses of options (`Uses`), which of them
are right (`WellUsed`), and what the first n of them leave in a variable
(`VariableAfter`, `FlagAfter`).

Two things that the model has because the code does, and no property speaks
against: "--" is the long option with an empty name, which the first option
without a long name is found for, and a size that is too large or negative is
converted as `strtoull` does, because no `uint64_t` is above `SIZE_MAX` on a
64-bit system.

## 3. The runs

Runs that pass:

| Run | Instance | What it shows |
|---|---|---|
| mutex_stats | 3 threads, 4 calls of lock, try_lock, RequestReset, unlock free | `OneAccountant`, `ExactCounts`, `NeverOverCounted`, `EverLockedCounts`, and that the mutex refines `Lockable` |
| mutex_calls | 2 threads, 3 calls of every operation, fairness | `WaitsConsistent`, `DetailsNotAhead`, `ContendedReported`, and `NonBlockingReturns`: nothing but lock waits for the holder |
| registry | 3 mutexes, 2 callers, 3 polls | `ListSound`, `CacheKeepsNoneAlive`, `KnownIsCurrent`, `LockedIsAlive`, and that the registry refines `LiveList` |
| log | 2 logs, 2 printers, buffer of 6 | `TextIntact`, `ShortLinesWhole`, `ColumnIsWhereTextIs` |
| command_line | any 2 of 5 options and the help option, command lines of 3 arguments in all | `AcceptsWellFormed`, `MeansWhatItSays`, `FailureStopsThere` |
| backtrace | 2 threads, 2 modules, 5 addresses, a pipe of 3, one failure, fairness | `CallsReturn`, `EverythingGivenBack`, `OwnSymbols` |
| components | one part at a time | see below |

The parts of the run components:

| Part | Instance | Property |
|---|---|---|
| sets (`MetricSets`) | 3 threads, 3 sets | `ListSound`, `SetsStayValid`, `AnswerComplete`, `OneGlobal` |
| contents (`MetricContents`) | 2 threads, 2 definitions, 1 counter, 1 derived value, 2 samples | `ContentsSound` |
| locks (`UniqueLock`) | 2 mutexes, 3 UniqueLocks, 1 LockGuard | `HeldByOne` |
| tests (`Testing`) | 2 contexts, 4 callbacks | `EachCalledOnce` |
| enums (`Enums`) | 2 threads, up to 2 of 16 descriptions | `WalkedAreLegal` |
| files (`FileIO`) | 2 contents, paths with 0 to 2 folders, 1 failure | `NoFalseSuccess` |
| indenters (`LogIndenter`) | 3 indenters, a stack of 2 | `PushesPaired` |
| names (`ThreadNames`) | 2 threads, 2 callbacks | `OwnContext` |
| logs (`LogObjects`) | 2 logs with tags, 1 more, 2 characters, 3 copies | `LogsSound` |
| functions | 33,000 inputs | `PathsRight`, `ConversionsRight`, `DigestsRight`, `FormatsRight` |

Runs that find what a comment says and the code does not do (section 7):
mutex_tries, registry_exit, metric_getall, log_indenter_leak,
command_line_default.

### The bounds, and why they are enough

* Three threads at one mutex: a holder, a thread that fails and consumes a
  reset, and one that asks for the reset, which is the worst meeting in the
  code. Four calls: each of these once, and one more after it to see what is
  left. `MaxCalls` bounds calls and not steps, so a call is always finished.
* Waits of 0 and 2 ticks and a `UINT64_MAX` of 3: the first wait, a shorter and
  a longer one after it. The proofs have no bound on either.
* Three mutexes: the first, the last and one in the middle of the list. Two
  callers: the one that regenerates the cache and the one that finds it. Three
  polls: one that fetches, one that finds its list current, one that finds it
  stale.
* Three sets and three threads: a loop in the middle of the list, a set that
  expires under it, and a set linked meanwhile; one of them may be the global.
* A buffer of 6 is filled by a prefix, ": " and two letters, so that lines of
  one letter fit and lines of two do not. Three characters written: two on a line
  and the end of it. One level of indent stack and two pushes overflow it.
* Two options are enough for one to hide the other, by its letter or by its name,
  and three arguments for a short option with an argument and something after
  it, for a wrong argument between two right ones, and for two command lines.
  The strings have a letter alone, two letters together, a number that fits an
  int and one that does not, and a word that is no number.
* Two threads with two modules each make four pipes, of which a child may inherit
  up to two that are not its own. A pipe of 3 and 4 symbols from one module: the
  child has to wait for room once. One failure, because each property names
  the one that excuses it.
* Two definitions are a root and its child, or two roots. With two samples one
  can be lost on each side of a reset.
* Three UniqueLocks are a source, a target that owns another mutex, and one that
  is empty.
* Four callbacks of two contexts: two to remove at once, a removal and an addition in
  one callback, after which the loop passes one over and still ends in the vector,
  and an addition more that moves it.
* An enum for each assertion that fails, each kind of legal one, and those that
  the code accepts although its comments do not; two of them, so that one
  is validated before or after the other. `FewEnums` bounds that number.
* Paths of up to five characters of a dot, both separators and a letter; texts of
  up to four characters with both line ends; messages of up to 26 bytes for a
  block of 8, so that padding takes one block and two; all integers of one, two and
  four bytes of 4 values, and some of eight.
* Symmetry is used for threads, mutexes, callers, sets, indenters and printers,
  none of which the modules order or choose among with CHOOSE, and never where
  a liveness property is checked.

Three configurations turn the deadlock check off, because the system may really
stop: `MCMetricSets_getall` (that is its finding), `MCBacktrace` (all calls have
returned, or a thread waits for a child that waits for it, which `CallsReturn`
names), and `MCComponents` (a failed test quits, an illegal enum aborts, a function
has no steps, and `MetricSets` is among the parts). Everywhere else it is on. A
state in which all calls have been made stutters by an action of its own
(`Finished`).

## 4. Fairness

Two modules have liveness properties.

`Mutex`: `FairSpec` is weak fairness of the steps of each thread inside a call:
the operating system schedules a thread that can run. Nothing obliges a thread
to make a call, and nothing obliges the holder to unlock. Nor is there strong
fairness of acquisition: `std::mutex` favours no waiter, so that a lock that
waits may wait for ever, and no property says otherwise.

`Backtrace`: weak fairness of each thread inside its call, and of each child: the
operating system schedules both, and addr2line writes what it has and ends. No
call has to begin and none has to fail. `CallsReturn` says that a call returns
unless a read of its own or another's was interrupted with more to come than
the pipe holds: then the child waits for room and the parent for the child.

## 5. What is proved

All theorems are about the specifications that the runs check, for every value
of the constants that satisfies the named assumptions of the module. "By
induction" means: an invariant `Inv` with `Init => Inv`, `Inv /\ [Next]_vars => Inv'`
and `Inv => P`. TLC has checked each `Inv` on a small instance, but for the
conjuncts that only say that something is a sequence or a function of any kind.

| Module | Theorem | Says |
|---|---|---|
| `MutexProofs` | `Invariance` | `Inv` is an inductive invariant of `Mutex` |
| | `TypeCorrect` | `[]TypeOK` |
| | `Accounting` | `[]OneAccountant` |
| | `CountsBounded` | `[]NeverOverCounted` |
| | `CountsExact` | `[]ExactCounts` |
| | `CountedLocksShow` | `[]EverLockedCounts` |
| | `WaitsFit` | `[]WaitsConsistent` |
| | `SnapshotsNotAhead` | `[]DetailsNotAhead` |
| | `OnlyContendedReported` | `[]ContendedReported` |
| | `Refinement` | `Spec => RefinesLockable` |
| `MutexRegistryProofs` | `RegistryInv` | `Inv` is an inductive invariant of `MutexRegistry` |
| | `RegistryStaysSound` | `[]ListSound` |
| | `CacheKeepsNone` | `[]CacheKeepsNoneAlive` |
| | `CounterMeansList` | `[]KnownIsCurrent` |
| | `ListMutexStaysAlive` | `[]LockedIsAlive` |
| | `RegistryImplementsLiveList` | `Spec => RefinesLiveList` |
| `MetricsProofs` | `MetricSetsInv` | `Inv` is an inductive invariant of `MetricSets` |
| | `ListStaysSound` | `[]ListSound` |
| | `NoSetComesBack` | `[]SetsStayValid` |
| | `GetAllIsComplete` | `[]AnswerComplete` |
| | `GlobalIsOne` | `OneGlobal`, an action property |
| | `ContentsAlwaysSound` | `[]ContentsSound` (`MetricContents`) |
| `LogProofs` | `LogInv` | `Inv` is an inductive invariant of `Log` |
| | `TextComesOutIntact` | `[]TextIntact` |
| | `ColumnIsRight` | `[]ColumnIsWhereTextIs` |
| | `LinesStayWhole` | `[]ShortLinesWhole` |
| `CommandLineParserProofs` | `AcceptsWellFormedOnly` | `[]AcceptsWellFormed` |
| | `AlwaysMeansWhatItSays` | `[]MeansWhatItSays` |
| | `FailureAlwaysStopsThere` | `[]FailureStopsThere` |
| `BacktraceProofs` | `JobsGiveBack` | `[]EverythingGivenBack` |
| | `SymbolsAreOwn` | `[]OwnSymbols` |
| `ComponentsProofs` | `OneOwner` | `[]HeldByOne` (`UniqueLock`) |
| | `OwnContextAlways` | `[]OwnContext` (`ThreadNames`) |
| | `CallbacksCalledOnce` | `[]EachCalledOnce` (`Testing`) |
| | `WalkedAlwaysLegal` | `[]WalkedAreLegal` (`Enums`) |
| | `NoFalseSuccessEver` | `[]NoFalseSuccess` (`FileIO`) |
| | `LogsAlwaysSound` | `[]LogsSound` (`LogObjects`) |
| | `PushesAlwaysPaired` | `PushesPaired`, an action property (`LogIndenter`) |
| | `PathsAlwaysRight` | `PathsRight`, whenever the inputs are sequences of integers (`Paths`) |

### The assumptions

* `Mutex`: `NoOwner` is no thread, waits are natural numbers below `UINT64_MAX`
  with 0 among them, `NoName` is a name, the event sets are sets of the two
  events, and `MaxCalls` is a natural number.
* `MutexRegistry`: `None` is neither a mutex nor a caller, there are finitely many
  mutexes (`MutexesAssumption`; the walk of a list that never ends gives no
  answer), and a caller is not a mutex.
* `MetricSets`: `None` is neither a set nor a thread; both are finite
  (`FiniteAssumption`; `use_count` counts them).
* `Log`: the buffer has room for a character and what ends the string, an indent
  changes by an integer (`DeltasAssumption`), and a prefix is a text within a
  line: it has no newline, no carriage return, and not the mark that stands for
  an assignment (`PrefixAssumption`). A program that puts a newline into a prefix
  gets what `Log` prints, and the column is then wrong.
* `CommandLineParser`: an int has bounds, a number is an integer or none, the
  text after "=" in an argument is a text, and a variable has one of the types
  that `Option::Arg` is overloaded for (`RangeAssumption`, `NumberAssumption`,
  `ShapeAssumption`, `KindsAssumption`). No option that a program adds writes to
  `m_help`, which is private, and the variables hold values of their types at the
  start (`OptionsAssumption`, `DefaultAssumption`, `TargetsAssumption`). Nothing is
  assumed of which options there are, how they share letters, names and
  variables, or of the command lines.
* `Backtrace`: the number of modules and the size of a pipe are natural numbers
  (`SizesAssumption`); the lines of /proc/PID/maps are not empty and not for the
  same memory, which the kernel sees to (`MapsAssumption`); each name is once among
  the names, which are keys of a std::map (`NamesAssumption`); and addr2line prints
  a pair of lines at least for each address, "??" if it knows nothing
  (`FramesAssumption`). How the lines are ordered, which of them touch, and how
  many calls are inlined where, is left open.
* `Components`: what stands for null is no object (`LocksAssumption`,
  `ContentsAssumption`, `IndentersAssumption`), a Log that is defined is not a copy
  (`LogsAssumption`), what is saved are bytes (`FilesAssumption`), and the descriptions
  of enums are what the macros can make: integers, in fields of some width, an
  enum of some number of bits (`EnumsAssumption`). `MAX_BITS` is any natural number.

### Induction over data

The library's induction theorems take a predicate, which these provers cannot
instantiate. `DataLemmas` states induction of a set instead: a set of natural
numbers that is not empty has a least one (`LeastNumber`, from
`NatLessThanWellFounded` and `WFMin`), so a set that has 0 and the successor of
each of its numbers has all of them (`EveryNumber`, `EveryNumberTo`). With it a
function that is defined by recursion is shown to exist and to have the values
that its definition says: `Walk` of the registry (`Iterates`, `Iteration`), which
is then the list; `FlattenSeq`, which `Log` lays a text out with, `Testing` removes
with and addr2line prints with (`FlattensExists`, `FlattensUnique`), which adds
one piece at a time (`FlattenAppend`) and is as long as its pieces as far as they
are single (`FlattenBehindSingles`); and any fold along a number of steps, as
`Merge` of the ranges of a module, or the powers and masks of `Enums`
(`FollowsFrom`, `Recurs`: there is one, of the type of its steps). The equation is
always kept behind an operator of the values, which the provers can instantiate.

### Mutex

    Inv == TypeOK /\ FrameInv /\ OneAccountant /\ CountInv /\ ExactInv /\ EverInv

* `FrameInv` says what the locals of a call are at each place of it: which cells
  an update still has to reach, that a read register belongs to one of them, and
  where a reset returns to. Without it `AddWrite` could be enabled anywhere.
* `OneAccountant` is what makes a read-then-write of a counter safe against
  another one: two threads in it would both be the owner.
* `CountInv` strengthens `NeverOverCounted` to the middle of an update and of a
  reset. A counter that the accountant has yet to bump is at most `due - 1`,
  and so is the value it has read, which may be older than a reset and is never
  newer than what is due (`PendingInv`): without it the write of a `++` that a
  reset has overtaken could break the bound. An owner in the middle of a reset
  finds what it has cleared still clear (`ClearInv`): without it the counters
  might not be 0 when the end of the reset puts `due` back to 0.
* `ExactInv` is the same with equality, until a reset is asked for: `stats` is
  `due` but for the counters still to bump.
* `EverInv` says who will set `ever_locked` when a mutex counts locks and does
  not have it yet: a thread that is past its `++` and still inside lock.

Two more invariants stand on `Inv`. `TicksInv` says that n waits fit between n
times the shortest and n times the longest, where n is the number of locks due,
less the one whose owner has not come to its ticks (`Untimed`). `ReportInv` says
that a lock that waits for the mutex, or has it and may still report a
ContendedLock, knows that it was contended.

For the refinement, `CallOf` maps where a thread is to what `Lockable` says its
call is doing. The steps of accounting are stutters; the attempts are the
abstract attempts. It needs `SeekInv`, that a thread that has yet to attempt
the mutex, or has missed it, is not its owner.

### MutexRegistry

    Inv == TypeOK /\ HolderInv /\ NodeInv /\ CallerInv /\ RingInv /\ VersionInv /\ CacheInv
             /\ CacheKeepsNoneAlive /\ KnownIsCurrent

`RingInv` says that the links are a sequence of all linked mutexes whose ends
meet. A pointer of the code is then a position of the sequence, linking at the
end is `Append` and unlinking is `RemoveAt`, and `Walk`, which follows the links
from the head until it is back there, is the sequence. `HolderInv` gives
one critical section at a time. `CacheInv` is what `GetAllMetadata` relies on:
outside of a critical section that changes the list, a cache with the list's
counter is the list. `KnownIsCurrent` follows for the copies that callers have.

`RegistryImplementsLiveList` maps the list to `Walk`. The counter goes up in a
step of its own after the links are changed, so between the two (`Changing`) the
abstract version is already the next one.

### MetricSets

    Inv == TypeOK /\ HolderInv /\ OwnInv /\ OwnersInv /\ GlobalInv /\ ExitInv /\ VectorInv /\ ListInv

`OwnInv` gives each set that is being made or destroyed one thread that does it, and
`OwnersInv` says who can have a `shared_ptr` to a set in each of its phases; `UseCount`
relates `use_count`, a sum of cardinalities, to them. `ListInv` has the list as a
sequence, and for a `GetAll` the position in it that it has come to: what it
has collected is exactly what is beyond (`LooksFrom`). `VectorInv` and `ExitInv`
keep the odd corners apart: a thread that throws out of the loop keeps the
vector and the lock, and after `DeleteMetricsGlobals` only destructions remain.

### Log

    Inv == StateInv /\ LayInv /\ LineInv

* `StateInv`: where a call is and what its buffer may be like there. A newline is
  only ever the last character of a buffer that is being flushed, and who
  prints holds the mutex of its printer.
* `LayInv`: `Shown`, which is what was printed of a log and the rest of its buffer,
  is the laid out text less what the call still owes: the rest of the margin `a`
  and of the body `b` of the last character. `k` is where the line began. So at
  each step either the printer's text, the buffer, or what is owed changes, and
  together they stay the same; the column is the distance from `k`.
* `LineInv`: the line that a log is in has nothing in the text until its buffer is
  printed, unless it was flushed early or has filled a buffer; while a buffer
  is printed, what there is of the line is in one piece (`Together`), because no
  other thread prints to that printer meanwhile (`OnePrints`).

### CommandLineParser

    CmdInv == Types /\ Going /\ Accepts /\ MeansWhatItSays /\ FailureStopsThere

The properties speak of the finished command line at once; the invariant has to
say the same of the part that `Parse` has seen. `Going`: the argument at the
position is not one that the option before it takes, the uses met so far (`Met`)
were all right, the flags and variables hold what the first `Met` uses leave in
them (`Holds`), and the list has the other arguments up to the position. So that
this can be said of a part, and compared before and after a step, the operators
of the meaning are stated once more with what they depend on as parameters
(`UsesTo`, `FlagFrom`, `VariableFrom`), and lemmas show that they are the same. The heart
is that one more use changes what is left in a variable exactly as `HandleOption`
does (`Holds` from n to n + 1), and that a use that fails half way leaves each
variable as before it or as after it. `UsesTo` grows by one argument at a time,
and `Taken`, a recursion along the command line, is unfolded by induction.

### Backtrace

    OwnInv == TypeOK /\ JobInv /\ PipeInv /\ FlowInv /\ SymbolsInv

`JobInv` says of each job of a call, from where its thread is, whether the parent
has ends of its pipe and whether its child may be left: a job that it has not
come to has neither, one that it has left has given both back. `PipeInv` is what
the types need: each pipe holds a sequence. `JobsGiveBack` needs no more.

For `SymbolsAreOwn`, `FlowInv` says that nothing is lost between addr2line and
`Parse`: what was read, what is in the pipe and what the child has still to write
are together what addr2line has for the job, or nothing. So what was read is a
beginning of it, and all of it when no read failed. The rest is about data: the
rank of a number in a finite set is a bijection (`RankBounds`, `RankGrows`,
`RankOnto`), so `InOrder` and `Sorted` sort; merging keeps what is covered and where the
first range begins (`MergedRight`); no address is in two modules (`NoAddressOfTwo`);
hence the offset plus the load address is the address again, and the p-th pair
belongs to the p-th index, as long as the ones before it are single (`Addr2LineRight`).

### The parts of Components

* `UniqueLock`: `HeldByOne` needs one more conjunct to be inductive: an object
  that is not alive refers to no mutex, so that a constructor overwrites
  nothing. `HeldWithoutMine` says what a release takes away; `Releases` that it
  concerns nobody else.
* `ThreadNames`: the invariant follows each global: it is current, or some thread
  has still to store it (`GlobalsInv`), and what is stored is current
  (`SettersInv`). So when nobody sets a callback, both globals are, which
  `UndisturbedInv` keeps for a thread from its test to its call.
* `Testing`, `TestsInv`: the vector has what was added and not removed, in order
  (`VectorInv`, from what a removal leaves of an increasing sequence, `WithoutSome`);
  what the loop has called is before all that is in front of it (`LoopInv`), so
  nothing is called twice; and as many callbacks were there when the loop began as
  it has steps, with all that are new behind them (`BeginningInv`). Hence those of
  the beginning that are left are in the reach of the loop (`InReach`). At its end
  it has called as many as it has steps; those it missed and those it called that
  are not removed are different elements within its reach, so there is one
  removed among the called ones for each that was missed (`MissedAreFew`).
* `Enums`, `EnumsInv == EnumsKept /\ (~aborted => EnumsOrdered)`: one thread ensures;
  what it has validated, `Accepts` took; when it is through, the list is fixed.
  That what `Accepts` takes is legal is the other half: the code compares numbers
  and masks, the comments speak of bits. `Power2Sum`, `MaskOfRange` and
  `FieldIsMask` relate the two, for enums of any number of bits.
* `FileIO`, `FilesInv`: where a load and a save are, and what each knows there.
  `LoadInv` compares with the file as it was when the load began, as long as no
  save has touched it (`alone`). `SaveInv` says that what is in the file and what
  is still in the buffer of the stream make up the data.
* `MetricContents`, `ContentsInv`: who holds the mutex is in the middle of a change
  (`HoldersInv`). `CountInv` has the difference of ticks and samples of each
  definition, corrected by the threads between its two atomics; a reset between its
  two stores is a case of its own (`InReset`). `TreeInv` says that a parent is
  older than its children in the list of owners, which is why a walk from the
  roots ends and meets each definition once.
* `LogObjects`, `LogsInv`: among the globals each tag comes right after its log
  (`TagsInv`), so that what is destroyed next is never the log of a tag. A
  character is in the output and in buffers once in all, but for copies
  (`OutInv`), because no buffer has it twice (`BuffersInv`).
* `LogIndenter`, `IndentersInv`: each push that is due belongs to an indenter that
  exists (`OnePushEach`), and the stack has the indents from before the pushes, as far
  as it goes; deeper ones have changed nothing (`StacksInv`).
* `Paths`: its functions have no steps, so `PathsAlwaysRight` needs no invariant. The
  last separator and the dot are greatest positions (`GreatestPosition`), which
  cut a path in two (`CutAt`). Joining is concatenation, with a separator between
  if there is none (`JoinedCases`). `PathCompare` looks at the first place at which
  two paths differ (`CompareIs`); of ASCII paths it is the order of a dictionary in
  which the end of a word comes first (`AsciiOrder`), and that is transitive.

A proof of an invariant has one lemma per action or group of actions that
touches the same variables, and one step per action under the theorem.

## 6. What is only model-checked

* Liveness (`NonBlockingReturns`, `CallsReturn`): neither fairness nor ENABLED is
  within the prover's reach.
* The functions but for those of paths (`ConversionsRight`, `DigestsRight`,
  `FormatsRight`): they compute what they compute by recursion over their input,
  some of it with RECURSIVE operators, and their properties are equations between
  two such recursions.

Every other property of a run that passes is a theorem of section 5.

## 7. Findings

1. `mutex.cpp` 342: a try_lock that failed carries out a reset without the mutex;
   it can end with more successful try_locks than try_locks (mutex_tries).
2. `mutex.cpp` 107: a global Mutex may be destroyed after the cached vector,
   which its destructor clears. The mutex of the list is kept alive for it, the
   vector is not (registry_exit).
3. `metrics.cpp` 353: `shared_from_this` is tested for null, but throws. When
   GetAll meets an expired set it throws, and the unwinding may destroy another
   set under the lock that its destructor takes (metric_getall).
4. `log.cpp` 450: an indenter that is moved onto another makes that one forget
   its pop (log_indenter_leak).
5. `CommandLineParser.cpp` 280 and 460: the help that a command line asks for shows
   the values that the same command line has set as the defaults
   (command_line_default).

Seen in the code, without a run:

* `mutex.cpp` 336: a mutex that is only taken by try_lock never has `ever_locked`
  set, in spite of the comment.
* `metrics.h` 166 promises "a valid, dummy Counter"; CreateCounter with a null set
  returns null. `Counter::name` hides `Value::name` and stays empty.
* `metrics.h` 187 says that GetGlobal is safe at any time; after
  DeleteMetricsGlobals it dereferences null.
* `path.h` 76 says "as per strcmp", but `path.cpp` 175 compares signed characters, and
  when one path begins the other and the next byte is 128 or more, each is
  less than the other. `ComparesInOrder` is therefore about ASCII.
* `path_posix.cpp` 95: PathCreateFolder fails for a path without a folder, so saving
  to a bare file name with SaveFlag_CreateFolder always fails. `SaveTells` excuses
  it. PathGlob returns -1, which is true, from a bool.
* `enums.cpp` 234: the largest value of an unsigned enum may be one more than
  fits; line 266 compares the values of an enum in a field with a mask that is
  shifted; line 191 tests the wrong thing for the Count of a signed enum.
  `IsLegal` says what is excused.
* `testing.cpp` 123: a callback that removes itself, as the destructor of a
  TestFailFnAdder does, destroys the std::function that is running; the next
  callback is passed over, and the loop then reads an element that is not there,
  unless as many are added. A callback whose own TEST fails is called again by the
  loop that this begins, and so without end if it fails each time. `EachCalledOnce`
  says how far the loop goes wrong and when.
* `enums.cpp` 135: a thread that finds the flag set walks enums at once, also while
  the first one is still validating them. `WalkedAreLegal` speaks of the time
  when nobody is.
* `system.cpp` 24: a thread that names itself while another sets the callback may call
  the new function with the old context; if two set it at once, the pair may
  stay mixed. `OwnContext` is about threads that nobody disturbs.
* `log.h` 102: a Log that is copied or moved with text in its buffer prints that text
  twice, and one that is assigned to loses what it had. `EachComesOut` excuses
  those characters.
* `guid.cpp` 123: a Guid that turns out malformed has overwritten the first bytes of
  the caller's. `ParsesBack` says which.
* `testing.cpp`: the report on unequal bytes highlights the wrong offset when its
  window does not begin at 0, and the one on unequal strings may read past the
  shorter string.
* `file_io.cpp` 183: the result of fclose is ignored, where a buffered write fails
  last. Line 138: a file that has grown since its size was asked is loaded in part,
  as a success. `SaveTells` and `LoadTells` excuse these two.
* `system_linux.cpp` 153: a read that fails is ignored, and when the child has more to
  write than the pipe holds, waitpid waits for ever (`Stuck`). Line 159: a waitpid
  that a signal interrupts is taken for a failure and the child stays
  (`waitFailed`). `CallsReturn` and `EverythingGivenBack` excuse these two.
* `system_linux.cpp`: with `-i`, an address in an inlined call gives addr2line more
  than two lines, and the symbols after it move to the wrong addresses.
  `OwnSymbols` is about the addresses before.

## 8. Not modelled, and why

* Which ticks pass. `Mutex` chooses a wait from `Waits`; overhead ticks and
  `start_ticks`, which nothing depends on, are left out.
* Two threads in one `Log`: a log is documented as one thread's, and its
  race has no outcomes worth enumerating.
* SetPrefix, and the member `enabled` of a Log that a program sets itself.
* The columns of the help, a Help that the program asks for itself, and copies of
  a parser, whose help option writes to the parser it was copied from.
* The destination of a printer, the text of messages, the reports of `debug.cpp`,
  and the comparisons of single values in `testing.cpp`: formatting. So is
  LogStackTrace.
* Calls into the metrics after `DeleteMetricsGlobals`, other than the
  destruction of sets that are still held: they dereference null.
* PathGlob, the paths of executables and assets, the size of a file, sleeping,
  thread priorities: single calls of the operating system.
* The macros that make the descriptions of enums; the listing of enums that a
  build may print.
* Third-party code: the relacy support.
* OS X and Windows variants, which are calls of those systems.

## 9. The plan

The modules of section 2 are done. What is left of the code is in section 8.

Of the properties only liveness and those of the functions of section 6 are without
a theorem, for the reasons given there.
