----------------------------- MODULE Components -----------------------------
(***************************************************************************)
(* The parts of the library that share no state with each other: the list  *)
(* of metric sets, and, each as an instance of its module, the others that *)
(* have states; and the functions of paths.  What each promises is named   *)
(* here once, for the runs and for the theorems.                           *)
(***************************************************************************)
EXTENDS MetricSets, Integers

CONSTANTS
  TwoThreads,                                                  (* Enums, MetricContents, ThreadNames *)
  Callbacks, NoCallback,                                       (* ThreadNames           *)
  Defined, Copies, MaxChars, MaxCopies,                        (* LogObjects            *)
  Mutexes, UniqueLocks, LockGuards, NoMutex,                   (* UniqueLock            *)
  Contexts, MaxFns,                                            (* Testing               *)
  Descriptions, MAX_BITS,                                      (* Enums                 *)
  Contents, Depths, MaxFailures,                               (* FileIO                *)
  Defs, Counters, Derived, NoParent, Nobody, MaxSamples,       (* MetricContents        *)
  Logs, Printers, Indenters, MAX_BUFFER_SIZE,                  (* LogIndenter           *)
  MAX_INDENT_STACK_DEPTH, Deltas, MaxWritten, MaxIndents, MaxOther

VARIABLES alive, m_mutex, m_locked, lockedMutexes
VARIABLES g_fail_fns, testPhase, nextFn, stopFn, vectorMoved, called, added, removed, atFailure, cancelled
VARIABLES first_traits, initialised, fixed, doing, toValidate, walked, aborted
VARIABLES depth, folders, file, failures, load, save
VARIABLES setMutex, m_parent, m_children, m_root_timer_defs, m_all_timer_defs, m_all_values,
          ticks, samples, m_value, dummy_timer_def, frame, answer, early, late, total
VARIABLES enable_count, enabled, bol, column, indent, indent_stack, stack_depth, buffer, printer,
          printerHolder, logPc, todo, printed, to, text, wrote, before, asked, indents, calls,
          m_log, made, gone
VARIABLES g_callback, naming, setting, unset, tested, current, undisturbed, told
VARIABLES logPhase, globals, ms_first, living, m_buffer, output, chars, times, copied, overwritten
VARIABLE input      (* what a function is called with                      *)

(* No object owns the mutex that it has when it has none.                  *)
ASSUME LocksAssumption == NoMutex \notin Mutexes

(* What is saved are sequences of bytes, and folders are counted.          *)
SavedBytes == UNION {ToSet(c) : c \in Contents}
ASSUME FilesAssumption == Contents \subseteq Seq(SavedBytes) /\ Depths \subseteq Nat

(* What the macros of enum_def.h make: numbers, and fields of some width.  *)
EnumValues ==
  [value : Int, shift : Int, width : Nat, enum : {"none", "signed", "unsigned"}, values : SUBSET Int,
   limit : BOOLEAN]
ASSUME EnumsAssumption ==
  /\ MAX_BITS \in Nat
  /\ Descriptions \subseteq [signed : BOOLEAN, bits : Nat, wip : BOOLEAN, hash : {"none", "right", "wrong"},
                             values : Seq(EnumValues)]

(* A log that is defined is no copy.                                       *)
ASSUME LogsAssumption == Defined \intersect Copies = {} /\ MaxChars \in Nat

(* Nobody is no thread, and the null parent no definition.                 *)
ASSUME ContentsAssumption == Nobody \notin TwoThreads /\ NoParent \notin Defs /\ MaxSamples \in Nat

(* No indenter refers to a log when it is null.                            *)
ASSUME IndentersAssumption == MAX_INDENT_STACK_DEPTH \in Nat /\ None \notin Logs

NoPrefix == [l \in Logs |-> <<>>]

U == INSTANCE UniqueLock WITH held <- lockedMutexes
T == INSTANCE Testing WITH phase <- testPhase, next <- nextFn, stop <- stopFn, moved <- vectorMoved
E == INSTANCE Enums WITH Threads <- TwoThreads
F == INSTANCE FileIO
M == INSTANCE MetricContents WITH Threads <- TwoThreads, m_mutex <- setMutex
L == INSTANCE LogIndenter WITH Prefix <- NoPrefix, holder <- printerHolder, pc <- logPc
N == INSTANCE ThreadNames WITH Threads <- TwoThreads, doing <- naming
O == INSTANCE LogObjects WITH phase <- logPhase
Path == INSTANCE Paths

locks == <<alive, m_mutex, m_locked, lockedMutexes>>
tests == <<g_fail_fns, testPhase, nextFn, stopFn, vectorMoved, called, added, removed, atFailure, cancelled>>
enums == <<first_traits, initialised, fixed, doing, toValidate, walked, aborted>>
files == <<depth, folders, file, failures, load, save>>
contents == <<setMutex, m_parent, m_children, m_root_timer_defs, m_all_timer_defs, m_all_values,
              ticks, samples, m_value, dummy_timer_def, frame, answer, early, late, total>>
indenters == <<enable_count, enabled, bol, column, indent, indent_stack, stack_depth, buffer, printer,
               printerHolder, logPc, todo, printed, to, text, wrote, before, asked, indents, calls,
               m_log, made, gone>>
names == <<g_callback, naming, setting, unset, tested, current, undisturbed, told>>
logs == <<logPhase, globals, ms_first, living, m_buffer, output, chars, times, copied, overwritten>>

-----------------------------------------------------------------------------
(* Each mutex that is locked is owned by one object, however objects are   *)
(* moved (mutex.h:213).                                                    *)
HeldByOne == U!HeldByOne

(* When a test fails, each callback is called at most once and in order,   *)
(* and none that was removed before its turn, whatever callbacks add and   *)
(* remove; no more miss their turn than were called and removed after      *)
(* that, and the loop only leaves the vector when an addition has moved it *)
(* or a callback of the beginning was removed (testing.cpp:123).           *)
EachCalledOnce == T!EachCalledOnce

(* When nobody is in the middle of the validation, all the enums that any  *)
(* thread has got from GetFirst are legal (enums.cpp:135).                 *)
WalkedAreLegal == E!WalkedAreLegal

(* LoadFile and SaveFile report every failure, and report success only if  *)
(* the data is what is in the file, except for what happens behind their   *)
(* backs (file_io.cpp:138 and 183).                                        *)
NoFalseSuccess == F!NoFalseSuccess

(* While its mutex is free the definitions of a set are a forest that a    *)
(* walk from the roots meets once each, and ticks and samples differ only  *)
(* by the AddTicks that a reset crossed (metrics.cpp:66 and 336).          *)
ContentsSound == M!ContentsSound

(* Pushes and pops of indenters match, also deeper than the stack of the   *)
(* log (log.cpp:388); and however indenters are moved and popped early,    *)
(* each takes back no more than the one push that it has made.             *)
PushesPaired == L!PushesPaired

(* A thread that names itself while nobody sets a callback tells the one   *)
(* that was set last, with its own context (system.cpp:24).                *)
OwnContext == N!OwnContext

(* The list of tags has the logs that exist, and each character that is    *)
(* written comes out once, unless its log is copied meanwhile (log.h:102). *)
LogsSound == O!LogsSound

(* A path is taken apart and put together again without loss, and          *)
(* PathCompare orders paths of ASCII characters (path.cpp:175).            *)
PathsRight ==
  /\ input.of = "one path" => Path!SplitsBack(input.a)
  /\ input.of = "paths" => Path!JoinsBack(input.a, input.b, input.c) /\ Path!ComparesInOrder(input.a, input.b, input.c)
=============================================================================
