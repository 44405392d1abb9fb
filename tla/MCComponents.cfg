\* Some of each: a few objects, two threads, one file, and the inputs of the functions.
SPECIFICATION MCSpec
CONSTANTS
  Mutexes = {m1, m2}
  UniqueLocks = {u1, u2, u3}
  LockGuards = {g1}
  NoMutex = NoMutex
  Contexts = {c1, c2}
  MaxFns = 4
  Threads = {t1, t2, t3}
  Sets = {s1, s2, s3}
  TwoThreads = {t1, t2}
  MAX_BITS = 4
  Descriptions <- EnumDescriptions
  Callbacks = {f1, f2}
  NoCallback = NoCallback
  Defined = {l1, l2}
  Copies = {l3}
  MaxChars = 2
  MaxCopies = 3
  BITS = 4
  Contents <- FileContents
  Depths = {0, 1, 2}
  MaxFailures = 1
  Defs = {d1, d2}
  Counters = {k1}
  Derived = v1
  NoParent = NoParent
  Nobody = Nobody
  MaxSamples = 2
  Logs = {A1}
  Printers = {p1}
  None = None
  Indenters = {i1, i2, i3}
  MAX_BUFFER_SIZE = 4
  MAX_INDENT_STACK_DEPTH = 2
  Deltas = {}
  MaxWritten = 2
  MaxIndents = 6
  MaxOther = 0
  BYTE = 4
  NULL = NULL
  INDENT = 2
  NARROW = 12
CONSTRAINT FewEnums
INVARIANTS ListSound SetsStayValid AnswerComplete
  HeldByOne EachCalledOnce WalkedAreLegal NoFalseSuccess ContentsSound OwnContext LogsSound
  PathsRight ConversionsRight DigestsRight FormatsRight
PROPERTIES OneGlobal PushesPaired
CHECK_DEADLOCK FALSE
