\* The operations that write the statistics: three threads, four calls in all.
SPECIFICATION Spec
CONSTANTS
  Threads = {t1, t2, t3}
  NoOwner = NoOwner
  Waits = {0}
  UINT64_MAX = 3
  Names = {""}
  NoName = ""
  EventSets = {{}}
  Operations = {"lock", "try_lock", "RequestReset"}
  MaxCalls = 4
SYMMETRY Symmetry
INVARIANTS TypeOK OneAccountant ExactCounts NeverOverCounted EverLockedCounts
PROPERTIES RefinesLockable
