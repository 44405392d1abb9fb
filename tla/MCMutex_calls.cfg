\* Every operation, with fairness: two threads, three calls in all.
SPECIFICATION FairSpec
CONSTANTS
  Threads = {t1, t2}
  NoOwner = NoOwner
  Waits = {0, 2}
  UINT64_MAX = 3
  Names = {"", "m"}
  NoName = ""
  EventSets = {{"ContendedLock"}}
  Operations = {"lock", "try_lock", "RequestReset", "GetDetails", "SetName", "SetInterestingEvents", "SetAssumeFreeUncontendedLocks"}
  MaxCalls = 3
INVARIANTS WaitsConsistent DetailsNotAhead ContendedReported
PROPERTIES NonBlockingReturns
