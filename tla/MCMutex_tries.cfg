\* The comment on num_try_locks.
SPECIFICATION Spec
CONSTANTS
  Threads = {t1, t2}
  NoOwner = NoOwner
  Waits = {0}
  UINT64_MAX = 3
  Names = {""}
  NoName = ""
  EventSets = {{}}
  Operations = {"try_lock", "RequestReset"}
  MaxCalls = 3
INVARIANT TryLocksAccounted
