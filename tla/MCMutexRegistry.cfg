\* Three mutexes, two threads that poll, three polls in all.
SPECIFICATION Spec
CONSTANTS
  Mutexes = {m1, m2, m3}
  Callers = {c1, c2}
  None = None
  MaxCalls = 3
SYMMETRY Symmetry
INVARIANTS ListSound CacheKeepsNoneAlive KnownIsCurrent LockedIsAlive
PROPERTIES RefinesLiveList
