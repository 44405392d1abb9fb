\* Two mutexes and the end of the program.
SPECIFICATION Spec
CONSTANTS
  Mutexes = {m1, m2}
  Callers = {c1}
  None = None
  MaxCalls = 1
INVARIANTS GlobalsInUseAlive
