\* What GetAll does with a set that is expired.
SPECIFICATION Spec
CONSTANTS
  Threads = {t1, t2}
  Sets = {s1, s2, s3}
  None = None
SYMMETRY Symmetry
CHECK_DEADLOCK FALSE
INVARIANTS NeverWaitsForItself
