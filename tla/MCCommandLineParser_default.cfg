\* The defaults in the help.
SPECIFICATION Spec
CONSTANTS
  Texts = {"-v", "-vn", "--all=9", "--all=one", "--help", "1", "9", "one"}
  Shape <- SmallShape
  Number <- SmallNumber
  NaN = NaN
  None = None
  NoName = ""
  Flags = {"verbose", "m_help"}
  Variables = {"str", "list", "num", "size", "enum"}
  KindOf <- SmallKinds
  Default <- SmallDefault
  Options <- SmallOptions
  INT_MIN <- SmallMin
  INT_MAX = 2
  SIZE_MAX = 3
  MaxOptions = 2
  MaxArgs = 3
INVARIANTS ShownIsDefault
