\* Two logs, two printers, a buffer that a line of two letters fills.
SPECIFICATION Spec
CONSTANTS
  A = A
  B = B
  Logs <- TwoLogs
  Printers = {p1, p2}
  None = None
  Prefix <- OnePrefix
  MAX_BUFFER_SIZE = 6
  MAX_INDENT_STACK_DEPTH = 1
  Deltas = {1}
  MaxWritten = 3
  MaxIndents = 2
  MaxOther = 1
SYMMETRY Symmetry
INVARIANTS TextIntact ShortLinesWhole ColumnIsWhereTextIs
