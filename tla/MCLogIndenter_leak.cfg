\* Is every push taken back?
SPECIFICATION SpecIndenters
CONSTANTS
  Logs = {A}
  Printers = {p1}
  None = None
  Indenters = {i1, i2, i3}
  Prefix <- NoPrefix
  MAX_BUFFER_SIZE = 4
  MAX_INDENT_STACK_DEPTH = 2
  Deltas = {}
  MaxWritten = 3
  MaxIndents = 6
  MaxOther = 0
SYMMETRY Symmetry
INVARIANTS IndentTakenBack
