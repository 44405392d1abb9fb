\* Two threads, two modules, a pipe with room for three symbols of the four.
SPECIFICATION Spec
CONSTANTS
  Threads = {t1, t2}
  Maps <- MapLines
  Names <- ModuleNames
  Skipped <- NoModules
  Addresses <- FiveAddresses
  Frames <- FrameTable
  Unknown = "?"
  Garbage = "garbage"
  None = None
  PIPE_SIZE = 3
  MaxFailures = 1
INVARIANTS EverythingGivenBack OwnSymbols
PROPERTIES CallsReturn
CHECK_DEADLOCK FALSE
