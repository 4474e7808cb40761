SPECIFICATION Spec
CONSTANTS
  t1 = t1
  t2 = t2
  a1 = a1
  a2 = a2
  None = None
  Threads <- MCThreads
  Readers <- MCReaders
  Arenas <- TwoArenas
  Devices = {"debugger", "kernel", "error"}
  Spontaneous = FALSE
  Timeout = 2
  MaxCalls = 2
  MaxAttach = 1
SYMMETRY Symmetry
INVARIANTS
  PublishedVerified
  NothingLeaks
  OnlyOwnUnmapped
  ReaderSafe
  ReaderFinds
  DebuggerReturned
  TrapsAttended
