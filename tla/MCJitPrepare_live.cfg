SPECIFICATION FairSpec
CONSTANTS
  t1 = t1
  t2 = t2
  a1 = a1
  a2 = a2
  None = None
  Threads <- MCThreads
  Readers = {}
  Arenas <- TwoArenas
  Devices = {"debugger", "kernel", "error"}
  Spontaneous = TRUE
  Timeout = 2
  MaxCalls = 1
  MaxAttach = 2
INVARIANTS
  TimeoutIsLate
PROPERTIES
  CallsReturn
  CallsAreAtomic
