SPECIFICATION Spec
CONSTANTS
  t1 = t1
  t2 = t2
  a1 = a1
  a2 = a2
  None = None
  Threads <- OneThread
  Readers = {}
  Arenas <- TwoArenas
  Devices = {"debugger", "kernel"}
  Spontaneous = FALSE
  Timeout = 2
  MaxCalls = 1
  MaxAttach = 1
PROPERTIES
  WaitsForJit
