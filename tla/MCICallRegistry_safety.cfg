SPECIFICATION Spec
CONSTANTS
  t1 = t1
  t2 = t2
  n1 = n1
  n2 = n2
  m1 = m1
  m2 = m2
  k1 = k1
  k2 = k2
  k3 = k3
  None = None
  Threads <- MCThreads
  Names <- MCNames
  Methods <- MCMethods
  Mods <- MCMods
  Override <- n1
  Initial = "main"
  MaxCalls = 2
SYMMETRY Symmetry
INVARIANTS
  TablesAgree
  DirectStays
  InterceptorsHonoured
  HookHasOriginal
  QueueDrained
