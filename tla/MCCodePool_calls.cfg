SPECIFICATION Spec
CONSTANTS
  Arenas = {1, 2}
  Base <- MCBase
  WriteBase <- MCWriteBase
  Capacity <- MCCapacity
  AddressSpace = 128
  Alignment = 4
  Word = 2
  Half = 8
  Register = 64
  MallocMayFail = TRUE
  Sizes <- MCSizes
  Blocks <- MCBlocks
  Sources <- MCSources
  Targets <- MCTargets
  Buffers <- MCBuffers
INVARIANTS
  TypeOK
  Coalesced
  Disjoint
  Covered
  AllocComplete
  IslandsIntact
  DetoursLand
  SearchComplete
PROPERTIES
  FailedCallsChangeNothing
  IslandsPermanent
  ImplementsService
