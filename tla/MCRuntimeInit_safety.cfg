SPECIFICATION Spec
CONSTANTS
  Entries <- MCEntries
  Corlib = "mscorlib"
  MaxUpdates = 2
  MaxChanges = 2
  MaxFaults = 2
INVARIANTS
  MissingExplained
PROPERTIES
  ModsSurvive
