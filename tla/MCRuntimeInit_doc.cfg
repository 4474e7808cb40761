SPECIFICATION Spec
CONSTANTS
  Entries <- MCEntries
  Corlib = "mscorlib"
  MaxUpdates = 1
  MaxChanges = 0
  MaxFaults = 2
INVARIANTS
  InstalledRuns
