CONSTANTS
  Files = {f1, f2, new}
  Added = {new}
  MaxEdits = 2
  MaxRuns = 2
SPECIFICATION Spec
INVARIANTS
  ReportsTrue
  RefusedChangesNothing
