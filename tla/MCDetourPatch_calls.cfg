CONSTANTS
  Sources = {s1}
  Near = {near}
  Far = {f1, f2}
  Slots = {i1, i2}
  Patchers = {p1, p2}
  Cpus = {c1}
  Original = Original
  None = None
  MaxOps = 2
SPECIFICATION Spec
SYMMETRY Symmetry
INVARIANTS CallsLand InForce
