SPECIFICATION Spec
CONSTANTS
  Monitors = {m1, m2}
  WindowInputs = {w1}
  Names = {a, b, c}
  Capacity = 2
  MaxSent = 3
  MaxQueues = 3
SYMMETRY NamesSymmetry
INVARIANTS InOrder NothingIsLost NoNameIsLeft
CHECK_DEADLOCK FALSE
