\* Requests overlap, get lost and are answered in any order.
CONSTANTS
  Ids = {d1, d2}
  Fetches = {f1, f2}
  Unreliable = TRUE
SPECIFICATION Spec
SYMMETRY Symmetry
CHECK_DEADLOCK FALSE
INVARIANTS
  TypeOK
  OneTimer
  NeverAhead
PROPERTIES
  ShownAdvances
