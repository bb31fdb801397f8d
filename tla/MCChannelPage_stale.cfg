\* A list from before the POST arrives after its answer.
CONSTANTS
  Ids = {d1}
  Fetches = {f1}
  Unreliable = FALSE
SPECIFICATION Spec
CHECK_DEADLOCK FALSE
PROPERTIES
  StopsWhenNoneRemain
