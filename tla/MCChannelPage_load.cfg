\* The page is loaded while a download is active.
CONSTANTS
  Ids = {d1}
  Fetches = {f1}
  Unreliable = FALSE
SPECIFICATION Spec
CHECK_DEADLOCK FALSE
INVARIANTS
  PollsWhileActive
