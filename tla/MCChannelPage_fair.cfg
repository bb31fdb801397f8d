\* Requests may be lost: polling ends when it should and not before.
CONSTANTS
  Ids = {d1, d2}
  Fetches = {f1}
  Unreliable = TRUE
SPECIFICATION FairSpec
CHECK_DEADLOCK FALSE
PROPERTIES
  PollingStops
  EndIsShown
