\* Two downloads in two channels, and everything around the code may fail.
CONSTANTS
  Ids = {d1, d2}
  Secrets = {a, b, x}
  Channels = {a, b}
  Titles = {title1}
  Filenames = {file1}
  Percentages = {0, 40}
  Null = Null
  Faults = {"crash", "dbwrite", "disconnect"}
SPECIFICATION Spec
SYMMETRY Symmetry
CHECK_DEADLOCK FALSE
INVARIANTS
  TypeOK
  RowsWellFormed
  WorkerOwnsLiveRow
  AcceptedIsRegistered
  RequestMatchesRow
  RunMatchesRow
PROPERTIES
  RefinesLifecycle
