\* The process may die: rows are left that nobody works on.
CONSTANTS
  Ids = {d1}
  Secrets = {a}
  Channels = {a}
  Titles = {title1}
  Filenames = {file1}
  Percentages = {40}
  Null = Null
  Faults = {"crash"}
SPECIFICATION Spec
CHECK_DEADLOCK FALSE
INVARIANTS
  UnfinishedIsAttended
