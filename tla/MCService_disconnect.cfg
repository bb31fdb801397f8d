\* The client may leave while its row is being inserted.
CONSTANTS
  Ids = {d1}
  Secrets = {a}
  Channels = {a}
  Titles = {title1}
  Filenames = {file1}
  Percentages = {40}
  Null = Null
  Faults = {"disconnect"}
SPECIFICATION Spec
CHECK_DEADLOCK FALSE
INVARIANTS
  UnfinishedIsAttended
