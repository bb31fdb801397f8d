\* Nothing fails around the code: every download is run and its end recorded.
CONSTANTS
  Ids = {d1, d2}
  Secrets = {a, x}
  Channels = {a}
  Titles = {title1}
  Filenames = {file1}
  Percentages = {40}
  Null = Null
  Faults = {}
SPECIFICATION FairSpec
CHECK_DEADLOCK FALSE
INVARIANTS
  UnfinishedIsAttended
PROPERTIES
  EveryRowIsRun
  ExitIsRecorded
