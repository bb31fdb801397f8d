SPECIFICATION Spec
CONSTANTS
  shared = shared
  single = single
  d1 = d1
  d2 = d2
  Tokens <- MCTokens
  DateTimes = {"1970", "2025"}
  Int32 = {0, 1}
  c1 = c1
  c2 = c2
  Calls <- MCCalls
  Ids <- MCIds
  Config <- MCConfig
  Asked <- MCAsked
  Links <- MCLinks
  RawMessages <- MCRaw
  YouTube = {"y"}
  Times <- MCTimes
  MaxCalls = 3
  MaxReports = 1
  MaxFaults = 1
  Reported = {"error"}
SYMMETRY Symmetry
INVARIANTS
  TypeOK
  ResponseReachesCaller
  RecordIsTrue
  ReadsFollowWhatWasTold
  ToldIsStored
  NewestFirst
  LinkShowsWhereDownloadsGo
CHECK_DEADLOCK FALSE
