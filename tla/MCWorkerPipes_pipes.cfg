\* Pipes that fill up and lines too long for the scanners.
CONSTANTS
  Lines = {"text", "long"}
  Capacity = 2
  MaxLines = 5
SPECIFICATION FairSpec
CHECK_DEADLOCK FALSE
INVARIANTS
  TypeOK
  BlockedOnlyByLongLine
  CompletedScannedAll
PROPERTIES
  RunReturns
