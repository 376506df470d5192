\* Every order of reads and writes; the call returns, so the system stops.
SPECIFICATION FairSpec
CONSTANTS
  Capacity = 1
  MaxPayload = 2
  MaxOutput = 2
CHECK_DEADLOCK FALSE
INVARIANTS
  TypeOK
  AcceptedMeansSuccess
PROPERTIES
  HarnessReturns
