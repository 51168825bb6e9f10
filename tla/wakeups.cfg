SPECIFICATION FairSpec
CONSTANTS
  ConnCount = 1
  MaxEvents = 1
  MaxLen = 4
  Buffer = 3
  Resets = TRUE
INVARIANTS TypeOK NoLostWakeup
PROPERTY SendsComplete
