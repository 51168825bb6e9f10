SPECIFICATION FairSpec
CONSTANTS
  ConnCount = 2
  MaxEvents = 1
  MaxLen = 1
  Buffer = 2
  Resets = TRUE
PROPERTY ImplementsChannel
