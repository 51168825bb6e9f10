SPECIFICATION Spec
CONSTANTS
  PeerConnCount = 2
  NbPeers = 2
  NbPieces = 2
  BlockCount <- MCBlockCount
  RequestsMax = 1
  RequestTimeout = 2
  Content <- MCContentAll
  MaxOwed = 2
  Faults = {"refuse", "slow", "optimistic"}
  NULL = NULL
INVARIANTS OneWriter BlocksBacked
