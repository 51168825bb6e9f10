SPECIFICATION Spec
CONSTANTS
  PeerConnCount = 1
  NbPeers = 1
  NbPieces = 2
  BlockCount <- MCBlockCount
  RequestsMax = 1
  RequestTimeout = 2
  Content <- MCContentAll
  MaxOwed = 1
  Faults = {"slow"}
  NULL = NULL
INVARIANT UnaskedTolerated
