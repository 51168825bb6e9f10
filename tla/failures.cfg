SPECIFICATION Spec
CONSTANTS
  PeerConnCount = 2
  NbPeers = 3
  NbPieces = 1
  BlockCount <- MCOneBlock
  RequestsMax = 1
  RequestTimeout = 1
  Content <- MCContentAll
  MaxOwed = 1
  Faults = {"disconnect", "hangup", "eintr", "sigint"}
  NULL = NULL
INVARIANTS SlotOwnsPiece PeerLink
PROPERTIES FetchingEnds Stops
