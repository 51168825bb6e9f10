SPECIFICATION Spec
CONSTANTS
  PeerConnCount = 2
  NbPeers = 2
  NbPieces = 2
  BlockCount <- MCBlockCount
  RequestsMax = 1
  RequestTimeout = 1
  Content <- MCContentAll
  MaxOwed = 1
  Faults = {"disconnect", "hangup", "eintr", "sigint"}
  NULL = NULL
INVARIANT CompleteSound
PROPERTIES ImplementsDownload FetchingEnds CompletionNoticed
