SPECIFICATION FairSpec
CONSTANTS
  PeerConnCount = 2
  NbPeers = 2
  NbPieces = 3
  BlockCount <- MCBlockCount
  RequestsMax = 2
  RequestTimeout = 1
  Content <- MCContentSplit
  MaxOwed = 1
  Faults = {}
  NULL = NULL
INVARIANT InterestExpressed
PROPERTY Completes
