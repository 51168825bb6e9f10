SPECIFICATION Spec
CONSTANTS
  PeerConnCount = 2
  NbPeers = 2
  NbPieces = 2
  BlockCount <- MCLongBlockCount
  RequestsMax = 2
  RequestTimeout = 2
  Content <- MCContentAll
  MaxOwed = 2
  Faults = {"choke", "interest"}
  NULL = NULL
INVARIANTS TypeOK AnswersExpected HonestKept
