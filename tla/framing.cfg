SPECIFICATION FairSpec
CONSTANTS
  NbPeers = 2
  NbPieces = 9
  PieceSize <- MCPieceSize
  FileEnd <- MCFileEnd
  BlockSize = 2
  Messages <- MCMessages
  NULL = NULL
INVARIANTS TypeOK StreamInStep WithinBuffers BitsAsAnnounced OutBufIntact
PROPERTY MessageEnds
