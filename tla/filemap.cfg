SPECIFICATION Spec
CONSTANTS
  NbFiles = 3
  MaxFileSize = 2
  PieceSizes = {1, 2, 3}
  MaxBlockSize = 2
INVARIANTS TypeOK PiecesCoverTorrent AvailableIsRight ResumeFindsRightPieces BlocksInPlace
PROPERTIES BlocksEnd
CHECK_DEADLOCK FALSE
