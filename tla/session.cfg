SPECIFICATION Spec
CONSTANTS
  MaxPeers = 4
  ConnCount = 3
  MaxFd = 4
  Faults = {"refuse", "disconnect", "hangup"}
  NbTorrents = 2
  Answers = {0, 11, 24}
  NULL = NULL
INVARIANTS TypeOK ConnectionsHeld OwnDescriptors StartsClean
PROPERTY SigintEnds
