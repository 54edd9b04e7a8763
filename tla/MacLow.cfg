SPECIFICATION FairSpec
CONSTANTS
  Flags = {f1}
  MaxBackoffs = 1
  FifoFrames = 1
INVARIANTS
  TypeOK
  NoAssertFails
  ReceiveStateCoherent
  NothingForgotten
  StatusTrue
  FrameNotCut
PROPERTIES
  TxCompletes
