SPECIFICATION HomeSpec
CONSTANTS
  Bytes = {"openLight", "closeCurtain", "other"}
  Items = {"didOpenLight", "didCloseLight", "didOpenCurtain", "didCloseCurtain", "key4", "key5"}
  TxMax = 2
  RxMax = 2
  High = 2
  Full = 2
  IdleTicks = 2
  TxTick = 1
  Wrap = 4
  ChunkMax = 3
  Lamps = {l1}
  MaxBytes = 2
  MaxKeys = 1
INVARIANTS
  HomeTypeOK
  PortExact
  AtMostOnce
PROPERTIES
  Settles
