SPECIFICATION Spec
CONSTANTS
  Viewers = {v1}
  Contents <- ShortAndLong
  Conns = {c1, c2}
  NoConn = NoConn
  PageLines = 2
  ChunkLines = 1
  ReqQueue = 1
  ChunkQueue = 1
  ScanBlock = 2
  MaxScan = 4
  MaxRequests = 2
  MaxFailures = 1
  MaxRestarts = 1
  MaxResets = 1
INVARIANTS
  TypeOK
  ShownContiguous
  StartIsReal
  QueuedAnswersWake
  LossHasCause
PROPERTIES
  KeepsHistory
  RegisteredUntilItLeaves
SYMMETRY ConnSymmetry
CHECK_DEADLOCK FALSE
