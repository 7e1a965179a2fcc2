SPECIFICATION Spec
CONSTANTS
  Viewers = {v1}
  Contents <- ThreeLines
  Conns = {c1}
  NoConn = NoConn
  PageLines = 3
  ChunkLines = 1
  ReqQueue = 1
  ChunkQueue = 1
  ScanBlock = 2
  MaxScan = 8
  MaxRequests = 2
  MaxFailures = 0
  MaxRestarts = 0
  MaxResets = 0
INVARIANTS
  PagesGapFree
CHECK_DEADLOCK FALSE
