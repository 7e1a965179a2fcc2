SPECIFICATION Spec
CONSTANTS
  Conns = {c1, c2}
  NoConn = NoConn
  Sources = {a}
  Widths = {TRUE, FALSE}
  BufferLines = 2
  MaxSourcesPerClient = 1
  AckWindow = 1
  MaxSeq = 3
  MaxFailures = 1
  MaxExits = 0
INVARIANTS
  TypeOK
  RingIsWindow
  ReleasedOnlyIfSettled
  AckClaimsOnlySettled
  FirstCopiesInOrder
  NoRepeatOnConnection
SYMMETRY ConnSymmetry
