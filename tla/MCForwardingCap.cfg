SPECIFICATION Spec
CONSTANTS
  Conns = {c1, c2}
  NoConn = NoConn
  Sources = {a, b}
  Widths = {FALSE}
  BufferLines = 1
  MaxSourcesPerClient = 1
  AckWindow = 1
  MaxSeq = 2
  MaxFailures = 1
  MaxExits = 0
INVARIANTS
  SourceCapHolds
