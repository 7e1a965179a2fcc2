SPECIFICATION FairSpec
CONSTANTS
  Conns = {c1, c2}
  NoConn = NoConn
  Sources = {a, b}
  Widths = {FALSE}
  BufferLines = 1
  MaxSourcesPerClient = 1
  AckWindow = 1
  MaxSeq = 2
  MaxFailures = 0
  MaxExits = 1
PROPERTIES
  KeepsPromise
  Delivered
  Drains
