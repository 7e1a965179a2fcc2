SPECIFICATION FairSpec
CONSTANTS
  Conns = {c1, c2}
  NoConn = NoConn
  Sources = {a}
  Widths = {TRUE, FALSE}
  BufferLines = 2
  MaxSourcesPerClient = 1
  AckWindow = 1
  MaxSeq = 2
  MaxFailures = 0
  MaxExits = 0
PROPERTIES
  Delivered
