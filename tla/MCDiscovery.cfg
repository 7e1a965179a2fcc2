SPECIFICATION FairSpec
CONSTANTS
  Paths = {0, 1, 2, 3}
  BaseName <- SameName
  StaticPaths = {0}
  DockerPaths = {1}
  WatchPaths = {2, 3}
  WatchLimit = 1
  LineBuffer = 1
  MaxChanges = 1
  MaxScanErrors = 1
INVARIANTS
  TypeOK
  OneReader
  NoSendAfterClose
  KnownWhenPublished
  NamedWhileThere
  NamesDistinct
PROPERTIES
  FollowsFiles
