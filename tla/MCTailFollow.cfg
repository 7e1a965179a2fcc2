\* Nothing to tail and nobody writing: the tailer only sleeps.
CHECK_DEADLOCK FALSE
SPECIFICATION FairSpec
CONSTANTS
  Files = {f1, f2}
  NoFile = NoFile
  Kinds = {"text", "cr", "newline"}
  MaxLineBytes = 1
  TailBytes = 1
  ReadChunk = 2
  MaxBytes = 3
  MaxTruncates = 1
  MaxErrors = 1
INVARIANTS
  TypeOK
  OffsetsTrue
  NothingSkipped
  LinesWhole
  RepeatedOnlyByErrors
PROPERTIES
  KeepsFeed
  
  CatchesUp
