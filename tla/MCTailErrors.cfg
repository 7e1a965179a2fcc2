\* As in MCTailFollow: the tailer may only sleep.
CHECK_DEADLOCK FALSE
SPECIFICATION Spec
CONSTANTS
  Files = {f1, f2}
  NoFile = NoFile
  Kinds = {"text", "newline"}
  MaxLineBytes = 2
  TailBytes = 1
  ReadChunk = 2
  MaxBytes = 2
  MaxTruncates = 0
  MaxErrors = 1
INVARIANT NothingRepeated
