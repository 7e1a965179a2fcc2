\* An idle system may stop here: heartbeats are not modelled.
CHECK_DEADLOCK FALSE
SPECIFICATION Spec
CONSTANTS
  Files = {a, b}
  Streams = {s1, s2}
  NoStream = NoStream
  Viewers = {v1}
  HistorySize = 2
  SubscriberBuffer = 1
  WireWindow = 1
  MaxEvents = 3
  MaxFailures = 1
  MaxRestarts = 1
SYMMETRY StreamSymmetry
INVARIANTS
  TypeOK
  HistoryIsWindow
  SubscribersServed
  NoSilentGap
PROPERTIES
  KeepsFeed
