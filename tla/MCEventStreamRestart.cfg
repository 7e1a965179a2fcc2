\* An idle system may stop here: heartbeats are not modelled.
CHECK_DEADLOCK FALSE
SPECIFICATION FairSpec
CONSTANTS
  Files = {a}
  Streams = {s1, s2}
  NoStream = NoStream
  Viewers = {v1}
  HistorySize = 2
  SubscriberBuffer = 1
  WireWindow = 1
  MaxEvents = 2
  MaxFailures = 0
  MaxRestarts = 1
PROPERTIES
  ResumesAfterRestart
