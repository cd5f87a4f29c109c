SPECIFICATION RunnerSpec
CONSTANTS
  Args <- Lines
  Test <- Tests
  MinMemory = 2
  Sample <- Durations
  Lowest <- Lows
  MaxValue = 50
  FirstValue = 10
  LogBase = 2
  NumBuckets = 3
INVARIANTS
  FibersEndFirst
  ChannelsIndependent
  FileHasTrackedCalls
  MetricsMatchSamples
  PassedMeansRun
  EvidenceKept
PROPERTIES
  RunnerEnds
CHECK_DEADLOCK FALSE
