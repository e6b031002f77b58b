SPECIFICATION Spec
CONSTANTS
  KeepAliveInterval = 1
  TimeOutInterval = 4
  TicksPerSecond = 2
  MaxDelay = 1
INVARIANTS TypeOK LiveNotCut DetectedInTime
