SPECIFICATION FairSpec
CONSTANTS
  MaxConns = 5
  MaxStarts = 2
  MaxStops = 2
  MaxFaults = 2
INVARIANTS TypeOK SessionsPooled OnlySessionsPooled OneAttempt
PROPERTIES RemovedIsClosed Reconnects
