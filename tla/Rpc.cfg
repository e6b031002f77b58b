SPECIFICATION FairSpec
CONSTANTS
  TestRequests = {1, 2}
  StatRequests = {3}
  MaxBreaks = 2
  MaxFailures = 1
INVARIANTS TypeOK OnePlace TableAgrees
PROPERTIES ReconnectsAtOnce ImplementsService
