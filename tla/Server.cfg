SPECIFICATION FairSpec
CONSTANTS
  MaxConns = 2
  MaxStarts = 2
  MaxStops = 1
  MaxBindFaults = 1
  MaxAcceptFaults = 1
  MaxBroadcasts = 1
INVARIANTS TypeOK PoolAgrees AcceptTended StopEndsAccepting
PROPERTIES BroadcastPoolStable AcceptsAgain StopReturns
