SPECIFICATION Spec
CONSTANTS
  MaxConns = 4
  MaxStarts = 2
  MaxStops = 1
  MaxFaults = 0
INVARIANTS StartRuns
