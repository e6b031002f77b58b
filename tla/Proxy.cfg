SPECIFICATION FairSpec
CONSTANT MaxFaults = 1
INVARIANTS TypeOK OutcomeTrue
PROPERTIES ConnectReturns
