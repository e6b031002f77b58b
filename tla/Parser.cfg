SPECIFICATION FairSpec
CONSTANTS
  HeaderLength = 2
  InvalidLength = 5
  Packages <- SomePackages
  BufLength = 3
  MaxRead = 3
  MaxPackages = 3
INVARIANTS TypeOK EmittedAsSent NothingLeftBehind InBounds
PROPERTIES AllEmitted
