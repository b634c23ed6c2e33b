CONSTANTS
  MaxItems = 3
  MaxReadings = 6
SPECIFICATION FairSpec
INVARIANTS
  TypeOK
  LogInv
PROPERTIES
  ImplementsQueue
  NeverSentTwice
  OnlyOldestOrInFlightIsLost
  FlushReturns
