CONSTANTS
  Nets = 4
  Dynamic = TRUE
  MaxRetries = 3
  MaxStarts = 2
  MaxLosses = 2
CHECK_DEADLOCK FALSE
SPECIFICATION FairSpec
INVARIANTS
  TypeOK
  NeverGivesUpEarly
  ExhaustedTriedAll
  AttemptsAreBounded
PROPERTIES
  ImplementsStation
