CONSTANTS
  QueueCap = 2
  MaxUploads = 2
  Overflows = FALSE
  FramFails = FALSE
SPECIFICATION FairSpec
INVARIANTS
  TypeOK
  OneUploadAtATime
  SomethingEndsIt
PROPERTIES
  NeverCutUntried
  SessionEnds
