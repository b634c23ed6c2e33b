CONSTANTS
  QueueCap = 2
  MaxUploads = 2
  Overflows = TRUE
  FramFails = FALSE
SPECIFICATION FairSpec
PROPERTIES
  TimeoutShutsDown
