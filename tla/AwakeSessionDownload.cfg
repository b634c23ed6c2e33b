CONSTANTS
  QueueCap = 3
  MaxUploads = 2
  Overflows = FALSE
  FramFails = FALSE
SPECIFICATION Spec
INVARIANTS
  DownloadStaysPending
