CONSTANTS
  LastSlot = 2
  MaxTries = 2
  AckTimeout = 1
  ShutdownAfter = 3
  PromptHandler = TRUE
SPECIFICATION FairSpec
INVARIANTS
  TypeOK
  ConfirmedIsStored
  TimerOutlastsTransfer
PROPERTIES
  ImplementsTransfer
  UploadEnds
