CONSTANTS
  LastSlot = 1
  MaxTries = 2
  AckTimeout = 1
  ShutdownAfter = 3
  PromptHandler = TRUE
SPECIFICATION FairSpec
PROPERTIES
  UploadsOnlyWhenAsked
