CONSTANTS
  LastSlot = 3
  MaxTroubles = 4

SPECIFICATION FairSpec

INVARIANTS
  TypeOK
  ChainIsStored

PROPERTIES
  ImplementsTransfer
  ClearedAtTheEnd
  DownloadEnds
