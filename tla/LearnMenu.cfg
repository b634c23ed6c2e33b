CONSTANTS
  LastSlot = 4
  Nothing = Nothing
  Disabled = Disabled
  AtPrompt = AtPrompt
  Foreign = Foreign
  Remote = Remote
  Context = Context
  MaxBoots = 2
  MaxSaves = 1

SPECIFICATION Spec

INVARIANTS
  TypeOK
  PromptMeansComplete
  RightCommand

PROPERTIES
  AloneNothingIsLost

CHECK_DEADLOCK FALSE
