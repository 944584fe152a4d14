SPECIFICATION FairSpec
CONSTANTS
  Images = {"ld"}
  StepLimit = 2
  RingCap = 1
  MaxHangups = 1
  MaxEdits = 0
  TermSignals = {15}
PROPERTIES
  DeathEndsLoader
  SetupCompletes
