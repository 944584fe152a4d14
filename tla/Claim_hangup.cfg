SPECIFICATION Spec
CONSTANTS
  Images = {"ld"}
  StepLimit = 1
  RingCap = 1
  MaxHangups = 1
  MaxEdits = 0
  TermSignals = {}
PROPERTIES
  HangupIsNotShutdown
