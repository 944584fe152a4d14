SPECIFICATION FairSpec
CONSTANTS
  Images = {"static"}
  StepLimit = 2
  RingCap = 1
  MaxHangups = 0
  MaxEdits = 0
  TermSignals = {}
PROPERTIES
  ReapedChildEndsLoader
