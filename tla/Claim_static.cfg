SPECIFICATION Spec
CONSTANTS
  Images = {"static"}
  StepLimit = 2
  RingCap = 1
  MaxHangups = 0
  MaxEdits = 0
  TermSignals = {}
INVARIANTS
  StaticProgramChecked
