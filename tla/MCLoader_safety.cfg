SPECIFICATION Spec
CONSTANTS
  Images = {"ld", "static"}
  StepLimit = 2
  RingCap = 1
  MaxHangups = 2
  MaxEdits = 1
  TermSignals = {2, 15}
INVARIANTS
  TypeOK
  EnrolledBeforeFree
  LinkedProgramChecked
  TeardownAfterDeath
  FatalLeavesNoSurvivor
  ReloadNotLost
  DoubleDestroyNeedsSignal
