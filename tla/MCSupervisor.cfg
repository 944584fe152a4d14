SPECIFICATION FairSpec
CHECK_DEADLOCK FALSE
CONSTANTS
  Word = 512
  Threads = {1, 2}
  Offsets = {1, 2, 3}
  Nrs = {0, 1}
  Builds <- SomeBuilds
  Launched = "old"
  MapCap = 3
  RingCap = 2
  Modes = {"kill", "term"}
  MaxCalls <- SomeCalls
  MaxHangups = 1
  MaxEdits = 1
INVARIANTS
  TypeOK
  NewestRule
  NoGapDuringReload
  ReloadInstalls
  
PROPERTIES
  AuditSpec
  DenialEndsSupervision
