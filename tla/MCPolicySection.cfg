SPECIFICATION Spec
CHECK_DEADLOCK FALSE
CONSTANTS
  Word = 512
  Units = {"a", "b", "c"}
  Bodies <- SomeBodies
  Tails <- SomeTails
INVARIANTS
  TypeOK
  DumpFaithful
  JsonSeparated
  NumberIsRax
