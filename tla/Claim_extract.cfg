SPECIFICATION Spec
CHECK_DEADLOCK FALSE
CONSTANTS
  Word = 512
  Units = {"a", "b"}
  Bodies <- SomeBodies
  Tails <- SomeTails
INVARIANTS
  LoaderExtracts
