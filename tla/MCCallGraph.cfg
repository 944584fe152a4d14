SPECIFICATION Spec
CHECK_DEADLOCK FALSE
CONSTANTS
  Word = 512
  ScanDefault = 4
  Files <- AllFiles
  ImportLists <- SomeImports
  Essential <- NoSeeds
  Variants <- SomeVariants
  NrBindings <- SomeNumbers
  MaxSyms = 6
  MaxReachable = 4
  DepthLimit = 2
  FuncDefault = 13
  MaxSites = 3
INVARIANTS
  TypeOK
  OnlyReachable
  CompleteSearch
  WithinDepth
  SearchExact
  WhitelistExact
