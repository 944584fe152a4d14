SPECIFICATION Spec
CHECK_DEADLOCK FALSE
CONSTANTS
  Word = 512
  Space = 64
  BlockSize = 4
  Section = ".sentinel"
  MaxEntries = 8
  NoStack = NoStack
  Libs = {"liba", "plug"}
  Late = {}
  MaxLibs = 1
  VmaCap = 4
  Layouts <- PackedLayouts
  Matching <- ExactMatching
  Declared <- PieDeclared
  ElfBase = 0
  Elf <- PieFiles
  WrapperMax = 8
  CancelMax = 4
  ScanMax = 1
  LdScanMax = 4
  ScanDefault = 4
  CfiEntries <- PieCfi
  DefaultSize = 1
  DoWrite <- NoSymbol
  SafeCaller <- NoSymbol
  SiteGuess = 2
  Nrs = {0, 1}
  Callers <- PieCallers
  Modes = {"kill"}
  Addrs <- FewAddrs
  Child = {c1, c2}
  Forked = {}
SYMMETRY Siblings
INVARIANTS
  TypeOK
  
  KillStops
