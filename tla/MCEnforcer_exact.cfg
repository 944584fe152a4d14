SPECIFICATION Spec
CHECK_DEADLOCK FALSE
CONSTANTS
  Word = 512
  Space = 64
  BlockSize = 4
  Section = ".sentinel"
  MaxEntries = 8
  NoStack = NoStack
  Libs = {"liba", "plug"}
  Late = {"plug"}
  MaxLibs = 2
  VmaCap = 16
  Layouts <- ApartLayouts
  Matching <- ExactMatching
  Declared <- ExecDeclared
  ElfBase = 6
  Elf <- Files
  WrapperMax = 8
  CancelMax = 4
  ScanMax = 8
  LdScanMax = 4
  ScanDefault = 4
  CfiEntries <- NoEntries
  DefaultSize = 4
  DoWrite <- ExecDoWrite
  SafeCaller <- ExecSafeCaller
  SiteGuess = 2
  Nrs = {0, 1, 317}
  Callers <- FewCallers
  Modes = {"kill", "term"}
  Addrs <- FewAddrs
  Child = {c1, c2}
  Forked = {f1}
SYMMETRY Siblings
INVARIANTS
  IntendedAllowed
PROPERTIES
  MonitorSpec
