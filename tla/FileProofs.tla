----------------------------- MODULE FileProofs -----------------------------
(***************************************************************************)
(* What the loader reads from a file, for every file: the syscall          *)
(* instructions of its text and of a function of it.  The proofs about the *)
(* enforcer and about the call graph rest on these lemmas.                 *)
(***************************************************************************)
EXTENDS ElfScan, RankProofs

\* One time limit for the SMT solver on every leaf.
USE SMTT(30)

-----------------------------------------------------------------------------
(* Syscall instructions in the text.                                       *)

\* What FileOK says of one section and of one symbol.
LEMMA Shapes ==
  ASSUME NEW elf, FileOK(elf)
  PROVE  /\ ExecSections(elf) \subseteq Nat \ {0} /\ DOMAIN elf.symbols \subseteq Nat \ {0}
         /\ \A k \in ExecSections(elf) :
              /\ elf.sections[k].addr \in Nat /\ elf.sections[k].bytes \in Seq(STRING)
              /\ Len(elf.sections[k].bytes) \in Nat /\ End(elf.sections[k]) \in Nat
         /\ \A k \in DOMAIN elf.symbols : elf.symbols[k].addr \in Nat /\ elf.symbols[k].size \in Nat
         /\ IsFiniteSet(ExecSections(elf))
<1> DEFINE Sec == [exec : BOOLEAN, addr : Nat, bytes : Seq(STRING)]
           Sym == [name : STRING, func : BOOLEAN, addr : Nat, size : Nat]
<1>1. elf.sections \in Seq(Sec) /\ elf.symbols \in Seq(Sym)
  BY DEF FileOK
<1> HIDE DEF Sec, Sym
<1>2. Len(elf.sections) \in Nat /\ ExecSections(elf) \subseteq 1..Len(elf.sections)
  BY <1>1 DEF ExecSections
<1>3. IsFiniteSet(ExecSections(elf))
  <2>1. IsFiniteSet(1..Len(elf.sections))
    BY <1>2, FS_Interval
  <2> QED BY <1>2, <2>1, FS_Subset, Zenon
<1>4. ASSUME NEW k \in ExecSections(elf)
      PROVE  /\ elf.sections[k].addr \in Nat /\ elf.sections[k].bytes \in Seq(STRING)
             /\ Len(elf.sections[k].bytes) \in Nat /\ End(elf.sections[k]) \in Nat
  <2>1. elf.sections[k] \in Sec
    BY <1>1, <1>2
  <2> QED BY <2>1 DEF Sec, End
<1>5. ASSUME NEW k \in DOMAIN elf.symbols
      PROVE  elf.symbols[k].addr \in Nat /\ elf.symbols[k].size \in Nat
  <2>1. elf.symbols[k] \in Sym
    BY <1>1
  <2> QED BY <2>1 DEF Sym
<1>6. ExecSections(elf) \subseteq Nat \ {0} /\ DOMAIN elf.symbols \subseteq Nat \ {0}
  BY <1>1, <1>2
<1> QED BY <1>3, <1>4, <1>5, <1>6, Zenon

\* The search for the executable section that holds an address.
LEMMA SectionFound ==
  ASSUME NEW elf, FileOK(elf), NEW a \in Int
  PROVE  /\ SectionOf(elf, a) = 0 => \A k \in ExecSections(elf) : ~Spans(elf.sections[k], a)
         /\ SectionOf(elf, a) # 0 => /\ SectionOf(elf, a) \in ExecSections(elf)
                                     /\ Spans(elf.sections[SectionOf(elf, a)], a)
<1> DEFINE S == {k \in ExecSections(elf) : Spans(elf.sections[k], a)}
<1>1. S \in SUBSET Nat /\ 0 \notin S
  BY Shapes
<1>2. SectionOf(elf, a) = Lowest(S)
  BY DEF SectionOf
<1>3. S = {} => \A k \in ExecSections(elf) : ~Spans(elf.sections[k], a)
  OBVIOUS
<1>4. \A k \in S : k \in ExecSections(elf) /\ Spans(elf.sections[k], a)
  OBVIOUS
<1> HIDE DEF S
<1> QED BY <1>1, <1>2, <1>3, <1>4, LowestIs, Zenon

\* Executable sections do not overlap: the byte at an address is that of any
\* section that spans it.
LEMMA ByteIn ==
  ASSUME NEW elf, FileOK(elf), NEW k \in ExecSections(elf), NEW a \in Int,
         Spans(elf.sections[k], a)
  PROVE  ByteAt(elf, a) = elf.sections[k].bytes[a - elf.sections[k].addr + 1]
<1> DEFINE in == {j \in ExecSections(elf) : Spans(elf.sections[j], a)}
<1>1. ASSUME NEW j \in in PROVE j = k
  <2>1. /\ elf.sections[j].addr \in Nat /\ End(elf.sections[j]) \in Nat
        /\ elf.sections[k].addr \in Nat /\ End(elf.sections[k]) \in Nat
    BY Shapes, Zenon
  <2>2. j # k => \/ End(elf.sections[j]) <= elf.sections[k].addr
                 \/ End(elf.sections[k]) <= elf.sections[j].addr
    BY Zenon DEF FileOK
  <2>3. /\ elf.sections[j].addr <= a /\ a < End(elf.sections[j])
        /\ elf.sections[k].addr <= a /\ a < End(elf.sections[k])
    BY Zenon DEF Spans
  <2> HIDE DEF in
  <2> QED BY <2>1, <2>2, <2>3
<1>2. in = {k}
  BY <1>1
<1>3. (CHOOSE j \in in : TRUE) = k
  BY <1>2
<1> QED BY <1>2, <1>3 DEF ByteAt

\* A byte that is text lies in an executable section.
LEMMA TextSpanned ==
  ASSUME NEW elf, NEW a, ByteAt(elf, a) # "--"
  PROVE  \E k \in ExecSections(elf) : Spans(elf.sections[k], a)
  BY DEF ByteAt

\* A scan of part of a section finds syscall instructions only, within the
\* bytes it was given.
LEMMA SitesAreTraps ==
  ASSUME NEW elf, FileOK(elf), NEW k \in ExecSections(elf), NEW from \in Nat, NEW limit \in Int,
         elf.sections[k].addr + from + limit <= End(elf.sections[k]),
         NEW a \in OpcodeSites(elf.sections[k], from, limit)
  PROVE  /\ a \in Nat /\ SyscallAt(elf, a)
         /\ elf.sections[k].addr + from <= a
         /\ a + 1 < elf.sections[k].addr + from + limit
         /\ Spans(elf.sections[k], a) /\ Spans(elf.sections[k], a + 1)
<1> DEFINE sec == elf.sections[k]
<1>1. sec.addr \in Nat /\ End(sec) \in Nat /\ sec.addr + from + limit <= End(sec)
  BY Shapes
<1>2. PICK i \in (from + 1)..(from + limit - 1) :
        a = sec.addr + i - 1 /\ sec.bytes[i] = "0f" /\ sec.bytes[i + 1] = "05"
  BY DEF OpcodeSites
<1> HIDE DEF sec
<1>3. /\ a \in Nat /\ sec.addr + from <= a /\ a + 1 < sec.addr + from + limit
      /\ i \in Int /\ a - sec.addr + 1 = i /\ (a + 1) - sec.addr + 1 = i + 1
  BY <1>1, <1>2
<1>4. Spans(sec, a) /\ Spans(sec, a + 1)
  BY <1>1, <1>3 DEF Spans
<1>5. ByteAt(elf, a) = sec.bytes[i] /\ ByteAt(elf, a + 1) = sec.bytes[i + 1]
  BY <1>3, <1>4, ByteIn DEF sec
<1> QED BY <1>2, <1>3, <1>4, <1>5 DEF SyscallAt, sec

\* And it finds every one of them.
LEMMA TrapsAreSites ==
  ASSUME NEW elf, FileOK(elf), NEW k \in ExecSections(elf), NEW from \in Nat, NEW limit \in Int,
         NEW a \in Int, SyscallAt(elf, a),
         Spans(elf.sections[k], a), Spans(elf.sections[k], a + 1),
         elf.sections[k].addr + from <= a,
         a + 1 < elf.sections[k].addr + from + limit
  PROVE  a \in OpcodeSites(elf.sections[k], from, limit)
<1> DEFINE sec == elf.sections[k]
           i   == a - sec.addr + 1
<1>1. sec.addr \in Nat
  BY Shapes
<1>2. sec.bytes[i] = "0f" /\ sec.bytes[i + 1] = "05"
  <2>1. (a + 1) - sec.addr + 1 = i + 1
    BY <1>1
  <2>2. ByteAt(elf, a) = sec.bytes[i] /\ ByteAt(elf, a + 1) = sec.bytes[i + 1]
    BY <2>1, ByteIn
  <2> QED BY <2>2 DEF SyscallAt
<1>3. i \in (from + 1)..(from + limit - 1) /\ a = sec.addr + i - 1
  BY <1>1
<1> QED BY <1>2, <1>3 DEF OpcodeSites

\* A scan finds finitely many addresses.
LEMMA SitesFinite ==
  ASSUME NEW sec, sec.addr \in Nat, NEW from \in Nat, NEW limit \in Int
  PROVE  /\ OpcodeSites(sec, from, limit) \subseteq Nat
         /\ IsFiniteSet(OpcodeSites(sec, from, limit))
<1>1. OpcodeSites(sec, from, limit) \subseteq (sec.addr + from)..(sec.addr + from + limit)
  BY DEF OpcodeSites
<1>2. IsFiniteSet((sec.addr + from)..(sec.addr + from + limit))
  BY FS_Interval
<1> QED BY <1>1, <1>2, FS_Subset

\* The scan of a file's text (scan_elf_text_for_syscalls) finds syscall
\* instructions of its executable sections only.
LEMMA ScanTextSound ==
  ASSUME NEW elf, FileOK(elf), NEW max, NEW a \in ScanText(elf, max)
  PROVE  /\ a \in Nat /\ SyscallAt(elf, a)
         /\ \E k \in ExecSections(elf) : Spans(elf.sections[k], a)
<1>1. PICK h \in TextHits(elf) : a = h[2]
  BY DEF ScanText, FirstPairs
<1>2. PICK k \in ExecSections(elf) :
        a \in OpcodeSites(elf.sections[k], 0, Len(elf.sections[k].bytes))
  BY <1>1 DEF TextHits
<1>3. PICK n : n = Len(elf.sections[k].bytes)
  BY Zenon
<1>4. n \in Int /\ 0 \in Nat /\ elf.sections[k].addr + 0 + n <= End(elf.sections[k])
  BY <1>3, Shapes DEF End
<1> QED BY <1>2, <1>3, <1>4, SitesAreTraps, Zenon

\* The symbol that the scan of a function starts from.
LEMMA SymbolFound ==
  ASSUME NEW elf, FileOK(elf), NEW name
  PROVE  /\ SymbolOf(elf, name) = 0 =>
              \A k \in DOMAIN elf.symbols :
                ~(elf.symbols[k].name = name /\ elf.symbols[k].addr # 0)
         /\ SymbolOf(elf, name) # 0 =>
              /\ SymbolOf(elf, name) \in DOMAIN elf.symbols
              /\ elf.symbols[SymbolOf(elf, name)].name = name
              /\ elf.symbols[SymbolOf(elf, name)].addr # 0
<1> DEFINE S == {k \in DOMAIN elf.symbols :
                   elf.symbols[k].name = name /\ elf.symbols[k].addr # 0}
<1>1. S \in SUBSET Nat /\ 0 \notin S
  BY Shapes
<1>2. SymbolOf(elf, name) = Lowest(S)
  BY DEF SymbolOf
<1>3. S = {} => \A k \in DOMAIN elf.symbols :
                  ~(elf.symbols[k].name = name /\ elf.symbols[k].addr # 0)
  OBVIOUS
<1>4. \A k \in S : /\ k \in DOMAIN elf.symbols
                  /\ elf.symbols[k].name = name /\ elf.symbols[k].addr # 0
  OBVIOUS
<1> HIDE DEF S
<1> QED BY <1>1, <1>2, <1>3, <1>4, LowestIs, Zenon

\* What is scanned of a symbol of unknown size.
Extent(sym) == IF sym.size = 0 THEN ScanDefault ELSE sym.size

\* The window of a function lies in its section and in its extent.
LEMMA FunctionWindow ==
  ASSUME NEW elf, FileOK(elf), NEW s \in DOMAIN elf.symbols,
         NEW k \in ExecSections(elf), k = SectionOf(elf, elf.symbols[s].addr)
  PROVE  \E from \in Nat, limit \in Int :
           /\ FunctionSites(elf, elf.symbols[s]) = OpcodeSites(elf.sections[k], from, limit)
           /\ elf.sections[k].addr + from = elf.symbols[s].addr
           /\ elf.sections[k].addr + from + limit <= End(elf.sections[k])
           /\ limit <= Extent(elf.symbols[s])
           /\ \/ limit = Extent(elf.symbols[s])
              \/ elf.sections[k].addr + from + limit = End(elf.sections[k])
<1> DEFINE sym   == elf.symbols[s]
           sec   == elf.sections[k]
           from  == sym.addr - sec.addr
           rest  == End(sec) - sym.addr
           limit == IF Extent(sym) > rest THEN rest ELSE Extent(sym)
<1>1. /\ sym.addr \in Nat /\ sym.size \in Nat /\ Extent(sym) \in Nat
      /\ sec.addr \in Nat /\ End(sec) \in Nat
  BY Shapes, ScanDefaultAssumption DEF Extent
<1>2. k # 0
  BY Shapes
<1>3. Spans(sec, sym.addr)
  BY <1>1, <1>2, SectionFound
<1>4. FunctionSites(elf, sym) = OpcodeSites(sec, from, limit)
  BY <1>2 DEF FunctionSites, Extent
<1> HIDE DEF sym, sec
<1>5. /\ from \in Nat /\ limit \in Int /\ sec.addr + from = sym.addr
      /\ sec.addr + from + limit <= End(sec) /\ limit <= Extent(sym)
      /\ limit = Extent(sym) \/ sec.addr + from + limit = End(sec)
  BY <1>1, <1>3 DEF Spans
<1> HIDE DEF from, limit
<1> QED BY <1>4, <1>5, Zenon DEF sym, sec

\* The scan of a function finds syscall instructions of that function, or of
\* the window that stands for it.
LEMMA FunctionSound ==
  ASSUME NEW elf, FileOK(elf), NEW s \in DOMAIN elf.symbols,
         NEW a \in FunctionSites(elf, elf.symbols[s])
  PROVE  /\ a \in Nat /\ SyscallAt(elf, a)
         /\ elf.symbols[s].addr <= a /\ a + 1 < elf.symbols[s].addr + Extent(elf.symbols[s])
         /\ \E k \in ExecSections(elf) : Spans(elf.sections[k], a)
<1> DEFINE k == SectionOf(elf, elf.symbols[s].addr)
<1>1. k \in ExecSections(elf)
  <2>1. k # 0
    BY Zenon DEF FunctionSites
  <2>2. elf.symbols[s].addr \in Int
    BY Shapes
  <2> QED BY <2>1, <2>2, SectionFound, Zenon
<1> HIDE DEF k
<1>2. PICK from \in Nat, limit \in Int :
        /\ FunctionSites(elf, elf.symbols[s]) = OpcodeSites(elf.sections[k], from, limit)
        /\ elf.sections[k].addr + from = elf.symbols[s].addr
        /\ elf.sections[k].addr + from + limit <= End(elf.sections[k])
        /\ limit <= Extent(elf.symbols[s])
  BY <1>1, FunctionWindow, Zenon DEF k
<1>3. /\ a \in Nat /\ SyscallAt(elf, a)
      /\ elf.sections[k].addr + from <= a
      /\ a + 1 < elf.sections[k].addr + from + limit
      /\ Spans(elf.sections[k], a)
  BY <1>1, <1>2, SitesAreTraps, Zenon
<1>4. elf.symbols[s].addr \in Nat /\ Extent(elf.symbols[s]) \in Nat
  BY Shapes, ScanDefaultAssumption DEF Extent
<1>5. elf.symbols[s].addr <= a /\ a + 1 < elf.symbols[s].addr + Extent(elf.symbols[s])
  BY <1>2, <1>3, <1>4
<1> QED BY <1>1, <1>3, <1>5

\* The scan of a function that lies in one executable section finds all its
\* syscall instructions.
LEMMA FunctionComplete ==
  ASSUME NEW elf, FileOK(elf), NEW s \in DOMAIN elf.symbols, elf.symbols[s].size # 0,
         NEW j \in ExecSections(elf), elf.sections[j].addr <= elf.symbols[s].addr,
         elf.symbols[s].addr + elf.symbols[s].size <= End(elf.sections[j]),
         NEW a \in Nat, SyscallAt(elf, a), elf.symbols[s].addr <= a,
         a + 1 < elf.symbols[s].addr + elf.symbols[s].size
  PROVE  a \in FunctionSites(elf, elf.symbols[s])
<1> DEFINE k == SectionOf(elf, elf.symbols[s].addr)
<1>1. /\ elf.symbols[s].addr \in Nat /\ elf.symbols[s].size \in Nat
      /\ elf.sections[j].addr \in Nat /\ End(elf.sections[j]) \in Nat
  BY Shapes, Zenon
<1>2. Spans(elf.sections[j], elf.symbols[s].addr)
  BY <1>1 DEF Spans
<1>3. k \in ExecSections(elf) /\ Spans(elf.sections[k], elf.symbols[s].addr)
  <2>1. elf.symbols[s].addr \in Int
    BY <1>1
  <2> QED BY <1>2, <2>1, SectionFound, Zenon
<1>4. elf.sections[k].addr \in Nat /\ End(elf.sections[k]) \in Nat
  BY <1>3, Shapes, Zenon
<1>5. k = j
  <2>1. j # k => \/ End(elf.sections[j]) <= elf.sections[k].addr
                 \/ End(elf.sections[k]) <= elf.sections[j].addr
    BY <1>3, Zenon DEF FileOK
  <2> HIDE DEF k
  <2> QED BY <1>1, <1>2, <1>3, <1>4, <2>1 DEF Spans
<1>6. PICK from \in Nat, limit \in Int :
        /\ FunctionSites(elf, elf.symbols[s]) = OpcodeSites(elf.sections[j], from, limit)
        /\ elf.sections[j].addr + from = elf.symbols[s].addr
        /\ \/ limit = Extent(elf.symbols[s])
           \/ elf.sections[j].addr + from + limit = End(elf.sections[j])
  BY <1>5, FunctionWindow, Zenon
<1> HIDE DEF k
<1>7. /\ elf.sections[j].addr + from <= a /\ a + 1 < elf.sections[j].addr + from + limit
      /\ Spans(elf.sections[j], a) /\ Spans(elf.sections[j], a + 1) /\ a \in Int
  BY <1>1, <1>6 DEF Spans, Extent
<1> QED BY <1>6, <1>7, TrapsAreSites, Zenon

\* What resolve_libc_syscall_sites returns for a name.
LEMMA ResolveSound ==
  ASSUME NEW elf, FileOK(elf), NEW name, NEW max, NEW a \in ResolveSites(elf, name, max)
  PROVE  /\ SymbolOf(elf, name) \in DOMAIN elf.symbols
         /\ elf.symbols[SymbolOf(elf, name)].name = name
         /\ elf.symbols[SymbolOf(elf, name)].addr # 0
         /\ a \in FunctionSites(elf, elf.symbols[SymbolOf(elf, name)])
<1>1. /\ SymbolOf(elf, name) # 0
      /\ a \in FunctionSites(elf, elf.symbols[SymbolOf(elf, name)])
  BY Zenon DEF ResolveSites, FirstFew
<1> QED BY <1>1, SymbolFound, Zenon

\* The addresses found in a function are finitely many.
LEMMA FunctionFinite ==
  ASSUME NEW elf, FileOK(elf), NEW s \in DOMAIN elf.symbols
  PROVE  /\ FunctionSites(elf, elf.symbols[s]) \subseteq Int
         /\ IsFiniteSet(FunctionSites(elf, elf.symbols[s]))
<1> DEFINE k == SectionOf(elf, elf.symbols[s].addr)
<1>1. elf.symbols[s].addr \in Int
  BY Shapes
<1>2. CASE k = 0
  BY <1>2, FS_EmptySet DEF FunctionSites
<1>3. CASE k # 0
  <2>1. k \in ExecSections(elf)
    BY <1>1, <1>3, SectionFound, Zenon
  <2> HIDE DEF k
  <2>2. PICK from \in Nat, limit \in Int :
          FunctionSites(elf, elf.symbols[s]) = OpcodeSites(elf.sections[k], from, limit)
    BY <2>1, FunctionWindow, Zenon DEF k
  <2>3. elf.sections[k].addr \in Nat
    BY <2>1, Shapes, Zenon
  <2> QED BY <2>2, <2>3, SitesFinite
<1> QED BY <1>2, <1>3

\* A limit that one site more would not exceed loses none of a function's sites.
LEMMA ResolveComplete ==
  ASSUME NEW elf, FileOK(elf), NEW name, NEW max \in Nat,
         SymbolOf(elf, name) # 0,
         Cardinality(ResolveSites(elf, name, max + 1)) <= max
  PROVE  ResolveSites(elf, name, max) = FunctionSites(elf, elf.symbols[SymbolOf(elf, name)])
<1> DEFINE F == FunctionSites(elf, elf.symbols[SymbolOf(elf, name)])
<1>1. F \subseteq Int /\ IsFiniteSet(F)
  BY SymbolFound, FunctionFinite, Zenon
<1>2. ResolveSites(elf, name, max + 1) = FirstFew(F, max + 1) /\ ResolveSites(elf, name, max) = FirstFew(F, max)
  BY DEF ResolveSites
<1> HIDE DEF F
<1>3. max + 1 \in Nat
  OBVIOUS
<1>4. Kept(F, max + 1, FirstFew(F, max + 1)) /\ Kept(F, max, FirstFew(F, max))
  BY <1>1, <1>3, FirstFewKept, Zenon
<1>5. FirstFew(F, max + 1) = F
  BY <1>2, <1>4 DEF Kept
<1>6. FirstFew(F, max) = F
  BY <1>2, <1>4, <1>5 DEF Kept
<1> QED BY <1>2, <1>6 DEF F

=============================================================================
