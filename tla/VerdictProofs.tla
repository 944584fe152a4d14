--------------------------- MODULE VerdictProofs ---------------------------
(***************************************************************************)
(* What the hooks let through, for every policy, placement of the modules  *)
(* and file: an admitted call is one that its module vouches for, so that  *)
(* the process behaves as the abstract monitor says.  Type correctness of  *)
(* the installation follows.                                               *)
(***************************************************************************)
EXTENDS EnforcerProofs, FileProofs

\* One time limit for the SMT solver on every leaf.
USE SMTT(30)

-----------------------------------------------------------------------------
(* The verdict.                                                            *)

\* Text lies in the mapping of its file.
LEMMA TextPlaced ==
  ASSUME WellPlaced, NEW l \in Layouts, NEW m \in Modules \ {"main"}, NEW a \in Nat,
         NEW k \in ExecSections(Elf[m]), Spans(Elf[m].sections[k], a)
  PROVE  l[m].lo + a < l[m].hi /\ l[m].lo + a \in Addresses /\ a \in Addresses
<1>1. FileOK(Elf[m])
  BY EnforcerAssumption, Zenon
<1>2. End(Elf[m].sections[k]) \in Nat /\ Elf[m].sections[k].addr \in Nat
  BY <1>1, Shapes, Zenon
<1>3. l[m].lo + End(Elf[m].sections[k]) <= l[m].hi
  BY Zenon DEF WellPlaced
<1>4. l[m].lo \in Nat /\ l[m].hi \in Nat /\ l[m].hi <= Space
  BY LayoutType
<1>5. a < End(Elf[m].sections[k])
  BY Zenon DEF Spans
<1> QED BY <1>2, <1>3, <1>4, <1>5, VmaAssumption DEF Addresses

\* A site that a scan of a module's text found is a syscall instruction of the
\* module.
LEMMA TextTrap ==
  ASSUME WellPlaced, NEW l \in Layouts, NEW m \in Modules \ {"main"}, NEW max,
         NEW o \in TextSites(m, max)
  PROVE  /\ o \in Traps[m] /\ o \in Nat /\ l[m].lo + o \in Addresses
         /\ l[m].lo + o < l[m].hi
<1>1. FileOK(Elf[m])
  BY EnforcerAssumption, Zenon
<1>2. /\ o \in Nat /\ SyscallAt(Elf[m], o)
      /\ \E k \in ExecSections(Elf[m]) : Spans(Elf[m].sections[k], o)
  BY <1>1, ScanTextSound, Zenon DEF TextSites
<1>3. o \in Addresses /\ l[m].lo + o \in Addresses /\ l[m].lo + o < l[m].hi
  BY <1>2, TextPlaced
<1>4. o \in Traps[m]
  BY <1>2, <1>3 DEF Traps
<1> QED BY <1>2, <1>3, <1>4

\* A call from a wildcard site of a library or of ld.so is intended.
LEMMA TextVerdict ==
  ASSUME WellPlaced, layout \in Layouts, NEW m \in Libs \cup {"ld"}, m \in Mapped,
         NEW max, NEW o \in TextSites(m, max), NEW b \in Addresses,
         NEW site \in Addresses, NEW nr, NEW caller,
         Offset(site, b) = Offset(layout[m].lo + o, b)
  PROVE  Intended(site, nr, caller)
<1>1. m \in Modules \ {"main"}
  BY EnforcerAssumption DEF Modules
<1>2. /\ o \in Traps[m] /\ o \in Nat /\ layout[m].lo + o \in Addresses
      /\ layout[m].lo + o < layout[m].hi
  BY <1>1, TextTrap
<1>3. site = layout[m].lo + o
  BY <1>2, OffsetInjective
<1>4. layout[m].lo \in Nat /\ layout[m].hi \in Nat
  BY <1>1, LayoutType
<1>5. Inside(m, site) /\ site - layout[m].lo = o
  BY <1>2, <1>3, <1>4 DEF Inside
<1> QED BY <1>2, <1>5, Zenon DEF Intended

\* No entry of the binary's sections is left out.
LEMMA ListedAll ==
  ASSUME NEW entries, NEW n \in Nat, DOMAIN entries = 1..n,
         Cardinality({i \in DOMAIN entries : entries[i].site # 0}) <= MaxEntries
  PROVE  Listed(entries) = {i \in DOMAIN entries : entries[i].site # 0}
<1> DEFINE S == {i \in DOMAIN entries : entries[i].site # 0}
<1>1. S \subseteq 1..n /\ S \subseteq Int
  OBVIOUS
<1>2. IsFiniteSet(S)
  BY <1>1, FS_Interval, FS_Subset
<1>3. MaxEntries \in Nat
  BY EnforcerAssumption
<1> HIDE DEF S
<1>4. Kept(S, MaxEntries, FirstFew(S, MaxEntries))
  BY <1>1, <1>2, <1>3, FirstFewKept, Zenon
<1>5. Cardinality(S) <= MaxEntries
  BY DEF S
<1>6. FirstFew(S, MaxEntries) = S
  BY <1>4, <1>5 DEF Kept
<1> QED BY <1>6 DEF Listed, S

\* What the loader knows of the binary's declarations.
LEMMA Lists ==
  ASSUME WellListed
  PROVE  ListsRead /\ FirstIs /\ LastIs
<1>1. FirstIs
  BY MinIs, Zenon DEF FirstIs
<1>2. LastIs
  BY MaxIs, Zenon DEF LastIs
<1>3. PICK n \in Nat : DOMAIN CfiEntries = 1..n
  BY ListDomains, Zenon
<1>4. PICK d \in Nat : DOMAIN Declared = 1..d
  BY ListDomains, Zenon
<1>5. ParsedCfi = {i \in DOMAIN CfiEntries : CfiEntries[i].site # 0}
  BY <1>3, ListedAll, Zenon DEF WellListed, ParsedCfi
<1>6. ASSUME Section = ".sentinel"
      PROVE  /\ Parsed = {i \in DOMAIN Declared : Declared[i].site # 0}
             /\ \A i \in Parsed : /\ Entries[i].site = Declared[i].site
                                  /\ Entries[i].enc = EncodedNr(Declared[i].nr)
  <2>1. /\ DOMAIN Entries = 1..d
        /\ \A i \in DOMAIN Declared : /\ Entries[i].site = Declared[i].site
                                      /\ Entries[i].enc = EncodedNr(Declared[i].nr)
    BY <1>4, <1>6 DEF Entries
  <2>2. {i \in DOMAIN Entries : Entries[i].site # 0} = {i \in DOMAIN Declared : Declared[i].site # 0}
    BY <1>4, <2>1
  <2>3. Parsed = {i \in DOMAIN Declared : Declared[i].site # 0}
    <3>1. Cardinality({i \in DOMAIN Entries : Entries[i].site # 0}) <= MaxEntries
      BY <2>2, Zenon DEF WellListed
    <3>2. Listed(Entries) = {i \in DOMAIN Entries : Entries[i].site # 0}
      BY <1>4, <2>1, <3>1, ListedAll, Zenon
    <3> QED BY <2>2, <3>2, Zenon DEF Parsed
  <2> QED BY <2>1, <2>3, Zenon
<1>7. ASSUME Section # ".sentinel" PROVE Parsed = {}
  BY <1>7 DEF Parsed, Listed, FirstFew, Entries
<1> QED BY <1>1, <1>2, <1>5, <1>6, <1>7, Zenon DEF ListsRead

\* libc_syms
LEMMA WrapperRows ==
  DOMAIN Wrappers = 1..12 /\ \A k \in DOMAIN Wrappers : Wrappers[k].nr \in 0..319
<1>1. DOMAIN Wrappers = 1..12
  BY DEF Wrappers
<1>2. ASSUME NEW k \in 1..12 PROVE Wrappers[k].nr \in 0..319
  <2>1. \/ k = 1 \/ k = 2 \/ k = 3 \/ k = 4 \/ k = 5 \/ k = 6 \/ k = 7 \/ k = 8 \/ k = 9
        \/ k = 10 \/ k = 11 \/ k = 12
    OBVIOUS
  <2> QED BY <2>1 DEF Wrappers
<1> QED BY <1>1, <1>2, Zenon

\* A site found in a function of libc is a trap of libc.
LEMMA FunctionTrap ==
  ASSUME WellPlaced, NEW l \in Layouts, NEW s \in DOMAIN Elf["libc"].symbols,
         NEW o \in FunctionSites(Elf["libc"], Elf["libc"].symbols[s])
  PROVE  /\ o \in Traps["libc"] /\ o \in Nat
         /\ l["libc"].lo + o \in Addresses /\ l["libc"].lo + o < l["libc"].hi
         /\ Elf["libc"].symbols[s].addr <= o
         /\ o + 1 < Elf["libc"].symbols[s].addr + Extent(Elf["libc"].symbols[s])
<1>1. "libc" \in Modules \ {"main"} /\ "libc" \in Modules
  BY DEF Modules
<1>2. FileOK(Elf["libc"])
  BY <1>1, EnforcerAssumption, Zenon
<1>3. /\ o \in Nat /\ SyscallAt(Elf["libc"], o)
      /\ Elf["libc"].symbols[s].addr <= o
      /\ o + 1 < Elf["libc"].symbols[s].addr + Extent(Elf["libc"].symbols[s])
      /\ \E k \in ExecSections(Elf["libc"]) : Spans(Elf["libc"].sections[k], o)
  BY <1>2, FunctionSound, Zenon
<1>4. /\ l["libc"].lo + o < l["libc"].hi /\ l["libc"].lo + o \in Addresses /\ o \in Addresses
  BY <1>1, <1>3, TextPlaced, Zenon
<1>5. o \in Traps["libc"]
  BY <1>1, <1>3, <1>4, Zenon DEF Traps
<1> QED BY <1>3, <1>4, <1>5

\* The bytes scanned after a symbol of unknown size belong to no wrapper.
LEMMA UnsizedApart ==
  ASSUME WellWrapped, NEW s \in DOMAIN Elf["libc"].symbols, NEW o \in Nat,
         Elf["libc"].symbols[s].name \in WrapperNames \cup Trampolines,
         Elf["libc"].symbols[s].addr # 0, Elf["libc"].symbols[s].size = 0,
         Elf["libc"].symbols[s].addr <= o,
         o + 1 < Elf["libc"].symbols[s].addr + ScanDefault,
         NEW f \in WrapperNames
  PROVE  ~InFunction(Elf["libc"], f, o)
<1> DEFINE sym == Elf["libc"].symbols
<1> SUFFICES ASSUME NEW k \in DOMAIN sym, sym[k].name = f, sym[k].addr # 0,
                    sym[k].addr <= o, o + 1 < sym[k].addr + sym[k].size
             PROVE  FALSE
  BY Zenon DEF InFunction
<1>1. FileOK(Elf["libc"])
  BY EnforcerAssumption, Zenon DEF Modules
<1>2. /\ sym[k].addr \in Nat /\ sym[k].size \in Nat /\ sym[s].addr \in Nat
  BY <1>1, Shapes, Zenon
<1>3. sym[k].size # 0
  BY <1>2
<1>4. sym[k].addr + sym[k].size <= sym[s].addr \/ sym[s].addr + ScanDefault <= sym[k].addr
  BY <1>3, Zenon DEF WellWrapped
<1>5. ScanDefault \in Nat
  BY ScanDefaultAssumption
<1> QED BY <1>2, <1>4, <1>5

\* A trap of a wrapper is among the sites resolved for it.
LEMMA WrapperResolved ==
  ASSUME WellWrapped, NEW f \in WrapperNames, NEW o \in Nat, SyscallAt(Elf["libc"], o),
         InFunction(Elf["libc"], f, o)
  PROVE  o \in ResolveSites(Elf["libc"], f, WrapperMax)
<1> DEFINE libc == Elf["libc"]
           sym == libc.symbols
           s   == SymbolOf(libc, f)
<1>1. FileOK(libc) /\ WrapperMax \in Nat
  BY EnforcerAssumption, Zenon DEF Modules
<1>2. PICK k \in DOMAIN sym : /\ sym[k].name = f /\ sym[k].addr # 0
                              /\ sym[k].addr <= o /\ o + 1 < sym[k].addr + sym[k].size
  BY Zenon DEF InFunction
<1>3. s # 0 /\ s \in DOMAIN sym /\ sym[s].name = f /\ sym[s].addr # 0
  BY <1>1, <1>2, SymbolFound, Zenon
<1>4. sym[s].addr = sym[k].addr /\ sym[s].size = sym[k].size
  BY <1>2, <1>3, Zenon DEF WellWrapped
<1>5. PICK x \in ExecSections(libc) : /\ libc.sections[x].addr <= sym[s].addr
                                      /\ sym[s].addr + sym[s].size <= End(libc.sections[x])
  BY <1>3, Zenon DEF WellWrapped
<1>6. sym[s].addr \in Nat /\ sym[s].size \in Nat
  BY <1>1, <1>3, Shapes, Zenon
<1>7. sym[s].addr <= o /\ o + 1 < sym[s].addr + sym[s].size
  BY <1>2, <1>4, Zenon
<1>8. sym[s].size # 0
  BY <1>6, <1>7
<1>9. o \in FunctionSites(libc, sym[s])
  BY <1>1, <1>3, <1>5, <1>7, <1>8, FunctionComplete, Zenon
<1>10. Cardinality(ResolveSites(libc, f, WrapperMax + 1)) <= WrapperMax
  BY Zenon DEF WellWrapped
<1>11. ResolveSites(libc, f, WrapperMax) = FunctionSites(libc, sym[s])
  BY <1>1, <1>3, <1>10, ResolveComplete, Zenon
<1> QED BY <1>9, <1>11, Zenon

\* A site resolved for a symbol is in the function, when its size is known, and
\* in no wrapper otherwise.
LEMMA ResolvedIn ==
  ASSUME WellPlaced, WellWrapped, NEW l \in Layouts,
         NEW n \in WrapperNames \cup Trampolines, NEW max,
         NEW o \in ResolveSites(Elf["libc"], n, max)
  PROVE  /\ o \in Traps["libc"] /\ o \in Nat
         /\ l["libc"].lo + o \in Addresses /\ l["libc"].lo + o < l["libc"].hi
         /\ \/ InFunction(Elf["libc"], n, o)
            \/ \A f \in WrapperNames : ~InFunction(Elf["libc"], f, o)
<1> DEFINE libc == Elf["libc"]
           s == SymbolOf(libc, n)
           sym == libc.symbols
<1>1. FileOK(libc)
  BY EnforcerAssumption, Zenon DEF Modules
<1>2. /\ s \in DOMAIN sym /\ sym[s].name = n /\ sym[s].addr # 0
      /\ o \in FunctionSites(libc, sym[s])
  BY <1>1, ResolveSound, Zenon
<1>3. /\ o \in Traps["libc"] /\ o \in Nat
      /\ l["libc"].lo + o \in Addresses /\ l["libc"].lo + o < l["libc"].hi
      /\ sym[s].addr <= o /\ o + 1 < sym[s].addr + Extent(sym[s])
  BY <1>2, FunctionTrap, Zenon
<1>4. CASE sym[s].size = 0
  <2>1. o + 1 < sym[s].addr + ScanDefault
    BY <1>3, <1>4, Zenon DEF Extent
  <2>2. \A f \in WrapperNames : ~InFunction(libc, f, o)
    BY <1>2, <1>3, <1>4, <2>1, UnsizedApart, Zenon
  <2> QED BY <1>3, <2>2, Zenon
<1>5. CASE sym[s].size # 0
  <2>1. o + 1 < sym[s].addr + sym[s].size
    BY <1>3, <1>5, Zenon DEF Extent
  <2>2. InFunction(libc, n, o)
    BY <1>2, <1>3, <2>1, Zenon DEF InFunction
  <2> QED BY <1>3, <2>2, Zenon
<1> QED BY <1>4, <1>5, Zenon

\* The verdict of libc's map on one of its offsets.
LEMMA LibcVerdict ==
  ASSUME WellPlaced, WellWrapped, NEW l \in Layouts, NEW o \in DOMAIN LibcPolicy,
         NEW nr \in 0..(Word - 1), NrPermitted(LibcPolicy[o], nr)
  PROVE  /\ LibcVouches(o, nr) /\ o \in Nat
         /\ l["libc"].lo + o \in Addresses /\ l["libc"].lo + o < l["libc"].hi
<1> DEFINE libc == Elf["libc"]
           outside == \A f \in WrapperNames : ~InFunction(libc, f, o)
<1>1. o \in BoundSites \cup CancelSites \cup TextSites("libc", ScanMax)
  BY Zenon DEF LibcPolicy
<1>2. ASSUME o \in Traps["libc"], outside PROVE LibcVouches(o, nr)
  <2>1. WrapperNrs[o] = {Wrappers[k].nr : k \in {j \in DOMAIN Wrappers :
                           \E f \in Wrappers[j].names : InFunction(libc, f, o)}}
    BY <1>2, Zenon DEF WrapperNrs
  <2>2. {j \in DOMAIN Wrappers : \E f \in Wrappers[j].names : InFunction(libc, f, o)} = {}
    BY <1>2, Zenon DEF WrapperNames
  <2>3. WrapperNrs[o] = {}
    BY <2>1, <2>2, Zenon
  <2> QED BY <1>2, <2>3, Zenon DEF LibcVouches
<1>3. CASE o \in CancelSites
  <2>1. PICK n \in Trampolines : o \in ResolveSites(libc, n, CancelMax)
    BY <1>3, Zenon DEF CancelSites
  <2>2. /\ o \in Traps["libc"] /\ o \in Nat
        /\ l["libc"].lo + o \in Addresses /\ l["libc"].lo + o < l["libc"].hi
        /\ InFunction(libc, n, o) \/ outside
    BY <2>1, ResolvedIn, Zenon
  <2>3. InFunction(libc, n, o) => LibcVouches(o, nr)
    BY <2>1, <2>2, Zenon DEF LibcVouches, TrampolineTraps
  <2> QED BY <1>2, <2>2, <2>3, Zenon
<1>4. CASE o \in BoundSites /\ o \notin CancelSites
  <2> DEFINE k == Max(ClaimedBy(o))
  <2>1. PICK x \in WrapperNames : o \in ResolveSites(libc, x, WrapperMax)
    BY <1>4, Zenon DEF BoundSites, WrapperNames
  <2>2. ClaimedBy(o) # {}
    BY <2>1, Zenon DEF WrapperNames, ClaimedBy
  <2>3. ClaimedBy(o) \in SUBSET (0..12)
    <3>1. ClaimedBy(o) \subseteq DOMAIN Wrappers
      BY Zenon DEF ClaimedBy
    <3>2. DOMAIN Wrappers = 1..12
      BY WrapperRows, Zenon
    <3>3. \A y \in 1..12 : y \in 0..12
      OBVIOUS
    <3> QED BY <3>1, <3>2, <3>3, Zenon
  <2>4. k \in ClaimedBy(o)
    BY <2>2, <2>3, MaxIs
  <2>5. PICK n \in Wrappers[k].names : /\ k \in DOMAIN Wrappers
                                      /\ o \in ResolveSites(libc, n, WrapperMax)
    BY <2>4, Zenon DEF ClaimedBy
  <2>6. n \in WrapperNames
    BY <2>5, Zenon DEF WrapperNames
  <2>7. /\ o \in Traps["libc"] /\ o \in Nat
        /\ l["libc"].lo + o \in Addresses /\ l["libc"].lo + o < l["libc"].hi
        /\ InFunction(libc, n, o) \/ outside
    BY <2>5, <2>6, ResolvedIn, Zenon
  <2>8. LibcPolicy[o] = PolicyValue(Wrappers[k].nr)
    BY <1>1, <1>4, Zenon DEF LibcPolicy
  <2> HIDE DEF k
  <2>9. Wrappers[k].nr = nr
    <3>1. Word > 319 /\ Word \in Nat
      BY EnforcerAssumption, WordAssumption
    <3>2. Wrappers[k].nr \in 0..319
      BY <2>5, WrapperRows, Zenon
    <3>3. Wrappers[k].nr \in DeclaredNrs /\ Wrappers[k].nr # AnyNr
      BY <3>1, <3>2 DEF DeclaredNrs, AnyNr
    <3>4. DecodedNr(EncodedNr(Wrappers[k].nr)) = Wrappers[k].nr
      BY <3>3, Decoding, Zenon
    <3>5. Wrappers[k].nr \in {AnyNr, nr}
      <4>1. NrPermitted(PolicyValue(DecodedNr(EncodedNr(Wrappers[k].nr))), nr)
        BY <2>8, <3>4
      <4> QED BY <3>3, <4>1, CodecFaithful
    <3> QED BY <3>3, <3>5
  <2>10. InFunction(libc, n, o) => LibcVouches(o, nr)
    <3>1. InFunction(libc, n, o) => nr \in WrapperNrs[o]
      BY <2>5, <2>7, <2>9, Zenon DEF WrapperNrs
    <3> QED BY <2>7, <3>1, Zenon DEF LibcVouches
  <2> QED BY <1>2, <2>7, <2>10, Zenon
<1>5. CASE o \notin BoundSites /\ o \notin CancelSites
  <2>1. o \in TextSites("libc", ScanMax)
    BY <1>1, <1>5, Zenon
  <2>2. /\ o \in Traps["libc"] /\ o \in Nat /\ l["libc"].lo + o \in Addresses
        /\ l["libc"].lo + o < l["libc"].hi
    BY <2>1, TextTrap DEF Modules
  <2>3. SyscallAt(libc, o)
    BY <2>2, Zenon DEF Traps, Modules
  <2>4. outside
    BY <1>5, <2>2, <2>3, WrapperResolved, Zenon DEF BoundSites, WrapperNames
  <2> QED BY <1>2, <2>2, <2>4, Zenon
<1> QED BY <1>3, <1>4, <1>5, Zenon

\* What the hooks admit once the maps are in order.
LEMMA Verdict ==
  ASSUME WellPlaced, WellListed, WellWrapped, MapsInv, stage = "run",
         NEW site \in Addresses, NEW nr \in 0..(Word - 1), NEW caller \in Callers,
         PolicyCheck(site, nr, caller)
  PROVE  Intended(site, nr, caller)
<1> DEFINE key == BlockOf(site)
           id  == vma[key].id
           o   == Offset(site, vma[key].base)
<1>1. /\ key \in DOMAIN vma /\ id \in DOMAIN registry /\ o \in DOMAIN registry[id]
      /\ NrPermitted(registry[id][o], nr)
      /\ o \in DOMAIN CfiPolicy => CallerValid(CfiPolicy[o], caller, vma[key].base)
      /\ layout \in Layouts
  BY Zenon DEF PolicyCheck, MapsInv
<1>2. id = 1 \/ id = 2 \/ id >= 3
  <2>1. PICK i : i = id
    BY Zenon
  <2>2. i \in 1..(nextId - 1) /\ nextId \in Nat
    BY <1>1, <2>1, Zenon DEF MapsInv
  <2>3. i = 1 \/ i = 2 \/ i >= 3
    BY <2>2
  <2> QED BY <2>1, <2>3, Zenon
<1>3. CASE id = 1
  <2>1. vma[key].base = layout["main"].lo /\ registry[1] = MainPolicy
    BY <1>1, <1>3, Zenon DEF MapsInv, MODULE_MAIN
  <2> QED BY <1>1, <1>3, <2>1, Lists, MainVerdict, Zenon
<1>4. CASE id = 2
  <2> DEFINE lo == layout["libc"].lo
             ldSites == LdOffsets(lo)
  <2>1. /\ vma[key].base = lo
        /\ "libc" \in Mapped /\ registry[2] = WithWildcards(LibcPolicy, ldSites)
    <3>1. DOMAIN << >> = {}
      OBVIOUS
    <3>2. registry[2] # << >>
      BY <1>1, <1>4, <3>1, Zenon
    <3> QED BY <1>1, <1>4, <3>2, Zenon DEF MapsInv, MODULE_LIBC
  <2>2. lo \in Addresses /\ lo \in Nat /\ layout["libc"].hi \in Nat
    <3>1. "libc" \in Modules
      BY DEF Modules
    <3> QED BY <1>1, <3>1, LayoutType, Zenon
  <2>3. CASE o \in DOMAIN LibcPolicy
    <3>1. registry[2][o] = LibcPolicy[o]
      BY <2>1, <2>3, Zenon DEF WithWildcards
    <3>2. LibcVouches(o, nr) /\ o \in Nat /\ lo + o \in Addresses /\ lo + o < layout["libc"].hi
      BY <1>1, <1>4, <2>3, <3>1, LibcVerdict, Zenon
    <3>3. site = lo + o
      <4>1. Offset(site, lo) = o
        BY <2>1, Zenon
      <4>2. \A x \in Addresses : x < Space
        BY VmaAssumption DEF Addresses
      <4> QED BY <2>2, <3>2, <4>1, <4>2, SiteAt, Zenon
    <3> HIDE DEF o
    <3>4. Inside("libc", site) /\ site - lo = o
      BY <2>1, <2>2, <3>2, <3>3 DEF Inside
    <3> QED BY <3>2, <3>4, Zenon DEF Intended
  <2>4. CASE o \notin DOMAIN LibcPolicy
    <3>1. o \in ldSites
      BY <1>1, <1>4, <2>1, <2>4, Zenon DEF WithWildcards
    <3>2. PICK s \in TextSites("ld", LdScanMax) : o = Offset(layout["ld"].lo + s, lo)
      BY <3>1, Zenon DEF LdOffsets
    <3>3. "ld" \in Mapped /\ "ld" \in Libs \cup {"ld"}
      BY EnforcerAssumption DEF Mapped, Modules
    <3> QED BY <1>1, <2>1, <2>2, <3>2, <3>3, TextVerdict, Zenon
  <2> QED BY <2>3, <2>4
<1>5. CASE id >= 3
  <2>1. PICK l \in Libs \cap Mapped :
          /\ registry[id] = WithWildcards(<< >>, TextSites(l, ScanMax))
          /\ \A k \in DOMAIN vma : vma[k].id = id => vma[k].base = layout[l].lo
    BY <1>1, <1>5, Zenon DEF MapsInv, MODULE_DYNAMIC_BASE
  <2>2. vma[key].base = layout[l].lo
    BY <1>1, <2>1, Zenon
  <2>3. o \in TextSites(l, ScanMax)
    <3>1. DOMAIN registry[id] = DOMAIN << >> \cup TextSites(l, ScanMax)
      BY <2>1, Zenon DEF WithWildcards
    <3>2. DOMAIN << >> = {}
      OBVIOUS
    <3> QED BY <1>1, <3>1, <3>2, Zenon
  <2>4. l \in Modules \ {"main"} /\ layout[l].lo \in Addresses
    <3>1. Libs \cap {"main", "libc", "ld"} = {}
      BY EnforcerAssumption, Zenon
    <3>2. l \in Modules /\ l # "main"
      BY <2>1, <3>1, Zenon DEF Modules
    <3> QED BY <1>1, <3>2, LayoutType, Zenon
  <2>5. o \in Nat /\ layout[l].lo + o \in Addresses
    BY <1>1, <2>3, <2>4, TextTrap, Zenon
  <2>6. Offset(layout[l].lo + o, layout[l].lo) = o
    <3>1. PICK x \in Nat : x = o
      BY <2>5, Zenon
    <3>2. layout[l].lo \in Nat /\ layout[l].lo + x - layout[l].lo = x /\ layout[l].lo <= layout[l].lo + x
      BY <2>4 DEF Addresses
    <3>3. Offset(layout[l].lo + x, layout[l].lo) = x
      BY <2>4, <2>5, <3>1, <3>2, OffsetIs
    <3> QED BY <3>1, <3>3, Zenon
  <2>7. Offset(site, layout[l].lo) = Offset(layout[l].lo + o, layout[l].lo)
    BY <2>2, <2>6, Zenon
  <2> QED BY <1>1, <2>1, <2>3, <2>4, <2>7, TextVerdict, Zenon
<1> QED BY <1>2, <1>3, <1>4, <1>5

\* The maps the loader installs are fail-closed (sentinel_check): for every
\* placement of the modules, every capacity of vma_map and whichever
\* registrations failed, an admitted call is one that the module containing its
\* site vouches for.
THEOREM FailClosed ==
  ASSUME WellPlaced, WellListed, WellWrapped
  PROVE  Spec => []OnlyIntendedAllowed
<1>1. MapsInv => OnlyIntendedAllowed
  <2>1. Addrs \subseteq Addresses /\ Nrs \subseteq 0..(Word - 1)
    BY EnforcerAssumption, Zenon
  <2> QED BY <2>1, Verdict, Zenon DEF OnlyIntendedAllowed
<1>2. Spec => []MapsInv
  BY MapsOrdered
<1> QED BY <1>1, <1>2, PTL

\* The process under the hooks behaves as the abstract monitor says, for every
\* number of threads and processes: what is let through was permitted, nothing
\* resumes after a lethal denial, and a killed process starts no thread.
THEOREM MonitorRefined ==
  ASSUME WellPlaced, WellListed, WellWrapped
  PROVE  Spec => MonitorSpec
<1>1. Spec => []OnlyIntendedAllowed
  BY FailClosed
<1> QED BY <1>1, MonitorFrom, PTL

-----------------------------------------------------------------------------
(* The type invariant.  Its content is the two bounded resources: the      *)
(* entries of vma_map and the module ids, which the loader hands out.      *)

BlocksOK(v, n) ==
  /\ IsFiniteSet(DOMAIN v) /\ Cardinality(DOMAIN v) <= VmaCap
  /\ \A k \in DOMAIN v : v[k].base \in Addresses /\ v[k].id \in 1..(n - 1)

OffsetsOK(r, n) ==
  /\ DOMAIN r \subseteq 1..(n - 1)
  /\ \A id \in DOMAIN r : DOMAIN r[id] \subseteq Addresses

\* Libraries still to come have ids left.
CountOK(next, libs) ==
  /\ libs \subseteq Libs /\ IsFiniteSet(libs)
  /\ next \in Nat /\ next >= MODULE_DYNAMIC_BASE
  /\ next + Cardinality(libs) <= MODULE_DYNAMIC_BASE + MaxLibs

Early == {"vma_main", "vma_libc", "main", "libc"}

TypeInv ==
  /\ stage \in Early \cup {"libs", "track", "run"}
  /\ layout \in Layouts /\ mode \in Modes
  /\ BlocksOK(vma, nextId) /\ OffsetsOK(registry, nextId) /\ CountOK(nextId, todo)
  /\ stage \in Early => nextId = MODULE_DYNAMIC_BASE
  /\ violated \in BOOLEAN

\* Updates of vma_map keep it within its capacity.
LEMMA PopulatedFits ==
  ASSUME NEW v, NEW n, BlocksOK(v, n), NEW keys, keys \subseteq Int, IsFiniteSet(keys),
         NEW b \in Addresses, NEW id \in 1..(n - 1)
  PROVE  BlocksOK(Populated(v, keys, [id |-> id, base |-> b]), n)
<1> DEFINE room == VmaCap - Cardinality(DOMAIN v)
           new  == keys \ DOMAIN v
           val  == [id |-> id, base |-> b]
           F    == FirstFew(new, room)
<1>1. IsFiniteSet(DOMAIN v) /\ Cardinality(DOMAIN v) <= VmaCap
  BY Zenon DEF BlocksOK
<1>2. Cardinality(DOMAIN v) \in Nat /\ VmaCap \in Nat
  BY <1>1, FS_CardinalityType, VmaAssumption, Zenon
<1>3. room \in Nat
  BY <1>1, <1>2
<1>4. new \subseteq Int /\ IsFiniteSet(new)
  <2>1. new \subseteq keys
    BY Zenon
  <2> QED BY <2>1, FS_Subset, Zenon
<1> HIDE DEF new, room, val
<1>5. Kept(new, room, F)
  BY <1>3, <1>4, FirstFewKept, Zenon
<1>6. /\ F \subseteq new /\ IsFiniteSet(F) /\ Cardinality(F) \in Nat /\ Cardinality(F) <= room
  BY <1>5, Zenon DEF Kept
<1>7. DOMAIN Populated(v, keys, val) = DOMAIN v \cup F
  BY Zenon DEF Populated, Accepted, new, room
<1>8. IsFiniteSet(DOMAIN v \cup F) /\ Cardinality(DOMAIN v \cup F) <= VmaCap
  <2>1. /\ IsFiniteSet(DOMAIN v \cup F)
        /\ Cardinality(DOMAIN v \cup F) =
             Cardinality(DOMAIN v) + Cardinality(F) - Cardinality(DOMAIN v \cap F)
    BY <1>1, <1>6, FS_Union, Zenon
  <2>2. Cardinality(DOMAIN v \cap F) \in Nat
    <3>1. IsFiniteSet(DOMAIN v \cap F)
      BY <1>6, FS_Subset, Zenon
    <3> QED BY <3>1, FS_CardinalityType, Zenon
  <2>3. PICK c, d, f : /\ c = Cardinality(DOMAIN v \cap F) /\ d = Cardinality(DOMAIN v)
                       /\ f = Cardinality(F)
    BY Zenon
  <2>4. c \in Nat /\ d \in Nat /\ f \in Nat /\ d + f - c <= VmaCap
    <3>1. c \in Nat /\ d \in Nat /\ f \in Nat /\ f <= VmaCap - d
      BY <1>2, <1>6, <2>2, <2>3, Zenon DEF room
    <3> QED BY <1>2, <3>1
  <2> QED BY <2>1, <2>3, <2>4, Zenon
<1>9. val.base \in Addresses /\ val.id \in 1..(n - 1)
  BY DEF val
<1>10. ASSUME NEW k \in DOMAIN Populated(v, keys, val)
       PROVE  /\ Populated(v, keys, val)[k].base \in Addresses
              /\ Populated(v, keys, val)[k].id \in 1..(n - 1)
  <2>1. PICK x : x = Populated(v, keys, val)[k]
    BY Zenon
  <2>2. x = val \/ (k \in DOMAIN v /\ x = v[k])
    <3>1. \A y \in DOMAIN Populated(v, keys, val) :
            \/ Populated(v, keys, val)[y] = val
            \/ y \in DOMAIN v /\ Populated(v, keys, val)[y] = v[y]
      BY PopulatedBlocks
    <3> QED BY <2>1, <3>1, Zenon
  <2>3. \A y \in DOMAIN v : v[y].base \in Addresses /\ v[y].id \in 1..(n - 1)
    BY Zenon DEF BlocksOK
  <2> QED BY <1>9, <2>1, <2>2, <2>3, Zenon
<1> QED BY <1>7, <1>8, <1>10, Zenon DEF BlocksOK, val

\* The blocks of a range are finitely many.
LEMMA KeysFinite ==
  ASSUME NEW lo \in Nat, NEW hi \in Nat
  PROVE  Keys(lo, hi) \subseteq Int /\ IsFiniteSet(Keys(lo, hi))
<1>1. BlockSize \in Nat /\ BlockSize > 0
  BY VmaAssumption, Zenon
<1>2. PICK f \in Int : f = BlockOf(lo) * BlockSize
  <2>1. BlockOf(lo) * BlockSize \in Int
    BY <1>1 DEF BlockOf
  <2> QED BY <2>1, Zenon
<1> DEFINE I == f..(hi - 1)
           B == {b \in I : b % BlockSize = 0}
           g == [a \in B |-> BlockOf(a)]
<1>3. IsFiniteSet(I)
  <2>1. f \in Int /\ hi - 1 \in Int
    OBVIOUS
  <2> QED BY <2>1, FS_Interval, Zenon
<1>4. IsFiniteSet(B)
  <2>1. B \subseteq I
    BY Zenon
  <2> HIDE DEF B, I
  <2> QED BY <1>3, <2>1, FS_Subset, Zenon
<1>5. Keys(lo, hi) = {BlockOf(a) : a \in B}
  BY <1>2, Zenon DEF Keys
<1>6. \A a \in I : BlockOf(a) \in Int
  BY <1>1 DEF BlockOf
<1>7. Keys(lo, hi) \subseteq Int
  BY <1>5, <1>6, Zenon
<1> HIDE DEF B, I
<1>8. g \in Surjection(B, Keys(lo, hi))
  BY <1>5, Zenon DEF Surjection
<1> HIDE DEF g
<1>9. IsFiniteSet(Keys(lo, hi))
  BY <1>4, <1>8, FS_Surjection, Zenon
<1> QED BY <1>7, <1>9, Zenon

\* What a search string finds has addresses.
LEMMA FoundPlaced ==
  ASSUME layout \in Layouts, NEW m, Found(m) # {}
  PROVE  Base(m) \in Addresses /\ Base(m) \in Nat /\ Top(m) \in Nat
<1> DEFINE los == {layout[x].lo : x \in Found(m)}
           his == {layout[x].hi : x \in Found(m)}
<1>1. Found(m) \subseteq Modules
  BY Zenon DEF Found, Mapped
<1>2. \A x \in Found(m) : /\ layout[x].lo \in Addresses /\ layout[x].lo \in Nat
                          /\ layout[x].hi \in Nat /\ layout[x].hi <= Space
  BY <1>1, LayoutType, Zenon
<1>3. Space \in Nat
  BY VmaAssumption, Zenon
<1>4. \A h \in Nat : h <= Space => h \in 0..Space
  BY <1>3
<1>5. \A h \in 0..Space : h \in Nat
  BY <1>3
<1>6. los \in SUBSET Nat /\ los \subseteq Addresses /\ los # {} /\ his \in SUBSET (0..Space) /\ his # {}
  BY <1>2, <1>4, Zenon
<1> HIDE DEF los, his
<1>7. Min(los) \in los /\ Max(his) \in his
  BY <1>3, <1>6, MinIs, MaxIs, Zenon
<1> QED BY <1>5, <1>6, <1>7, Zenon DEF Base, Top, los, his

\* populate_vma_for_module
LEMMA VmaFits ==
  ASSUME layout \in Layouts, NEW n, BlocksOK(vma, n), NEW m, NEW id \in 1..(n - 1)
  PROVE  BlocksOK(PopulateVma(m, id), n)
<1>1. CASE Found(m) = {}
  BY <1>1, Zenon DEF PopulateVma
<1>2. CASE Found(m) # {}
  <2>1. Base(m) \in Addresses /\ Base(m) \in Nat /\ Top(m) \in Nat
    BY <1>2, FoundPlaced, Zenon
  <2>2. Keys(Base(m), Top(m)) \subseteq Int /\ IsFiniteSet(Keys(Base(m), Top(m)))
    BY <2>1, KeysFinite, Zenon
  <2>3. BlocksOK(Populated(vma, Keys(Base(m), Top(m)), [id |-> id, base |-> Base(m)]), n)
    BY <2>1, <2>2, PopulatedFits, Zenon
  <2> QED BY <1>2, <2>3, Zenon DEF PopulateVma
<1> QED BY <1>1, <1>2, Zenon

\* The offsets of the maps are addresses: sums and differences wrap, and a
\* site found in a file is one of its text.
LEMMA OffsetIn ==
  ASSUME NEW x \in Int, NEW y \in Int
  PROVE  Offset(x, y) \in Addresses
  BY VmaAssumption DEF Offset, Addresses

LEMMA MainOffsets == DOMAIN MainPolicy \subseteq Addresses
<1> SUFFICES ASSUME NEW i \in Parsed PROVE RuntimeOffset(Entries[i].site) \in Addresses
  BY Zenon DEF MainPolicy
<1>1. i \in DOMAIN Entries
  BY Zenon DEF Parsed, Listed, FirstFew
<1>2. Section = ".sentinel"
  <2>1. DOMAIN << >> = {}
    OBVIOUS
  <2> QED BY <1>1, <2>1, Zenon DEF Entries
<1>3. i \in DOMAIN Declared /\ Entries[i].site = Declared[i].site
  BY <1>1, <1>2 DEF Entries
<1>4. Declared[i].site \in Int /\ ElfBase \in Int
  <2>1. Declared[i].site \in Nat /\ ElfBase \in Nat
    BY <1>3, EntryTypes, EnforcerAssumption, Zenon
  <2>2. \A x \in Nat : x \in Int
    OBVIOUS
  <2> QED BY <2>1, <2>2, Zenon
<1> QED BY <1>3, <1>4, OffsetIn, Zenon DEF RuntimeOffset

LEMMA TextOffsets ==
  ASSUME WellPlaced, layout \in Layouts, NEW m \in Modules \ {"main"}, NEW max
  PROVE  TextSites(m, max) \subseteq Addresses
<1>1. ASSUME NEW o \in TextSites(m, max) PROVE o \in Addresses
  BY TextTrap, Zenon DEF Traps
<1> QED BY <1>1, Zenon

LEMMA LibcOffsets ==
  ASSUME WellPlaced, layout \in Layouts
  PROVE  DOMAIN LibcPolicy \subseteq Addresses
<1>1. ASSUME NEW name, NEW max, NEW o \in ResolveSites(Elf["libc"], name, max)
      PROVE  o \in Addresses
  <2>1. "libc" \in Modules
    BY DEF Modules
  <2>2. FileOK(Elf["libc"])
    BY <2>1, EnforcerAssumption, Zenon
  <2>3. PICK s \in DOMAIN Elf["libc"].symbols :
          o \in FunctionSites(Elf["libc"], Elf["libc"].symbols[s])
    BY <2>2, ResolveSound, Zenon
  <2>4. o \in Traps["libc"]
    BY <2>3, FunctionTrap, Zenon
  <2> QED BY <2>1, <2>4, Zenon DEF Traps
<1>2. BoundSites \subseteq Addresses /\ CancelSites \subseteq Addresses
  BY <1>1, Zenon DEF BoundSites, CancelSites
<1>3. TextSites("libc", ScanMax) \subseteq Addresses
  <2>1. "libc" \in Modules \ {"main"}
    BY DEF Modules
  <2> QED BY <2>1, TextOffsets, Zenon
<1> QED BY <1>2, <1>3, Zenon DEF LibcPolicy

LEMMA LdOffsetsIn ==
  ASSUME WellPlaced, layout \in Layouts, NEW b \in Addresses
  PROVE  LdOffsets(b) \subseteq Addresses
<1>1. "ld" \in Modules /\ "ld" \in Modules \ {"main"}
  BY DEF Modules
<1>2. ASSUME NEW s \in TextSites("ld", LdScanMax)
      PROVE  Offset(layout["ld"].lo + s, b) \in Addresses
  <2>1. s \in Addresses /\ layout["ld"].lo \in Addresses
    BY <1>1, TextOffsets, LayoutType, Zenon
  <2>2. layout["ld"].lo + s \in Int /\ b \in Int
    BY <2>1, VmaAssumption DEF Addresses
  <2> QED BY <2>2, OffsetIn, Zenon
<1> QED BY <1>2, Zenon DEF LdOffsets

\* Registering a module, under an id that was handed out.
LEMMA RegisteredTyped ==
  ASSUME NEW n \in Nat, NEW m \in Nat, n <= m, OffsetsOK(registry, n), NEW id \in 1..(m - 1),
         NEW policy, DOMAIN policy \subseteq Addresses
  PROVE  OffsetsOK(Registered(id, policy), m)
<1>1. \A k \in 1..(n - 1) : k \in 1..(m - 1)
  OBVIOUS
<1>2. DOMAIN Registered(id, policy) = DOMAIN registry \cup {id}
  BY Zenon DEF Registered
<1>3. ASSUME NEW k \in DOMAIN registry \cup {id}
      PROVE  DOMAIN Registered(id, policy)[k] \subseteq Addresses
  <2>1. CASE k = id
    <3>1. Registered(id, policy)[k] = policy
      BY <2>1, Zenon DEF Registered
    <3> QED BY <3>1, Zenon
  <2>2. CASE k # id
    <3>1. Registered(id, policy)[k] = registry[k] /\ k \in DOMAIN registry
      BY <2>2, Zenon DEF Registered
    <3> QED BY <3>1, Zenon DEF OffsetsOK
  <2> QED BY <2>1, <2>2, Zenon
<1> QED BY <1>1, <1>2, <1>3, Zenon DEF OffsetsOK

\* discover_libraries stores MaxLibs libraries at most.
LEMMA DiscoveredFew ==
  ASSUME layout \in Layouts
  PROVE  CountOK(MODULE_DYNAMIC_BASE, Discovered)
<1> DEFINE found == (Libs \cap Mapped) \ Matching["main"]
           before == [l \in found |-> {k \in found : layout[k].lo < layout[l].lo}]
<1>1. found \subseteq Libs /\ found \subseteq Modules
  BY Zenon DEF Mapped, Modules
<1>2. IsFiniteSet(Libs) /\ MaxLibs \in Nat
  BY EnforcerAssumption, Zenon
<1>3. IsFiniteSet(found)
  BY <1>1, <1>2, FS_Subset, Zenon
<1>4. \A x \in found : layout[x].lo \in Nat /\ layout[x].hi \in Nat /\ layout[x].lo < layout[x].hi
  BY <1>1, LayoutType, EnforcerAssumption, Zenon
<1>5. \A x, y \in found : x # y =>
        layout[x].hi <= layout[y].lo \/ layout[y].hi <= layout[x].lo
  BY <1>1, EnforcerAssumption, Zenon
<1>6. Discovered = Few(found, before, MaxLibs)
  BY Zenon DEF Discovered, Few
<1> HIDE DEF found
<1>7. Ordered(found, before)
  <2>1. \A x, y, z \in found : layout[x].lo < layout[y].lo /\ layout[z].lo < layout[x].lo =>
                                 layout[z].lo < layout[y].lo
    BY <1>4
  <2>2. \A x, y \in found : x # y => layout[x].lo < layout[y].lo \/ layout[y].lo < layout[x].lo
    BY <1>4, <1>5
  <2>3. \A x \in found : ~(layout[x].lo < layout[x].lo)
    BY <1>4
  <2> QED BY <2>1, <2>2, <2>3, Zenon DEF Ordered
<1> HIDE DEF before
<1>8. Kept(found, MaxLibs, Discovered)
  BY <1>2, <1>3, <1>6, <1>7, FewKept, Zenon
<1>9. /\ Discovered \subseteq Libs /\ IsFiniteSet(Discovered)
      /\ Cardinality(Discovered) \in Nat /\ Cardinality(Discovered) <= MaxLibs
  BY <1>1, <1>8, Zenon DEF Kept
<1>10. MODULE_DYNAMIC_BASE + Cardinality(Discovered) <= MODULE_DYNAMIC_BASE + MaxLibs
  BY <1>2, <1>9 DEF MODULE_DYNAMIC_BASE
<1>11. MODULE_DYNAMIC_BASE \in Nat /\ MODULE_DYNAMIC_BASE >= MODULE_DYNAMIC_BASE
  BY DEF MODULE_DYNAMIC_BASE
<1> QED BY <1>9, <1>10, <1>11, Zenon DEF CountOK

\* Before installation.
LEMMA TypeInit == Init => TypeInv
<1> SUFFICES ASSUME Init PROVE TypeInv
  OBVIOUS
<1>1. DOMAIN << >> = {}
  OBVIOUS
<1>2. IsFiniteSet({}) /\ Cardinality({}) = 0
  BY FS_EmptySet, Zenon
<1>3. VmaCap \in Nat /\ MaxLibs \in Nat
  BY VmaAssumption, EnforcerAssumption, Zenon
<1>4. 0 <= VmaCap /\ 3 + 0 <= 3 + MaxLibs /\ 3 \in Nat /\ 3 >= 3
  BY <1>3
<1>5. BlocksOK(vma, nextId) /\ OffsetsOK(registry, nextId)
  BY <1>1, <1>2, <1>4, Zenon DEF Init, BlocksOK, OffsetsOK
<1>6. CountOK(nextId, todo)
  BY <1>2, <1>4, Zenon DEF Init, CountOK, MODULE_DYNAMIC_BASE
<1>7. stage \in Early /\ violated \in BOOLEAN
  BY Zenon DEF Init, Early
<1> QED BY <1>5, <1>6, <1>7, Zenon DEF Init, TypeInv

\* Installing a library takes an id and one of the libraries to come.
LEMMA LibCounted ==
  ASSUME CountOK(nextId, todo), NEW l \in todo
  PROVE  /\ CountOK(nextId + 1, todo \ {l}) /\ CountOK(nextId, todo \ {l})
         /\ nextId \in Nat /\ nextId + 1 \in Nat /\ nextId <= nextId + 1
         /\ nextId \in 1..((nextId + 1) - 1)
<1>1. /\ nextId \in Nat /\ nextId >= 3 /\ todo \subseteq Libs /\ IsFiniteSet(todo)
      /\ nextId + Cardinality(todo) <= 3 + MaxLibs
  BY Zenon DEF CountOK, MODULE_DYNAMIC_BASE
<1>2. IsFiniteSet(todo \ {l}) /\ Cardinality(todo \ {l}) = Cardinality(todo) - 1
  BY <1>1, FS_RemoveElement, Zenon
<1>3. Cardinality(todo) \in Nat /\ MaxLibs \in Nat
  BY <1>1, FS_CardinalityType, EnforcerAssumption, Zenon
<1>4. /\ nextId + 1 \in Nat /\ nextId + 1 >= 3
      /\ (nextId + 1) + (Cardinality(todo) - 1) <= 3 + MaxLibs
      /\ nextId + (Cardinality(todo) - 1) <= 3 + MaxLibs
      /\ nextId <= nextId + 1 /\ nextId \in 1..((nextId + 1) - 1)
  BY <1>1, <1>3
<1>5. todo \ {l} \subseteq Libs
  BY <1>1, Zenon
<1> QED BY <1>1, <1>2, <1>4, <1>5, Zenon DEF CountOK, MODULE_DYNAMIC_BASE

\* Blocks of handed out ids stay so.
LEMMA BlocksLater ==
  ASSUME NEW v, NEW n \in Nat, NEW m \in Nat, n <= m, BlocksOK(v, n)
  PROVE  BlocksOK(v, m)
<1>1. \A k \in 1..(n - 1) : k \in 1..(m - 1)
  OBVIOUS
<1> QED BY <1>1, Zenon DEF BlocksOK

\* Every step of the loader keeps within the capacities.
LEMMA InstallTyped ==
  ASSUME WellPlaced, TypeInv, Install
  PROVE  TypeInv'
<1>a. /\ layout' = layout /\ mode' = mode /\ violated' = violated
      /\ layout \in Layouts /\ mode \in Modes /\ violated \in BOOLEAN
      /\ BlocksOK(vma, nextId) /\ OffsetsOK(registry, nextId) /\ CountOK(nextId, todo)
  BY Zenon DEF Install, PopulateMain, PopulateLibc, RegisterMain, RegisterLibc, RegisterLib,
     SetupCfi, Track, run, TypeInv
<1>b. ASSUME nextId' = nextId, todo' = todo, registry' = registry, vma' = vma,
             stage' \in Early \cup {"libs", "track", "run"}, stage' \in Early => stage \in Early
      PROVE  TypeInv'
  <2>1. BlocksOK(vma, nextId)' /\ OffsetsOK(registry, nextId)' /\ CountOK(nextId, todo)'
    BY <1>a, <1>b DEF BlocksOK, OffsetsOK, CountOK
  <2>2. stage' \in Early => nextId' = MODULE_DYNAMIC_BASE
    BY <1>b, Zenon DEF TypeInv
  <2> QED BY <1>a, <1>b, <2>1, <2>2, Zenon DEF TypeInv
<1>c. nextId \in Nat /\ nextId >= 3
  BY <1>a, Zenon DEF CountOK, MODULE_DYNAMIC_BASE
<1>d. 1 \in 1..(nextId - 1) /\ 2 \in 1..(nextId - 1) /\ nextId <= nextId
  BY <1>c
<1>e. "libc" \in Modules
  BY DEF Modules
<1>1. ASSUME NEW m, NEW id \in 1..(nextId - 1), vma' = PopulateVma(m, id),
             nextId' = nextId, todo' = todo, registry' = registry,
             stage' \in Early, stage \in Early
      PROVE  TypeInv'
  <2>1. BlocksOK(vma', nextId)
    BY <1>a, <1>1, VmaFits, Zenon
  <2>2. BlocksOK(vma, nextId)' /\ OffsetsOK(registry, nextId)' /\ CountOK(nextId, todo)'
    BY <1>a, <1>1, <2>1, Zenon DEF BlocksOK, OffsetsOK, CountOK
  <2>3. nextId' = MODULE_DYNAMIC_BASE
    BY <1>1, Zenon DEF TypeInv
  <2> QED BY <1>a, <1>1, <2>2, <2>3, Zenon DEF TypeInv
<1>2. CASE PopulateMain
  <2>1. /\ vma' = PopulateVma("main", 1) /\ nextId' = nextId /\ todo' = todo
        /\ registry' = registry /\ stage' \in Early /\ stage \in Early
    BY <1>2, Zenon DEF PopulateMain, MODULE_MAIN, Early
  <2> QED BY <1>1, <1>d, <2>1, Zenon
<1>3. CASE PopulateLibc
  <2>1. /\ vma' = PopulateVma("libc", 2) \/ vma' = vma
        /\ nextId' = nextId /\ todo' = todo
        /\ registry' = registry /\ stage' \in Early /\ stage \in Early
    BY <1>3, Zenon DEF PopulateLibc, MODULE_LIBC, Early
  <2> QED BY <1>1, <1>b, <1>d, <2>1, Zenon
<1>4. CASE RegisterMain
  <2>1. /\ registry' = Registered(1, MainPolicy) /\ nextId' = nextId /\ todo' = todo
        /\ vma' = vma /\ stage' \in Early /\ stage \in Early
    BY <1>4, Zenon DEF RegisterMain, MODULE_MAIN, Early
  <2>2. OffsetsOK(registry', nextId)
    BY <1>a, <1>c, <1>d, <2>1, MainOffsets, RegisteredTyped, Zenon
  <2>3. BlocksOK(vma, nextId)' /\ OffsetsOK(registry, nextId)' /\ CountOK(nextId, todo)'
    BY <1>a, <2>1, <2>2, Zenon DEF BlocksOK, OffsetsOK, CountOK
  <2>4. nextId' = MODULE_DYNAMIC_BASE
    BY <2>1, Zenon DEF TypeInv
  <2> QED BY <1>a, <2>1, <2>3, <2>4, Zenon DEF TypeInv
<1>5. CASE RegisterLibc
  <2> DEFINE base == Base("libc")
             ld   == layout["ld"]
             val  == [id |-> MODULE_LIBC, base |-> base]
  <2>1. /\ nextId' = nextId /\ todo' = Discovered /\ stage' = "libs" /\ stage \in Early
        /\ \/ /\ "libc" \in Mapped
              /\ registry' = Registered(MODULE_LIBC, WithWildcards(LibcPolicy, LdOffsets(base)))
              /\ vma' = Populated(vma, Keys(ld.lo, ld.hi), val)
           \/ /\ "libc" \in Mapped
              /\ registry' = Registered(MODULE_LIBC, << >>)
              /\ vma' = vma
           \/ registry' = registry /\ vma' = vma
    BY <1>5, Zenon DEF RegisterLibc, Early
  <2> HIDE DEF base, ld, val
  <2>2. nextId = MODULE_DYNAMIC_BASE
    BY <2>1, Zenon DEF TypeInv
  <2>3. CountOK(nextId, todo)'
    <3>1. CountOK(nextId, Discovered)
      BY <1>a, <2>2, DiscoveredFew, Zenon
    <3> QED BY <2>1, <3>1, Zenon DEF CountOK
  <2>4. ASSUME "libc" \in Mapped PROVE base \in Addresses
    <3>1. "libc" \in Matching["libc"]
      BY <1>e, EnforcerAssumption, Zenon
    <3>2. Found("libc") # {}
      BY <2>4, <3>1, Zenon DEF Found
    <3> QED BY <1>a, <3>2, FoundPlaced, Zenon DEF base
  <2>5. OffsetsOK(registry', nextId)
    <3>1. ASSUME "libc" \in Mapped PROVE OffsetsOK(Registered(2, WithWildcards(LibcPolicy, LdOffsets(base))), nextId)
      <4>1. LdOffsets(base) \subseteq Addresses /\ DOMAIN LibcPolicy \subseteq Addresses
        BY <1>a, <2>4, <3>1, LdOffsetsIn, LibcOffsets, Zenon
      <4>2. DOMAIN WithWildcards(LibcPolicy, LdOffsets(base)) \subseteq Addresses
        BY <4>1, Zenon DEF WithWildcards
      <4> QED BY <1>a, <1>c, <1>d, <4>2, RegisteredTyped, Zenon
    <3>2. OffsetsOK(Registered(2, << >>), nextId)
      <4>1. DOMAIN << >> = {}
        OBVIOUS
      <4>2. DOMAIN << >> \subseteq Addresses
        BY <4>1, Zenon
      <4> QED BY <1>a, <1>c, <1>d, <4>2, RegisteredTyped, Zenon
    <3> QED BY <1>a, <2>1, <3>1, <3>2, Zenon DEF MODULE_LIBC
  <2>6. BlocksOK(vma', nextId)
    <3>1. ASSUME "libc" \in Mapped
          PROVE  BlocksOK(Populated(vma, Keys(ld.lo, ld.hi), [id |-> 2, base |-> base]), nextId)
      <4>1. "ld" \in Modules
        BY DEF Modules
      <4>2. ld.lo \in Nat /\ ld.hi \in Nat
        BY <1>a, <4>1, LayoutType, Zenon DEF ld
      <4>3. Keys(ld.lo, ld.hi) \subseteq Int /\ IsFiniteSet(Keys(ld.lo, ld.hi))
        BY <4>2, KeysFinite, Zenon
      <4> QED BY <1>a, <1>d, <2>4, <3>1, <4>3, PopulatedFits, Zenon
    <3> QED BY <1>a, <2>1, <3>1, Zenon DEF val, MODULE_LIBC
  <2>7. BlocksOK(vma, nextId)' /\ OffsetsOK(registry, nextId)'
    BY <2>1, <2>5, <2>6, Zenon DEF BlocksOK, OffsetsOK
  <2>8. stage' \notin Early
    BY <2>1 DEF Early
  <2> QED BY <1>a, <2>1, <2>3, <2>7, <2>8, Zenon DEF TypeInv
<1>6. ASSUME NEW l \in Libs, RegisterLib(l) PROVE TypeInv'
  <2>1. /\ stage = "libs" /\ stage' = stage /\ l \in todo /\ todo' = todo \ {l}
        /\ \/ /\ registry' = Registered(nextId, WithWildcards(<< >>, TextSites(l, ScanMax)))
              /\ vma' = PopulateVma(l, nextId)
              /\ nextId' = nextId + 1
           \/ registry' = registry /\ vma' = vma /\ nextId' = nextId
    BY <1>6, Zenon DEF RegisterLib
  <2>2. /\ CountOK(nextId + 1, todo \ {l}) /\ CountOK(nextId, todo \ {l})
        /\ nextId \in Nat /\ nextId + 1 \in Nat /\ nextId <= nextId + 1
        /\ nextId \in 1..((nextId + 1) - 1)
    BY <1>a, <2>1, LibCounted, Zenon
  <2>3. CountOK(nextId', todo')
    BY <2>1, <2>2, Zenon
  <2>4. OffsetsOK(Registered(nextId, WithWildcards(<< >>, TextSites(l, ScanMax))), nextId + 1)
    <3>1. DOMAIN << >> = {}
      OBVIOUS
    <3>2. l \in Modules \ {"main"}
      <4>1. Libs \cap {"main", "libc", "ld"} = {}
        BY EnforcerAssumption, Zenon
      <4> QED BY <4>1, Zenon DEF Modules
    <3>3. TextSites(l, ScanMax) \subseteq Addresses
      BY <1>a, <3>2, TextOffsets, Zenon
    <3>4. DOMAIN WithWildcards(<< >>, TextSites(l, ScanMax)) \subseteq Addresses
      BY <3>1, <3>3, Zenon DEF WithWildcards
    <3> QED BY <1>a, <2>2, <3>4, RegisteredTyped, Zenon
  <2>5. BlocksOK(PopulateVma(l, nextId), nextId + 1)
    <3>1. BlocksOK(vma, nextId + 1)
      BY <1>a, <2>2, BlocksLater, Zenon
    <3> QED BY <1>a, <2>2, <3>1, VmaFits, Zenon
  <2>6. BlocksOK(vma', nextId') /\ OffsetsOK(registry', nextId')
    BY <1>a, <2>1, <2>4, <2>5, Zenon
  <2>7. BlocksOK(vma, nextId)' /\ OffsetsOK(registry, nextId)' /\ CountOK(nextId, todo)'
    BY <2>3, <2>6, Zenon DEF BlocksOK, OffsetsOK, CountOK
  <2>8. stage' \notin Early
    BY <2>1 DEF Early
  <2> QED BY <1>a, <2>1, <2>7, <2>8, Zenon DEF TypeInv
<1>7. CASE SetupCfi \/ Track
  <2>1. /\ nextId' = nextId /\ todo' = todo /\ registry' = registry /\ vma' = vma
        /\ stage' \in {"track", "run"}
    BY <1>7, Zenon DEF SetupCfi, Track, install
  <2>2. stage' \notin Early
    BY <2>1 DEF Early
  <2> QED BY <1>b, <2>1, <2>2, Zenon
<1> QED BY <1>2, <1>3, <1>4, <1>5, <1>6, <1>7, Zenon DEF Install

\* The steps after it leave the maps alone.
LEMMA TypeStep ==
  ASSUME WellPlaced, TypeInv, [Next]_vars
  PROVE  TypeInv'
<1>1. CASE Install
  BY <1>1, InstallTyped, Zenon
<1>2. ASSUME UNCHANGED <<stage, layout, mode, install>>, violated' \in {violated, TRUE}
      PROVE  TypeInv'
  <2>1. /\ stage' = stage /\ layout' = layout /\ mode' = mode /\ vma' = vma /\ todo' = todo
        /\ nextId' = nextId /\ registry' = registry
    BY <1>2, Zenon DEF install
  <2>2. BlocksOK(vma, nextId)' /\ OffsetsOK(registry, nextId)' /\ CountOK(nextId, todo)'
    BY <2>1, Zenon DEF BlocksOK, OffsetsOK, CountOK, TypeInv
  <2>3. violated' \in BOOLEAN
    BY <1>2, Zenon DEF TypeInv
  <2> QED BY <2>1, <2>2, <2>3, Zenon DEF TypeInv
<1>3. CASE \E t \in Threads : Syscall(t) \/ Kernel(t) \/ Exit(t)
  BY <1>2, <1>3, Zenon DEF Syscall, Kernel, Return, Interrupt, Exit
<1>4. CASE \E t, u \in Threads : Spawn(t, u)
  BY <1>2, <1>4, Zenon DEF Spawn
<1>5. CASE TakeTerm
  BY <1>2, <1>5, Zenon DEF TakeTerm
<1>6. CASE UNCHANGED vars
  BY <1>2, <1>6, Zenon DEF vars, run
<1> QED BY <1>1, <1>3, <1>4, <1>5, <1>6, Zenon DEF Next

\* vma_map never holds more than its capacity, ids are handed out in sequence
\* and stay below the limit however many libraries are mapped, and only the
\* last step enrols the child (loader.c:833-875, 1654-1784, 1875-1893).
THEOREM EnforcerTyped ==
  ASSUME WellPlaced
  PROVE  Spec => []TypeOK
<1>1. TypeInv /\ MonitorInv => TypeOK
  <2> SUFFICES ASSUME TypeInv, MonitorInv PROVE TypeOK
    OBVIOUS
  <2>1. nextId \in MODULE_DYNAMIC_BASE..(MODULE_DYNAMIC_BASE + MaxLibs) /\ todo \subseteq Libs
    <3>1. /\ nextId \in Nat /\ nextId >= 3 /\ todo \subseteq Libs /\ IsFiniteSet(todo)
          /\ nextId + Cardinality(todo) <= 3 + MaxLibs
      BY Zenon DEF TypeInv, CountOK, MODULE_DYNAMIC_BASE
    <3>2. Cardinality(todo) \in Nat /\ MaxLibs \in Nat
      BY <3>1, FS_CardinalityType, EnforcerAssumption, Zenon
    <3> QED BY <3>1, <3>2 DEF MODULE_DYNAMIC_BASE
  <2>2. /\ thread \in [Threads -> {"absent", "user", "allowed", "denied", "dead"}]
        /\ after \in [Threads -> 0..2] /\ tracked = (stage = "run")
        /\ doomed \in BOOLEAN /\ termed \in BOOLEAN
    BY Zenon DEF MonitorInv, KillInv, States
  <2> QED BY <2>1, <2>2, Zenon DEF TypeOK, TypeInv, BlocksOK, OffsetsOK, Early
<1>2. Init => TypeInv /\ MonitorInv
  BY TypeInit, MonitorInit
<1>3. TypeInv /\ MonitorInv /\ [Next]_vars => (TypeInv /\ MonitorInv)'
  BY TypeStep, MonitorStep
<1> QED BY <1>1, <1>2, <1>3, PTL DEF Spec

=============================================================================
