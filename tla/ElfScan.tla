------------------------------ MODULE ElfScan ------------------------------
(***************************************************************************)
(* How the loader finds syscall instructions in an ELF file: the scan of   *)
(* the executable sections and the scan of one function.                   *)
(*                                                                         *)
(* A file is [sections, symbols].  A section is [exec, addr, bytes]; its   *)
(* bytes are "0f", "05" or something else.  The symbols of .dynsym and     *)
(* .symtab form one sequence of [name, func, addr, size].                  *)
(***************************************************************************)
EXTENDS Sequences, Ranks

CONSTANT ScanDefault  \* LIBC_SCAN_DEFAULT: window of a symbol of unknown size

ASSUME ScanDefaultAssumption == ScanDefault \in Nat

\* Mutant: the last pair of bytes of a window is not looked at.
OpcodeSitesShort(sec, from, limit) ==
  {sec.addr + i - 1 : i \in {j \in (from + 1)..(from + limit - 2) :
                               sec.bytes[j] = "0f" /\ sec.bytes[j + 1] = "05"}}

\* Addresses of 0f 05 among the limit bytes of sec that follow the first from.
OpcodeSites(sec, from, limit) ==
  {sec.addr + i - 1 : i \in {j \in (from + 1)..(from + limit - 1) :
                               sec.bytes[j] = "0f" /\ sec.bytes[j + 1] = "05"}}

ExecSections(elf) == {k \in DOMAIN elf.sections : elf.sections[k].exec}

End(sec)      == sec.addr + Len(sec.bytes)
Spans(sec, a) == sec.addr <= a /\ a < End(sec)

\* All sites of the text, as pairs of a section and an address.
TextHits(elf) ==
  LET in(k) == OpcodeSites(elf.sections[k], 0, Len(elf.sections[k].bytes))
  IN  UNION {{k} \X in(k) : k \in ExecSections(elf)}

\* scan_elf_text_for_syscalls: section by section, max sites at most.
ScanText(elf, max) == {h[2] : h \in FirstPairs(TextHits(elf), max)}

\* The first executable section that holds an address; 0: none.
SectionOf(elf, a) == Lowest({k \in ExecSections(elf) : Spans(elf.sections[k], a)})

\* The first defined symbol of a name; 0: none.
SymbolOf(elf, name) ==
  Lowest({k \in DOMAIN elf.symbols : elf.symbols[k].name = name /\ elf.symbols[k].addr # 0})

\* The sites of the function that sym names, clipped to the section that holds
\* it.
FunctionSites(elf, sym) ==
  LET sec  == elf.sections[SectionOf(elf, sym.addr)]
      from == sym.addr - sec.addr
      size == IF sym.size = 0 THEN ScanDefault ELSE sym.size
      rest == End(sec) - sym.addr
  IN  IF SectionOf(elf, sym.addr) = 0 THEN {}
      ELSE OpcodeSites(sec, from, IF size > rest THEN rest ELSE size)

\* resolve_libc_syscall_sites
ResolveSites(elf, name, max) ==
  IF SymbolOf(elf, name) = 0 THEN {}
  ELSE FirstFew(FunctionSites(elf, elf.symbols[SymbolOf(elf, name)]), max)

-----------------------------------------------------------------------------
(* Reference definitions, address by address.                              *)

\* The byte at an address of executable text, "--" elsewhere.
ByteAt(elf, a) ==
  LET in  == {k \in ExecSections(elf) : Spans(elf.sections[k], a)}
      sec == elf.sections[CHOOSE k \in in : TRUE]
  IN  IF in = {} THEN "--" ELSE sec.bytes[a - sec.addr + 1]

SyscallAt(elf, a) == ByteAt(elf, a) = "0f" /\ ByteAt(elf, a + 1) = "05"

\* Address a and the byte after it belong to a function called name.
InFunction(elf, name, a) ==
  \E k \in DOMAIN elf.symbols :
    LET s == elf.symbols[k]
    IN  s.name = name /\ s.addr # 0 /\ s.addr <= a /\ a + 1 < s.addr + s.size

\* A file as the linker leaves it: no two executable sections overlap.
FileOK(elf) ==
  /\ elf.sections \in Seq([exec : BOOLEAN, addr : Nat, bytes : Seq(STRING)])
  /\ elf.symbols \in Seq([name : STRING, func : BOOLEAN, addr : Nat, size : Nat])
  /\ \A j, k \in ExecSections(elf) :
       j # k => \/ End(elf.sections[j]) <= elf.sections[k].addr
                \/ End(elf.sections[k]) <= elf.sections[j].addr

=============================================================================
