--------------------------- MODULE PolicySection ---------------------------
(***************************************************************************)
(* The policy section from the compiler pass to its readers: SentinelPass  *)
(* emits one block (header and entries) per translation unit, the linker   *)
(* concatenates the blocks, sentinel_dump walks them, and the loader looks *)
(* for the policy in its own way.                                          *)
(*                                                                         *)
(* A unit is a sequence of instructions.  An assembly text is abstracted   *)
(* to the pattern the pass finds in it, an address to the instruction it   *)
(* stands for.  Offsets in the section are real: a header takes            *)
(* HeaderSize bytes, an entry EntrySize.                                   *)
(***************************************************************************)
EXTENDS PolicyCodec, Sequences, Ranks

CONSTANTS
  Units,   \* translation units
  Bodies,  \* bound: instruction sequences a unit may consist of
  Tails    \* bound: bytes after the last block; negative: bytes cut off it

HeaderSize == 9
EntrySize  == 24

RaxCodes == {"a", "{ax}", "{rax}", "{eax}"}

\* Inputs that reach RAX: by their own constraint or tied to an output in RAX.
InRax(ops) ==
  {k \in DOMAIN ops : /\ ops[k].dir = "in"
                      /\ \/ ops[k].code \in RaxCodes
                         \/ ops[k].code = "0" /\ ops[1].code \in RaxCodes}

\* An operand of inline assembly, and the instructions that matter.
Operands     == [dir : {"in", "out"}, indirect : BOOLEAN, code : STRING, const : BOOLEAN, val : Int]
Instructions == [kind : {"asm"}, text : STRING, ops : Seq(Operands)]
                  \cup [kind : {"call"}, callee : STRING] \cup [kind : {"indirect"}]

\* No compiler accepts two inputs in one register.
ASSUME SectionAssumption ==
  /\ Tails \subseteq Int
  /\ Bodies \subseteq Seq(Instructions)
  /\ \A code \in Bodies : \A k \in DOMAIN code :
       code[k].kind = "asm" => \A i, j \in InRax(code[k].ops) : i = j

VARIABLES
  body,      \* unit -> its instructions
  object,    \* unit -> its block: a sequence of entries; << >>: no section
  todo,      \* units not compiled yet
  order,     \* order in which the linker takes the objects
  section,   \* the linked blocks: size, headers and entries by offset
  tail,      \* bytes after the last block
  pc,        \* progress: build, args, open, find, loop, entries, done
  json,      \* json_mode
  offset,    \* offset of the current header
  index,     \* entries of the current block printed
  printed,   \* the entries printed: [site, nr, comma]
  exit       \* return value of sentinel_dump

build == <<body, object, todo, order, section, tail>>
dump  == <<json, offset, index, printed, exit>>
vars  == <<build, pc, dump>>

-----------------------------------------------------------------------------
(* The pass.                                                               *)

\* getSyscallNumberForWrapper
WrapperNr ==
  [write |-> 1, __write |-> 1, __libc_write |-> 1,
   read |-> 0, __read |-> 0, __libc_read |-> 0,
   open |-> 2, __open |-> 2, __libc_open |-> 2,
   close |-> 3, __close |-> 3, __libc_close |-> 3,
   lseek |-> 8, openat |-> 257, fstat |-> 5, stat |-> 4, lstat |-> 6, fstatat |-> 262,
   fork |-> 57, vfork |-> 58, clone |-> 56, execve |-> 59, execveat |-> 322,
   mmap |-> 9, munmap |-> 11, mprotect |-> 10, mremap |-> 25, brk |-> 12,
   socket |-> 41, connect |-> 42, bind |-> 49, listen |-> 50, accept |-> 43,
   accept4 |-> 288, send |-> 44, sendto |-> 44, recv |-> 45, recvfrom |-> 45,
   sendmsg |-> 46, recvmsg |-> 47,
   ptrace |-> 101, kill |-> 62, tkill |-> 200, tgkill |-> 234,
   sigaction |-> 13, rt_sigaction |-> 13, rt_sigprocmask |-> 14]

\* Wrappers that may make several syscalls, or whose number is not listed.
UnboundWrappers ==
  {"__sys_write", "__sys_read", "syscall",
   "printf", "fprintf", "vprintf", "vfprintf", "sprintf", "snprintf", "dprintf",
   "puts", "fputs", "putchar", "fputc", "putc", "fwrite", "fread", "fflush",
   "fopen", "fclose", "fdopen", "freopen",
   "fgets", "fgetc", "getchar", "getline", "getdelim", "perror"}

\* isKnownSyscallWrapper
KnownWrappers == DOMAIN WrapperNr \cup UnboundWrappers

\* Texts found by substring, and the byte sequences of containsObfuscatedSyscall.
SyscallTexts    == {"syscall", "int $0x80", "int $$0x80", "svc #0", "svc 0"}
ObfuscatedTexts == {".byte 0x0f,0x05", ".byte 15,5", "\\x0f\\x05"}

IsSyscall(i) ==
  \/ i.kind = "asm" /\ i.text \in SyscallTexts \cup ObfuscatedTexts
  \/ i.kind = "call" /\ i.callee \in KnownWrappers

\* LLVM passes the inputs and the indirect outputs of inline assembly as
\* arguments, in order.
IsArg(op) == op.dir = "in" \/ op.indirect
Arguments(ops) == Ranked({k \in DOMAIN ops : IsArg(ops[k])})

\* Mutant: indirect outputs do not consume an argument.
ArgIdxInputsOnly(ops, k) == Cardinality({j \in 1..(k - 1) : ops[j].dir = "in"})

\* argIdx when the loop reaches operand k.
ArgIdx(ops, k) == Cardinality({j \in 1..(k - 1) : IsArg(ops[j])})

\* extractSyscallNumberFromAsm: the first input in RAX, if it is a constant.
AsmNr(ops) ==
  LET k    == Lowest({j \in DOMAIN ops : ops[j].dir = "in" /\ ops[j].code \in RaxCodes})
      idx  == ArgIdx(ops, k)
      args == Arguments(ops)
      arg  == ops[args[idx + 1]]
  IN  IF k # 0 /\ idx < Len(args) /\ arg.const THEN arg.val ELSE AnyNr

SyscallNr(i) ==
  CASE i.kind = "asm" -> AsmNr(i.ops)
    [] i.kind = "call" /\ i.callee \in DOMAIN WrapperNr -> WrapperNr[i.callee]
    [] OTHER -> AnyNr

\* The entry that keeps a unit without syscalls from being stripped.
NullSite == << >>
Dummy    == [site |-> NullSite, enc |-> 0]

\* The instructions that the pass collects, by position.
Sites(code) == {k \in DOMAIN code : IsSyscall(code[k])}

\* SentinelPass::run for unit u: the block it emits.
Block(u, code) ==
  LET at == Ranked(Sites(code))
  IN  IF Sites(code) = {} THEN <<Dummy>>
      ELSE [j \in DOMAIN at |-> [site |-> <<u, at[j]>>, enc |-> EncodedNr(SyscallNr(code[at[j]]))]]

-----------------------------------------------------------------------------
(* The linked section.                                                     *)

NoSection == [size |-> 0, count |-> << >>, entry |-> << >>]

\* The linker appends a block: packed, with alignment 1.
Appended(sec, block) ==
  LET at(i) == sec.size + HeaderSize + EntrySize * (i - 1)
      new   == {at(i) : i \in DOMAIN block}
  IN  [size  |-> sec.size + HeaderSize + EntrySize * Len(block),
       count |-> [o \in DOMAIN sec.count \cup {sec.size} |->
                    IF o = sec.size THEN Len(block) ELSE sec.count[o]],
       entry |-> [o \in DOMAIN sec.entry \cup new |->
                    IF o \in new THEN block[CHOOSE i \in DOMAIN block : at(i) = o] ELSE sec.entry[o]]]

\* 24 bytes that are no entry.
Garbage == [site |-> <<"?">>, enc |-> 0]
EntryAt(o) == IF o \in DOMAIN section.entry THEN section.entry[o] ELSE Garbage

-----------------------------------------------------------------------------
(* Building the binary.                                                    *)

Init ==
  /\ body \in [Units -> Bodies]
  /\ object = [u \in Units |-> << >>] /\ todo = Units
  /\ order = << >> /\ section = NoSection /\ tail = 0
  /\ pc = "build"
  /\ json = FALSE /\ offset = 0 /\ index = 0 /\ printed = << >> /\ exit = 0

Compile(u) ==
  /\ u \in todo
  /\ object' = [object EXCEPT ![u] = Block(u, body[u])]
  /\ todo' = todo \ {u}
  /\ UNCHANGED <<body, order, section, tail, pc, dump>>

\* The unit is built without -fpass-plugin.
CompileBare(u) ==
  /\ u \in todo
  /\ todo' = todo \ {u}
  /\ UNCHANGED <<body, object, order, section, tail, pc, dump>>

Unlinked == {u \in Units : object[u] # << >> /\ \A k \in DOMAIN order : order[k] # u}

\* The linker takes the next object of the command line; one that was compiled
\* without the pass contributes nothing.
Link(u) ==
  /\ pc = "build" /\ todo = {} /\ u \in Unlinked
  /\ order' = Append(order, u)
  /\ section' = Appended(section, object[u])
  /\ UNCHANGED <<body, object, todo, tail, pc, dump>>

\* The section of the binary, with other bytes at its end or cut short.
Emit ==
  /\ pc = "build" /\ todo = {} /\ Unlinked = {}
  /\ tail' \in IF order = << >> THEN {0} ELSE Tails
  /\ pc' = "args"
  /\ UNCHANGED <<body, object, todo, order, section, dump>>

-----------------------------------------------------------------------------
(* sentinel_dump.                                                          *)

\* data->d_size
Size == section.size + tail

Finish(c) == pc' = "done" /\ exit' = c

\* --help and --version return 0, a missing path returns 1.
ParseArgs ==
  /\ pc = "args"
  /\ json' \in BOOLEAN
  /\ \/ Finish(0) \/ Finish(1)
     \/ pc' = "open" /\ UNCHANGED exit
  /\ UNCHANGED <<build, offset, index, printed>>

\* open, elf_begin and elf_getshdrstrndx may fail.
OpenFile ==
  /\ pc = "open"
  /\ \/ Finish(1)
     \/ pc' = "find" /\ UNCHANGED exit
  /\ UNCHANGED <<build, json, offset, index, printed>>

\* No section returns 1; data missing or shorter than a header is an empty dump.
FindSection ==
  /\ pc = "find"
  /\ \/ order = << >> /\ Finish(1)
     \/ order # << >> /\ Finish(0)
     \/ order # << >> /\ Size >= HeaderSize /\ pc' = "loop" /\ UNCHANGED exit
  /\ UNCHANGED <<build, json, offset, index, printed>>

HeaderFits == offset + HeaderSize <= Size
HasMagic   == offset \in DOMAIN section.count
BlockEnd   == offset + HeaderSize + EntrySize * section.count[offset]

\* Mutant: the count of a header is believed.
BlockFitsUnchecked == TRUE

BlockFits == BlockEnd <= Size

ReadHeader ==
  /\ pc = "loop" /\ HeaderFits /\ HasMagic /\ BlockFits
  /\ pc' = "entries" /\ index' = 0
  /\ UNCHANGED <<build, json, offset, printed, exit>>

\* The end of the section, bad magic or a count that does not fit.
LeaveLoop ==
  /\ pc = "loop" /\ ~(HeaderFits /\ HasMagic /\ BlockFits)
  /\ Finish(0)
  /\ UNCHANGED <<build, json, offset, index, printed>>

\* Mutant: the separator is left out after the last entry of every block.
SeparatedPerBlock == index + 1 # section.count[offset]

\* No comma after the last entry of the block that ends the section.
Separated == ~(BlockEnd >= Size /\ index + 1 = section.count[offset])

PrintEntry ==
  /\ pc = "entries" /\ index < section.count[offset]
  /\ LET e == EntryAt(offset + HeaderSize + EntrySize * index)
     IN  printed' = Append(printed, [site |-> e.site, nr |-> DecodedNr(e.enc),
                                     comma |-> json /\ Separated])
  /\ index' = index + 1
  /\ UNCHANGED <<build, pc, json, offset, exit>>

\* Mutant: only the entries are skipped.
NextBlockNoHeader ==
  /\ pc = "entries" /\ index = section.count[offset]
  /\ offset' = BlockEnd - HeaderSize
  /\ pc' = "loop"
  /\ UNCHANGED <<build, json, index, printed, exit>>

NextBlock ==
  /\ pc = "entries" /\ index = section.count[offset]
  /\ offset' = BlockEnd
  /\ pc' = "loop"
  /\ UNCHANGED <<build, json, index, printed, exit>>

Next ==
  \/ \E u \in Units : Compile(u) \/ CompileBare(u) \/ Link(u)
  \/ Emit
  \/ ParseArgs \/ OpenFile \/ FindSection
  \/ ReadHeader \/ LeaveLoop \/ PrintEntry \/ NextBlock

Spec == Init /\ [][Next]_vars

-----------------------------------------------------------------------------
(* The loader's view: parse_sentinel_section looks for .sentinel and takes *)
(* it for an array of entries.                                             *)

SectionName == ".llvm.syscall.bounds"

LoaderEntries ==
  IF SectionName # ".sentinel" THEN << >>
  ELSE LET raw == [i \in 1..(Size \div EntrySize) |-> EntryAt(EntrySize * (i - 1))]
       IN  SelectSeq(raw, LAMBDA e : e.site # NullSite)

-----------------------------------------------------------------------------
(* Properties.                                                             *)

\* What a unit declares, by position in its program; 0: the entry of a unit
\* without syscalls.
Marks(code) == IF Sites(code) = {} THEN {0} ELSE Sites(code)
Declares(u, code, k) ==
  IF k = 0 THEN [site |-> NullSite, nr |-> AnyNr]
  ELSE LET nr == SyscallNr(code[k])
       IN  [site |-> <<u, k>>, nr |-> IF nr >= 0 THEN nr ELSE AnyNr]

\* What units declare, read off their programs in link order.
Pairs(bodies, units) == UNION {{p} \X Marks(bodies[units[p]]) : p \in DOMAIN units}
Listing(bodies, units) ==
  LET all == RankedPairs(Pairs(bodies, units))
  IN  [j \in DOMAIN all |-> Declares(units[all[j][1]], bodies[units[all[j][1]]], all[j][2])]

Declared == Listing(body, order)

Shown == [j \in DOMAIN printed |-> [site |-> printed[j].site, nr |-> printed[j].nr]]

\* Type invariant: the reader's position stays within the section.
TypeOK ==
  /\ body \in [Units -> Bodies] /\ todo \subseteq Units
  /\ pc \in {"build", "args", "open", "find", "loop", "entries", "done"}
  /\ json \in BOOLEAN /\ exit \in {0, 1}
  /\ offset \in Nat /\ index \in Nat
  /\ pc \in {"loop", "entries"} => offset <= Size
  /\ pc = "entries" => index <= section.count[offset]

\* sentinel_dump shows what the units declare, in link order and with the
\* numbers the pass found: never an entry that no unit declared, and all of
\* them when the walk has passed a section made of whole blocks.
DumpFaithful ==
  /\ \A j \in DOMAIN printed : j \in DOMAIN Declared /\ Shown[j] = Declared[j]
  /\ (pc = "done" /\ printed # << >> /\ tail >= 0) => Shown = Declared

\* The JSON list is well formed for a section made of whole blocks: a comma
\* after every entry but the last, across the blocks of all units.
JsonSeparated ==
  (pc = "done" /\ json /\ tail = 0) =>
    \A j \in DOMAIN printed : printed[j].comma <=> j < Len(printed)

\* The number declared for inline assembly is the value the instruction finds
\* in RAX, whatever operands come before it; it is "any" only when that value
\* is no constant or reaches RAX through a tied operand.
NumberIsRax ==
  \A u \in Units : \A j \in DOMAIN object[u] :
    LET e == object[u][j] IN
    (e.site # NullSite /\ body[u][e.site[2]].kind = "asm") =>
      LET ops == body[u][e.site[2]].ops
      IN  \A k \in InRax(ops) :
            \/ ops[k].const /\ ops[k].val = DecodedNr(e.enc)
            \/ DecodedNr(e.enc) = AnyNr /\ (~ops[k].const \/ ops[k].val < 0 \/ ops[k].code = "0")

=============================================================================
