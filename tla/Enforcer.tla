------------------------------ MODULE Enforcer ------------------------------
(***************************************************************************)
(* From compiled policy to verdict: the loader fills the BPF maps while    *)
(* the child is stopped (loader.c:1284-1893), then the fentry hooks of     *)
(* sentinel.bpf.c judge the syscalls of the child's threads.               *)
(*                                                                         *)
(* The modules of the process are "main", "libc", "ld" and Libs.  Names    *)
(* and paths are abstracted to which modules a search string matches.      *)
(* system_wide and cgroup_filter are never set by the loader and have no   *)
(* branch here.                                                            *)
(***************************************************************************)
EXTENDS PolicyCodec, VmaMap, ElfScan

CONSTANTS
  Libs,        \* further shared libraries
  MaxLibs,     \* libraries the loader collects (size of seen_libs)
  Late,        \* modules mapped only after the loader has read the maps
  Layouts,     \* possible placements: module -> [lo, hi), hi exclusive
  Matching,    \* search string of a module -> modules whose path contains it
  Declared,    \* what the pass declares: sequence of [site, nr], site an ELF address
  Section,     \* name of the ELF section that carries the declarations
  MaxEntries,  \* MAX_POLICY_ENTRIES
  ElfBase,     \* p_vaddr of the first PT_LOAD of the main binary
  Elf,         \* module -> its file, as ElfScan reads it
  WrapperMax,  \* sites kept of a libc wrapper (8)
  CancelMax,   \* sites kept of a cancellation trampoline (4)
  ScanMax,     \* sites kept of the text of libc or a library (512)
  LdScanMax,   \* sites kept of the text of ld.so (256)
  CfiEntries,  \* .sentinel_cfi: sequence of [site, func, size]; size 0: unknown
  DefaultSize, \* size assumed for a function of unknown size (4096)
  DoWrite,     \* symbol do_write of the binary, [addr, size]; addr 0: absent
  SafeCaller,  \* symbol safe_caller, likewise
  SiteGuess,   \* assumed distance of the syscall from do_write (16)
  Modes,       \* enforcement modes the user may choose
  Nrs,         \* numbers the program may use
  Addrs,       \* bound: addresses syscalls are made from
  Callers,     \* bound: return addresses on the stack; NoStack: walk failed
  NoStack,
  Child,       \* threads of the launched process
  Forked       \* threads of a process it forks

Modules == {"main", "libc", "ld"} \cup Libs
Mapped  == Modules \ Late
Threads == Child \cup Forked

ASSUME EnforcerAssumption ==
  /\ NoStack \notin Addresses
  /\ Addrs \subseteq Addresses /\ Callers \subseteq Addresses \cup {NoStack}
  /\ Modes \subseteq {"kill", "permissive", "term"}
  /\ Nrs \subseteq 0..(Word - 1)
  /\ Late \subseteq Modules \ {"main", "ld"}
  /\ Child \cap Forked = {}
  /\ IsFiniteSet(Libs) /\ Libs \cap {"main", "libc", "ld"} = {}
  /\ Layouts \subseteq [Modules -> [lo : Addresses, hi : 0..Space]]
  /\ \A l \in Layouts, m, n \in Modules :
       /\ l[m].lo < l[m].hi
       /\ m # n => l[m].hi <= l[n].lo \/ l[n].hi <= l[m].lo
  /\ \A m \in Modules : m \in Matching[m]
  /\ Declared \in Seq([site : Nat, nr : DeclaredNrs])
  /\ CfiEntries \in Seq([site : Nat, func : Nat, size : Nat])
  /\ DoWrite \in [addr : Nat, size : Nat] /\ SafeCaller \in [addr : Nat, size : Nat]
  /\ \A n \in {MaxLibs, MaxEntries, ElfBase, WrapperMax, CancelMax, ScanMax, LdScanMax,
               DefaultSize, SiteGuess} : n \in Nat
  /\ \A m \in Modules : FileOK(Elf[m])
  /\ Word > 319

VARIABLES
  stage,     \* progress of the loader
  layout,    \* where the modules are mapped
  mode,      \* enforce_mode
  vma,       \* vma_map
  todo,      \* discovered libraries not installed yet
  nextId,    \* next_mod_id
  registry,  \* policy_registry: module id -> (offset -> policy value)
  cfi,       \* cfi_policy
  tracked,   \* target_pid_map holds the child's TGID
  thread,    \* per thread: absent, user, allowed, denied (in a syscall), dead
  doomed,    \* SIGKILL has been sent to the child
  termed,    \* SIGTERM has been sent to the child and not been taken yet
  violated,  \* history: a hook has denied a syscall
  after      \* history: syscalls entered by a thread since then (at most 2)

install == <<vma, todo, nextId, registry, cfi>>
run     == <<thread, doomed, termed, violated, after>>
vars    == <<stage, layout, mode, install, tracked, run>>

-----------------------------------------------------------------------------
(* What the loader reads.                                                  *)

MODULE_MAIN == 1
MODULE_LIBC == 2
MODULE_DYNAMIC_BASE == 3

\* What a search string finds in /proc/PID/maps: all lines that contain it.
Found(m)  == Matching[m] \cap Mapped
Base(m)   == Min({layout[x].lo : x \in Found(m)})
Top(m)    == Max({layout[x].hi : x \in Found(m)})

\* populate_vma_for_module
PopulateVma(m, id) ==
  IF Found(m) = {} THEN vma
  ELSE Populated(vma, Keys(Base(m), Top(m)), [id |-> id, base |-> Base(m)])

\* The policy as the loader finds it: it looks for .sentinel only.
Entries ==
  IF Section # ".sentinel" THEN << >>
  ELSE [i \in DOMAIN Declared |->
          [site |-> Declared[i].site, enc |-> EncodedNr(Declared[i].nr)]]

\* The entries read, by index: null entries are skipped and the rest is cut at
\* MAX_POLICY_ENTRIES.
Listed(entries) == FirstFew({i \in DOMAIN entries : entries[i].site # 0}, MaxEntries)

Parsed    == Listed(Entries)
ParsedCfi == Listed(CfiEntries)

\* Mutant: the ELF address is used as it stands.
RuntimeOffsetRaw(site) == site

\* elf_vaddr - elf_load_base
RuntimeOffset(site) == Offset(site, ElfBase)

\* One update per entry, in order: the last entry for an offset stays.
MainPolicy ==
  LET at(o) == {i \in Parsed : RuntimeOffset(Entries[i].site) = o}
  IN  [o \in {RuntimeOffset(Entries[i].site) : i \in Parsed} |->
         PolicyValue(DecodedNr(Entries[Max(at(o))].enc))]

\* libc_syms, by number.
Wrappers ==
  << [nr |-> 1,   names |-> {"write", "__write", "__libc_write", "__write_nocancel"}],
     [nr |-> 0,   names |-> {"read", "__read", "__libc_read", "__read_nocancel"}],
     [nr |-> 257, names |-> {"openat", "openat64", "__openat_nocancel", "open", "open64",
                              "__open", "__open64", "__libc_open", "__libc_open64",
                              "__open_nocancel", "__open64_nocancel"}],
     [nr |-> 9,   names |-> {"mmap", "mmap64", "__mmap"}],
     [nr |-> 10,  names |-> {"mprotect", "__mprotect"}],
     [nr |-> 42,  names |-> {"connect", "__connect"}],
     [nr |-> 319, names |-> {"memfd_create"}],
     [nr |-> 157, names |-> {"prctl", "__prctl"}],
     [nr |-> 46,  names |-> {"sendmsg", "__sendmsg"}],
     [nr |-> 33,  names |-> {"dup2"}],
     [nr |-> 3,   names |-> {"close", "__close", "__libc_close", "__close_nocancel"}],
     [nr |-> 16,  names |-> {"ioctl"}] >>

\* cancel_syms
Trampolines == {"__syscall_cancel_arch", "__syscall_cancel", "__internal_syscall_cancel"}

\* Rows of libc_syms that claim an offset of libc.
ClaimedBy(o) ==
  {k \in DOMAIN Wrappers : \E n \in Wrappers[k].names :
     o \in ResolveSites(Elf["libc"], n, WrapperMax)}

BoundSites  == UNION {ResolveSites(Elf["libc"], n, WrapperMax) :
                        n \in UNION {Wrappers[k].names : k \in DOMAIN Wrappers}}
CancelSites == UNION {ResolveSites(Elf["libc"], n, CancelMax) : n \in Trampolines}
TextSites(m, max) == ScanText(Elf[m], max)

\* Bound wrappers, the last claim of a site stays; trampolines over them; then
\* the rest of the text as wildcards (BPF_NOEXIST).
LibcPolicy ==
  [o \in BoundSites \cup CancelSites \cup TextSites("libc", ScanMax) |->
     PolicyValue(IF o \in BoundSites \ CancelSites THEN Wrappers[Max(ClaimedBy(o))].nr
                 ELSE AnyNr)]

\* ld.so's sites are stored relative to libc's base.
LdOffsets(libcBase) ==
  {Offset(layout["ld"].lo + s, libcBase) : s \in TextSites("ld", LdScanMax)}

WithWildcards(policy, offsets) ==
  [o \in DOMAIN policy \cup offsets |->
     IF o \in DOMAIN policy THEN policy[o] ELSE PolicyValue(AnyNr)]

Registered(id, policy) ==
  [i \in DOMAIN registry \cup {id} |-> IF i = id THEN policy ELSE registry[i]]

\* Generalised CFI, one update per entry: the function that holds the site.
SectionCfi ==
  LET at(o) == {i \in ParsedCfi : RuntimeOffset(CfiEntries[i].site) = o}
      range(e) == [start |-> RuntimeOffset(e.func),
                   end   |-> RuntimeOffset(e.func)
                             + (IF e.size = 0 THEN DefaultSize ELSE e.size)]
  IN  [o \in {RuntimeOffset(CfiEntries[i].site) : i \in ParsedCfi} |->
         range(CfiEntries[Max(at(o))])]

\* setup_cfi_policy: the first policy site inside do_write, or a guess, may
\* only be reached from safe_caller.
SymbolCfi ==
  LET callee == RuntimeOffset(DoWrite.addr)
      caller == RuntimeOffset(SafeCaller.addr)
      inside == {i \in Parsed :
                   RuntimeOffset(Entries[i].site) \in callee..(callee + DoWrite.size - 1)}
      site   == IF inside = {} THEN callee + SiteGuess
                ELSE RuntimeOffset(Entries[Min(inside)].site)
  IN  IF DoWrite.addr = 0 \/ SafeCaller.addr = 0 THEN << >>
      ELSE [o \in {site} |-> [start |-> caller, end |-> caller + SafeCaller.size]]

CfiPolicy == IF ParsedCfi # {} THEN SectionCfi ELSE SymbolCfi

\* Libraries in the order of /proc/PID/maps, that is, by address.
Discovered ==
  LET found == (Libs \cap Mapped) \ Matching["main"]
  IN  {l \in found :
         Cardinality({k \in found : layout[k].lo < layout[l].lo}) < MaxLibs}

-----------------------------------------------------------------------------
(* Installation, with the child stopped.                                   *)

Init ==
  /\ stage = "vma_main"
  /\ layout \in Layouts
  /\ mode \in Modes
  /\ vma = << >> /\ todo = {} /\ nextId = MODULE_DYNAMIC_BASE
  /\ registry = << >> /\ cfi = << >>
  /\ tracked = FALSE
  /\ thread = [t \in Threads |-> "absent"]
  /\ doomed = FALSE /\ termed = FALSE /\ violated = FALSE
  /\ after = [t \in Threads |-> 0]

PopulateMain ==
  /\ stage = "vma_main"
  /\ vma' = PopulateVma("main", MODULE_MAIN)
  /\ stage' = "vma_libc"
  /\ UNCHANGED <<layout, mode, todo, nextId, registry, cfi, tracked, run>>

PopulateLibc ==
  /\ stage = "vma_libc"
  /\ vma' = IF "libc" \in Mapped THEN PopulateVma("libc", MODULE_LIBC) ELSE vma
  /\ stage' = "main"
  /\ UNCHANGED <<layout, mode, todo, nextId, registry, cfi, tracked, run>>

RegisterMain ==
  /\ stage = "main"
  /\ registry' = Registered(MODULE_MAIN, MainPolicy)
  /\ stage' = "libc"
  /\ UNCHANGED <<layout, mode, vma, todo, nextId, cfi, tracked, run>>

\* The libc map also takes ld.so's sites, and ld.so's blocks get libc's base.
\* A libc whose file is not found keeps an empty map; a map that cannot be
\* created leaves libc and ld.so without a policy.
RegisterLibc ==
  /\ stage = "libc"
  /\ LET base == Base("libc")
         ld   == layout["ld"]
     IN  \/ /\ "libc" \in Mapped
            /\ registry' = Registered(MODULE_LIBC,
                              WithWildcards(LibcPolicy, LdOffsets(base)))
            /\ vma' = Populated(vma, Keys(ld.lo, ld.hi),
                                [id |-> MODULE_LIBC, base |-> base])
         \/ /\ "libc" \in Mapped
            /\ registry' = Registered(MODULE_LIBC, << >>)
            /\ UNCHANGED vma
         \/ UNCHANGED <<registry, vma>>
  /\ todo' = Discovered
  /\ stage' = "libs"
  /\ UNCHANGED <<layout, mode, nextId, cfi, tracked, run>>

\* A library whose map cannot be created or registered is passed over.
RegisterLib(l) ==
  /\ stage = "libs"
  /\ l \in todo /\ \A k \in todo : layout[l].lo <= layout[k].lo
  /\ \/ /\ registry' = Registered(nextId, WithWildcards(<< >>, TextSites(l, ScanMax)))
        /\ vma' = PopulateVma(l, nextId)
        /\ nextId' = nextId + 1
     \/ UNCHANGED <<registry, vma, nextId>>
  /\ todo' = todo \ {l}
  /\ UNCHANGED <<stage, layout, mode, cfi, tracked, run>>

SetupCfi ==
  /\ stage = "libs" /\ todo = {}
  /\ cfi' = CfiPolicy
  /\ stage' = "track"
  /\ UNCHANGED <<layout, mode, vma, todo, nextId, registry, tracked, run>>

\* Enrol the TGID and detach: the process starts with one thread.
Track ==
  /\ stage = "track"
  /\ tracked' = TRUE
  /\ stage' = "run"
  /\ \E t \in Child : thread' = [thread EXCEPT ![t] = "user"]
  /\ UNCHANGED <<layout, mode, install, doomed, termed, violated, after>>

-----------------------------------------------------------------------------
(* The hooks.                                                              *)

\* Caller validation of a site with a CFI range (both ends inclusive).
CallerValid(range, caller, base) ==
  /\ caller # NoStack
  /\ Offset(caller, base) \in range.start..range.end

\* Mutant: the module of the site is ignored when the offset is looked up.
PolicyCheckAnyModule(site, nr, caller) ==
  LET key == BlockOf(site)
  IN  /\ key \in DOMAIN vma
      /\ LET offset == Offset(site, vma[key].base)
         IN  /\ \E id \in DOMAIN registry : /\ offset \in DOMAIN registry[id]
                                           /\ NrPermitted(registry[id][offset], nr)
             /\ offset \in DOMAIN cfi => CallerValid(cfi[offset], caller, vma[key].base)

\* sentinel_check for an enrolled TGID: every lookup must succeed.
PolicyCheck(site, nr, caller) ==
  LET key == BlockOf(site)
  IN  /\ key \in DOMAIN vma
      /\ LET mod    == vma[key]
             offset == Offset(site, mod.base)
         IN  /\ mod.id \in DOMAIN registry
             /\ offset \in DOMAIN registry[mod.id]
             /\ NrPermitted(registry[mod.id][offset], nr)
             /\ offset \in DOMAIN cfi => CallerValid(cfi[offset], caller, mod.base)

\* Hooks that call sentinel_check: write, read, openat, execve, mmap, mprotect,
\* connect, memfd_create, prctl, sendmsg, dup2, close, ioctl.
Hooked == {1, 0, 257, 59, 9, 10, 42, 319, 157, 46, 33, 3, 16}

\* Hooks that always deny: process_vm_writev, seccomp.
Blocked == {311, 317}

\* A hook ignores TGIDs that are not enrolled; a number without a hook is
\* never judged.
Judged(t, nr)  == tracked /\ t \in Child /\ nr \in Hooked \cup Blocked
Denied(t, site, nr, caller) ==
  /\ Judged(t, nr)
  /\ nr \in Hooked => ~PolicyCheck(site, nr, caller)

\* Mutant: a violation is only reported.
DenyActionReports == UNCHANGED <<doomed, termed>>

\* deny_action: bpf_send_signal goes to the whole thread group.
DenyAction ==
  /\ doomed' = (doomed \/ mode = "kill")
  /\ termed' = (termed \/ mode = "term")

\* A thread enters a syscall and its hook runs.  The hook cannot refuse the
\* call: whatever the verdict, the kernel goes on to execute it.
Syscall(t) ==
  /\ thread[t] = "user"
  /\ \E site \in Addrs, nr \in Nrs, caller \in Callers :
       \/ /\ Denied(t, site, nr, caller)
          /\ thread' = [thread EXCEPT ![t] = "denied"]
          /\ DenyAction
          /\ violated' = TRUE
       \/ /\ ~Denied(t, site, nr, caller)
          /\ thread' = [thread EXCEPT ![t] = "allowed"]
          /\ UNCHANGED <<doomed, termed, violated>>
  /\ after' = IF violated /\ t \in Child /\ after[t] < 2
              THEN [after EXCEPT ![t] = @ + 1] ELSE after
  /\ UNCHANGED <<stage, layout, mode, install, tracked>>

\* Return to user space: a fatal signal is taken first.
Return(t) ==
  /\ thread[t] \in {"allowed", "denied"}
  /\ thread' = [thread EXCEPT ![t] = IF doomed /\ t \in Child THEN "dead" ELSE "user"]
  /\ UNCHANGED <<stage, layout, mode, install, tracked, doomed, termed, violated, after>>

\* A thread in user space is interrupted by the fatal signal.
Interrupt(t) ==
  /\ thread[t] = "user" /\ doomed /\ t \in Child
  /\ thread' = [thread EXCEPT ![t] = "dead"]
  /\ UNCHANGED <<stage, layout, mode, install, tracked, doomed, termed, violated, after>>

\* SIGTERM: the program dies of it or handles it.
TakeTerm ==
  /\ termed
  /\ termed' = FALSE
  /\ doomed' \in {doomed, TRUE}
  /\ UNCHANGED <<stage, layout, mode, install, tracked, thread, violated, after>>

\* A thread of the child starts another one, or forks; the kernel refuses both
\* with a fatal signal pending.  No hook watches either: a new process is not
\* enrolled.
Spawn(t, u) ==
  /\ thread[t] = "user" /\ t \in Child /\ ~doomed
  /\ thread[u] = "absent"
  /\ thread' = [thread EXCEPT ![u] = "user"]
  /\ UNCHANGED <<stage, layout, mode, install, tracked, doomed, termed, violated, after>>

Exit(t) ==
  /\ thread[t] = "user"
  /\ thread' = [thread EXCEPT ![t] = "dead"]
  /\ UNCHANGED <<stage, layout, mode, install, tracked, doomed, termed, violated, after>>

Install ==
  \/ PopulateMain \/ PopulateLibc \/ RegisterMain \/ RegisterLibc
  \/ (\E l \in Libs : RegisterLib(l)) \/ SetupCfi \/ Track

Kernel(t) == Return(t) \/ Interrupt(t)

Next ==
  \/ Install
  \/ \E t \in Threads : Syscall(t) \/ Kernel(t) \/ Exit(t)
  \/ \E t, u \in Threads : Spawn(t, u)
  \/ TakeTerm

Spec == Init /\ [][Next]_vars

-----------------------------------------------------------------------------
(* What the policy means, read off the declarations and the placement.     *)

Inside(m, addr) == m \in Mapped /\ addr \in layout[m].lo..(layout[m].hi - 1)

\* The ELF address of an address inside the main binary.
ElfAddr(addr) == addr - layout["main"].lo + ElfBase

\* Caller constraint on an ELF address of the main binary.
CallerIntended(site, caller) ==
  LET within(f, size) == caller # NoStack /\ ElfAddr(caller) \in f..(f + size)
      listed == {i \in DOMAIN Declared :
                   /\ Declared[i].site # 0
                   /\ Declared[i].site \in DoWrite.addr..(DoWrite.addr + DoWrite.size - 1)}
      target == IF listed = {} THEN DoWrite.addr + SiteGuess
                ELSE Declared[Min(listed)].site
  IN  IF \E i \in DOMAIN CfiEntries : CfiEntries[i].site # 0
      THEN \A i \in DOMAIN CfiEntries : CfiEntries[i].site = site =>
             within(CfiEntries[i].func,
                    IF CfiEntries[i].size = 0 THEN DefaultSize ELSE CfiEntries[i].size)
      ELSE (DoWrite.addr # 0 /\ SafeCaller.addr # 0 /\ site = target)
             => within(SafeCaller.addr, SafeCaller.size)

\* Offsets at which the text of a module holds a syscall instruction.
Traps == [m \in Modules |-> {a \in Addresses : SyscallAt(Elf[m], a)}]

\* Numbers of the wrappers an offset of libc belongs to.
WrapperNrs ==
  [o \in Traps["libc"] |->
     {Wrappers[k].nr : k \in {j \in DOMAIN Wrappers :
        \E f \in Wrappers[j].names : InFunction(Elf["libc"], f, o)}}]
TrampolineTraps == {o \in Traps["libc"] : \E f \in Trampolines : InFunction(Elf["libc"], f, o)}

\* A syscall instruction of libc is good for the number of the wrapper it is
\* in; in a trampoline, or outside any wrapper, for every number.
LibcVouches(o, nr) ==
  /\ o \in Traps["libc"]
  /\ nr \in WrapperNrs[o] \/ WrapperNrs[o] = {} \/ o \in TrampolineTraps

WrapperNames == UNION {Wrappers[k].names : k \in DOMAIN Wrappers}

\* A call is intended when the module that contains its site vouches for it.
Intended(site, nr, caller) ==
  \/ /\ Inside("main", site)
     /\ \E i \in DOMAIN Declared : /\ Declared[i].site # 0
                                  /\ Declared[i].site = ElfAddr(site)
                                  /\ Declared[i].nr \in {AnyNr, nr}
     /\ CallerIntended(ElfAddr(site), caller)
  \/ /\ Inside("libc", site)
     /\ LibcVouches(site - layout["libc"].lo, nr)
  \/ \E m \in Libs \cup {"ld"} :
       Inside(m, site) /\ site - layout[m].lo \in Traps[m]

-----------------------------------------------------------------------------
(* What the theorems about the verdicts ask of a process and its files.    *)

\* The text of a file fits into its mapping; what the binary declares lies in
\* the mapping of the binary, and no caller range wraps around.
WellPlaced ==
  \A l \in Layouts :
    LET main == l["main"]
        Site(a) == ElfBase <= a /\ a - ElfBase < main.hi - main.lo
        Fits(f, size) == ElfBase <= f /\ main.lo + (f - ElfBase) + size < Space
    IN  /\ \A m \in Modules \ {"main"} : \A k \in ExecSections(Elf[m]) :
             l[m].lo + End(Elf[m].sections[k]) <= l[m].hi
        /\ \A i \in DOMAIN Declared : Declared[i].site # 0 => Site(Declared[i].site)
        /\ \A i \in DOMAIN CfiEntries : CfiEntries[i].site # 0 =>
             /\ Site(CfiEntries[i].site)
             /\ Fits(CfiEntries[i].func,
                       IF CfiEntries[i].size = 0 THEN DefaultSize ELSE CfiEntries[i].size)
        /\ DoWrite.addr # 0 /\ SafeCaller.addr # 0 =>
             /\ Fits(SafeCaller.addr, SafeCaller.size)
             /\ Fits(DoWrite.addr, DoWrite.size) /\ Fits(DoWrite.addr, SiteGuess)

\* A search string matches one module; no list of the binary is cut; a site
\* has one caller range.
WellListed ==
  /\ \A m \in Modules : Matching[m] = {m}
  /\ Cardinality({i \in DOMAIN CfiEntries : CfiEntries[i].site # 0}) <= MaxEntries
  /\ Cardinality({i \in DOMAIN Declared : Declared[i].site # 0}) <= MaxEntries
  /\ \A i, j \in DOMAIN CfiEntries :
       CfiEntries[i].site = CfiEntries[j].site /\ CfiEntries[i].site # 0 =>
         CfiEntries[i] = CfiEntries[j]

\* In libc the symbols of a wrapper agree, the wrapper lies in one section and
\* holds no more sites than are kept, and the bytes scanned after a symbol of
\* unknown size reach into no wrapper.
WellWrapped ==
  LET libc == Elf["libc"]
      defined(names) == {k \in DOMAIN libc.symbols :
                           libc.symbols[k].name \in names /\ libc.symbols[k].addr # 0}
      addr(k) == libc.symbols[k].addr
      size(k) == libc.symbols[k].size
  IN  /\ \A j, k \in defined(WrapperNames) :
           libc.symbols[j].name = libc.symbols[k].name => addr(j) = addr(k) /\ size(j) = size(k)
      /\ \A k \in defined(WrapperNames) : \E x \in ExecSections(libc) :
           /\ libc.sections[x].addr <= addr(k)
           /\ addr(k) + size(k) <= End(libc.sections[x])
      /\ \A n \in WrapperNames : Cardinality(ResolveSites(libc, n, WrapperMax + 1)) <= WrapperMax
      /\ \A j \in defined(WrapperNames \cup Trampolines), k \in defined(WrapperNames) :
           size(j) = 0 /\ size(k) # 0 =>
             addr(k) + size(k) <= addr(j) \/ addr(j) + ScanDefault <= addr(k)

-----------------------------------------------------------------------------
(* Properties.                                                             *)

\* Type invariant: vma_map stays within max_entries (bpf.c:53), module ids are
\* handed out in sequence, and enrolment is the last step of installation.
TypeOK ==
  /\ stage \in {"vma_main", "vma_libc", "main", "libc", "libs", "track", "run"}
  /\ layout \in Layouts /\ mode \in Modes
  /\ Cardinality(DOMAIN vma) <= VmaCap
  /\ \A k \in DOMAIN vma : vma[k].base \in Addresses /\ vma[k].id \in 1..(nextId - 1)
  /\ todo \subseteq Libs
  /\ nextId \in MODULE_DYNAMIC_BASE..(MODULE_DYNAMIC_BASE + MaxLibs)
  /\ DOMAIN registry \subseteq 1..(nextId - 1)
  /\ \A id \in DOMAIN registry : DOMAIN registry[id] \subseteq Addresses
  /\ tracked = (stage = "run")
  /\ thread \in [Threads -> {"absent", "user", "allowed", "denied", "dead"}]
  /\ doomed \in BOOLEAN /\ termed \in BOOLEAN /\ violated \in BOOLEAN
  /\ after \in [Threads -> 0..2]

\* The maps are fail-closed: whatever the placement of the modules, however
\* many blocks vma_map could hold, and whichever registrations failed, the
\* hooks admit only calls that the module containing the site vouches for.
OnlyIntendedAllowed ==
  stage = "run" =>
    \A site \in Addresses, nr \in Nrs \cap Hooked, caller \in Callers :
      PolicyCheck(site, nr, caller) => Intended(site, nr, caller)

Complete ==
  /\ stage = "run"
  /\ MODULE_LIBC \in DOMAIN registry /\ registry[MODULE_LIBC] # << >>
  /\ nextId = MODULE_DYNAMIC_BASE + Cardinality(Discovered)

\* cfi_policy is keyed by the offset alone: a site of a library at an offset
\* that the main binary constrains has its caller validated too.
Shadowed(site) ==
  \E m \in Modules \ {"main"} :
    /\ Inside(m, site)
    /\ Offset(site, IF m = "ld" THEN layout["libc"].lo ELSE layout[m].lo) \in DOMAIN cfi

\* Once every registration has succeeded, no intended call is refused but at
\* the shadowed sites: ASLR placement, block granularity, the scans of the
\* files and the rebasing of main, libc and ld.so sites lose no entry.  It
\* needs modules that share no block.
IntendedAllowed ==
  Complete =>
    \A site \in Addresses, nr \in Nrs \cap Hooked, caller \in Callers :
      Intended(site, nr, caller) /\ ~Shadowed(site) => PolicyCheck(site, nr, caller)

\* In kill mode the signal of deny_action stops the whole thread group: after
\* the first denial every thread enters at most one more syscall.
KillStops == mode = "kill" => \A t \in Child : after[t] <= 1

\* The abstract monitor: the hooks' verdicts are its grants, and a call is
\* permitted when no hook watches it or it is intended.
Calls     == Addrs \X Nrs \X Callers
Permitted == {c \in Calls : /\ c[2] \notin Blocked
                            /\ c[2] \in Hooked => Intended(c[1], c[2], c[3])}
Granted   == IF stage # "run" THEN {}
             ELSE {c \in Calls : \E t \in Child : ~Denied(t, c[1], c[2], c[3])}

Abstract == INSTANCE Monitor WITH
  permitted <- Permitted, lethal <- (mode = "kill"), launched <- (stage = "run"),
  granted <- Granted, status <- [t \in Child |-> thread[t]]

\* The process under the hooks behaves as the monitor says, whatever the
\* threads do: what the installed maps let through was permitted, a denied
\* call of a lethal policy is never resumed from, and threads of a killed
\* process start no others.
MonitorSpec == Abstract!Spec

=============================================================================
