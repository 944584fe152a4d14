# TLA+ models of Sentinel-CC

Sentinel-CC compiles a program with an LLVM pass that lists its syscall sites,
launches it under `ptrace`, fills BPF maps with the policy of the binary and of
its libraries, enrols the process and lets it run under `fentry` hooks that
judge each syscall by the address it is made from. This directory models the
way of the policy from the pass to its readers (`PolicySection`), the launch
(`Loader`), the installation and the verdicts (`Enforcer`, with `ElfScan`,
`PolicyCodec` and `VmaMap`), the supervision of the running program
(`Supervisor`), the call-graph search of libc (`CallGraph`), and two promises
that these keep: `Monitor` and `AuditLog`. Line numbers refer to the files under
`src/src/`.

## Inventory

| Part | Source | Modelled by |
|---|---|---|
| Compiler pass: recognition of syscalls, numbers, the emitted block | `compiler/SentinelPass.cpp` | `PolicySection` |
| `sentinel_dump` | `runtime/sentinel_dump.c` | `PolicySection` |
| Loader process: start-up, launch, setup, supervision, signals | `runtime/loader.c` 31-88, 812-828, 1082-1969 | `Loader` |
| Policy installation: VMA blocks, policy maps, CFI, enrolment | `loader.c` 107-205, 597-640, 833-985, 1284-1893 | `Enforcer`, `VmaMap`, `PolicyCodec` |
| ELF scanning for `syscall` instructions | `loader.c` 214-301, 367-406 | `ElfScan`, used by `Enforcer` and `CallGraph` |
| Enforcer: maps, `sentinel_check`, hooks, `deny_action` | `kernel/sentinel.bpf.c`, `common/sentinel_shared.h` | `Enforcer` |
| Hot reload of the main policy | `loader.c` 1331-1352, 1895-1929 | `Supervisor` |
| Audit ring buffer | `sentinel.bpf.c` 124-151, `loader.c` 1931-1947 | `Supervisor`, `AuditLog` |
| Syscall number codec | `SentinelPass.cpp` 305, `loader.c` 190, 1335-1341, `sentinel.bpf.c` 232-243 | `PolicyCodec` |
| libc call graph (unreachable in this build: `if (0)`) | `loader.c` 430-584, 640-790, 1390-1456 | `CallGraph` |
| Signer, keyring, TPM, learning mode, fexit hooks | named by the documents | absent from the source |

The hazards of the code, each at its line and with the properties that cover
it, are listed in `PROJECT.json`. Four more are visible in the models and have no
property, because the code promises nothing there: the handler destroys the hooks
right after a SIGTERM that the child may ignore (loader.c:62); a reload takes
offsets from a rebuilt file for a child that runs the old image (1907); a poll
lasts as long as events keep coming, and a SIGHUP waits for it (1943); a denied
syscall is executed before the signal is taken (sentinel.bpf.c:288).

## Modules

**`PolicySection`** takes translation units through the pass (`Compile`), the
linker (`Link` appends the block of one object, `Emit` closes the section) and
`sentinel_dump` (`ParseArgs` to `NextBlock`). An
instruction is an inline assembly with its operands, a direct call or an
indirect one; an assembly text is reduced to the pattern that the pass finds in
it. The linked section has real offsets, since the walk over it is about
offsets; `tail` pads or cuts it. `LoaderEntries` is what the loader makes of the
same section.

**`Loader`** is one run of the loader. `pc` names the places in `main()` where a
signal or another process can intervene. `hpc` is the place in the innermost
activation of `signal_handler`, which never returns; it masks only its own
signal, so SIGINT may interrupt the handling of SIGTERM. `child` is the
scheduling state that `wait` and `ptrace` see (`stopped`: a stop not yet
collected, `held`: collected), `image` is what the child executes: the loader's
own code before exec, the dynamic linker (`ld`, libc `mapped`, `binding`,
`linked`), `main`, or a `static` program. `maps` records which BPF maps hold
this child's data. Every step that can fail has a failing alternative.
`sa_flags` lacks `SA_RESTART`, so `Hangup` may end a blocking `waitpid`; the
uninitialised `status` at line 1250 is a nondeterministic choice, and so is
whether a second `sentinel_bpf__destroy` crashes the process. `unchecked`,
`fault` and `eintr` are history variables.

**`PolicyCodec`** holds the conversions of a syscall number from the pass to the
hook. **`VmaMap`** is the trie: the loader writes only blocks of one size, so
longest-prefix match is lookup by block. **`ElfScan`** holds the scans for the
opcode `0f 05`: of the window of one symbol (`ResolveSites`) and of all
executable sections (`ScanText`), with the limits of both, next to a reference
that looks at each address by itself. **`Ranks`** holds what loops over arrays
do: the first match, the first few elements kept, the elements in order.

**`Enforcer`** installs the maps step by step (`PopulateMain` to `Track`) and
then lets the threads of the process, and of one it forks, make syscalls.
The files of the modules are constants that `ElfScan` reads; names are
abstracted to `Matching`: which modules' lines a search string occurs in.
`LibcPolicy` layers the bound wrappers, the cancellation trampolines and the
full scan as the loader does. `PolicyCheck` is `sentinel_check` after the
enrolment test; `Denied` adds the enrolment and the hooks that always deny. A
denied call is still executed, as an `fentry` program cannot refuse it; the
signal is taken on the way back (`Return`), or before (`Interrupt`). Failures
that make `main()` give up are `Loader`'s; failures that make it go on (a libc
or library map that cannot be created, a libc file that is not found) are
alternatives here. `Intended` states, from the declarations, the bytes of the
files and the placement of the modules alone, which calls the policy means; the
maps play no part in it.

**`Supervisor`** is the audit mode in fine steps. `main()` installs the launched
build entry by entry, detaches, and loops: take a SIGHUP, read the binary on
disk, update the map entry by entry, look for the child's death, poll the ring.
Meanwhile each thread of the child goes through a hook: verdict from the map,
reservation in the ring, submission, signal. A build is what
`parse_sentinel_section` returns for it. `reported`, `settled`, `readings` and
`fresh` are history variables.

**`CallGraph`** builds the symbol table of a libc file, seeds the work queue,
searches breadth first through calls and jumps, collects the syscalls of the
functions found and binds them to numbers. The code guards its only use with
`if (0)`, so the module states what the functions do when called.

**`Monitor`** is the abstract specification of enforcement: granted calls are
permitted ones, a lethal denial is never resumed from, a doomed process starts
no threads. `Enforcer` implements it under the mapping in `Abstract`.
**`AuditLog`** is what a reader of the audit output may rely on: events may be
missing, but none is reported twice or before an earlier one of its thread.
`Supervisor` implements it under the mapping in `Audit`.

**`LoaderClaims`**, **`EnforcerClaims`** and `LoaderExtracts` of
**`MCPolicySection`** state what documents and comments say where the code does
otherwise. The **`...Proofs`** modules hold the theorems. Operators whose comment
begins with "Mutant" are faulty variants of the definition that follows them;
each breaks the property that `PROJECT.json` names.

## Runs

| Run | Shows |
|---|---|
| `policy_section` | The dump shows what the units declare, in link order, and nothing else, also for a damaged section; the JSON list is well formed; the number of inline assembly is the constant in RAX, whatever operands precede it. |
| `loader_safety` | A child that runs untraced under attached hooks is enrolled; a linked program is stopped before its first own syscall; teardown follows death; no survivor after exit code 1; no SIGHUP is lost in the audit loop; the skeleton is destroyed twice only after a signal. |
| `loader_liveness` | The setup ends, and a death under supervision ends the loader. |
| `enforcer_exact` | Nothing intended is refused when modules share no block and all registrations succeeded, except at sites shadowed by a CFI range; `Enforcer` implements `Monitor`. |
| `enforcer_packed` | Nothing unintended is admitted, in any of 120 placements with shared blocks, a trie that is too small, a library and a libc site too many and failing registrations; at most one more syscall per thread after a denial in kill mode. |
| `supervisor` | During a reload no call is refused that both builds permit; afterwards the newest build that lists an offset decides; a handled SIGHUP has installed the binary; `AuditLog` is implemented; the oldest event left behind is a recent one; a denial in kill mode ends the supervision, with a full ring too. |
| `callgraph` | Only reachable functions are visited, all of them unless a limit was hit; the depth limit cuts where it says; the symbol search is exact on disjoint functions and never wrong on others; the whitelist is exactly the syscalls of the visited functions. |

`enforcer_packed` is the interesting one of the enforcer: blocks overwrite each
other, and yet no address is admitted by mistake, because the offset of an
address relative to the base of the wrong module is an offset outside that
module, where its policy has no entry.

`WithinDepth` is stated with one call of slack: the depth is advanced after the
first function of the next level has been taken (line 740), so that function is
still scanned. `SearchExact` has its second half for disjoint functions only: with
overlapping ones the search may miss a function that holds the address.
`JsonSeparated` is about sections made of whole blocks: with bytes after the last
block, the dump ends the list with a comma.

### Disagreements

Each `claim_*` run checks one sentence of the repository and ends in a
counterexample.

| Run | The sentence | What happens |
|---|---|---|
| `claim_extract` | the loader extracts `.llvm.syscall.bounds` (docs/ARCHITECTURE.md:18) | it looks for `.sentinel` and expects no headers |
| `claim_hangup` | SIGHUP reloads instead of shutting down (loader.c:84) | without `--audit` it interrupts `waitpid`, and enforcement is torn down |
| `claim_static` | static binaries get the binary-only policy (loader.c:1274) | they run to their end in the wait for libc, unenrolled |
| `claim_reaped` | wait for child exit, clean up (architecture.md:91) | after a child was reaped in the setup the audit loop never ends |
| `claim_libc` | the libc match is anchored (loader.c:820) | not in the call that determines the base |

Further disagreements show in the models without a run of their own: nothing
enrols a forked process (sentinel.bpf.c:6 "auto-enrolls child processes"); a
signal on a fatal path destroys the BPF programs a second time (README:565; the
property `DoubleDestroyNeedsSignal` says that nothing else does); of two modules
that share a 1 MB block the first loses its addresses there (README:91); events
submitted after the last poll are discarded (loader.c:1107 "must see
violations"); map failures after the launch return 0, and the child's exit code
is never propagated (api-reference.md:260, 262); a signal between `fork` and
the store to `g_child` leaves the child unsignalled (README:564); memfd_create
is judged like any other call (threat-model.md:18 "unconditionally"); a CFI
range applies to that offset in every module (sentinel.bpf.c:245 "per-site"); no
reader looks at the version of a header (semantic_contract.md:53); and the pass
emits neither `.sentinel_cfi` nor `.sentinel_imports` (api-reference.md:44-60).

### Bounds

`Loader`: a step limit of 2 lets the loop end by libc, by exit and by the
limit (10000 in the code; the theorems hold for any). One SIGHUP suffices to
interrupt any one wait; two hangups and an edit let a reload race a newer
request. One ring slot shows empty, used and full.

`Enforcer`: 64 addresses in blocks of 4 stand for 2^64 and 1 MB. The binary of
the exact run straddles a block boundary and is linked at a non-zero base;
ld.so lies below libc in one placement, so that its offsets wrap; one
library is mapped late; libc has a wrapper with an alias and an undefined
symbol of the same name, a trampoline, an unbound site and opcode bytes in a
data section. The packed run places five modules of five addresses at all
permutations of five adjacent slots, so that neighbours share blocks, with room
for four blocks, for one library of two and for one scanned site of libc, whose
wrapper has no size. Two threads and one forked process suffice for a thread to
be in user mode while another is denied. `after` saturates at 2. The threads of
the child are interchangeable (`SYMMETRY`); neither run has a liveness property.

`Supervisor`: two threads with two calls and one, so that a hook can be
overtaken; two ring slots, so that a submitted record can wait behind an
unsubmitted one and the ring can be full; a map of three offsets and builds that
rebind an offset, fill the map and overflow it, and one that does not parse;
one SIGHUP and one edit in any order.

`CallGraph`: two symbol tables, one of them with enclosing functions and
default sizes, times all targets of four calls; a queue of four for five
functions, a depth limit of 2 and room for three sites, so that each limit is
hit. `PolicySection`: three units, each one of four bodies or compiled without
the pass, in every link order, with six ways to end the section.

`CHECK_DEADLOCK FALSE` in all runs but `Loader`'s: a process whose threads have
all ended, a finished search and a finished dump do nothing more.

### Fairness

`Loader`: weak fairness of `main()` and of the handler (the scheduler runs a
runnable process), of the child's `PTRACE_TRACEME` and exec, of a tracee's next stop
while it is in the dynamic linker, and of SIGKILL. Nothing is assumed of the
program. `Supervisor`: weak fairness of `main()`, of a hook that has started (BPF
programs run to their end) and of the kernel's handling of a fatal signal. A
call of a process that is not being killed may block for ever.

## Proofs

All theorems hold for every value of the constants that satisfies the named
assumptions of the module and, for some theorems, the hypotheses below.

| Module | About | Theorems |
|---|---|---|
| `RankProofs` | the loops over arrays (`Ranks`) | lemmas only |
| `FileProofs` | the scans of a file (`ElfScan`) | lemmas only |
| `SectionProofs` | `PolicySection` | `NumbersAreRax`, `DumpIsFaithful`, `JsonIsSeparated`, `SectionTyped` |
| `LoaderProofs` | `Loader` | `TypeCorrect`, `Enrolled`, `LinkedChecked`, `TeardownOrder`, `FatalKills`, `ReloadKept`, `DestroyedBySignal` |
| `EnforcerProofs` | `Enforcer`: the kill, the codec | `KillStopsAll`, `CodecFaithful` |
| `VerdictProofs` | `Enforcer`: the verdicts | `FailClosed`, `MonitorRefined`, `EnforcerTyped` |
| `SupervisorProofs` | `Supervisor` | `AuditRefinement`, `LeftoverRecent`, `SupervisorTyped`, `NoGap`, `ReloadTakesEffect`, `NewestWins` |
| `CallGraphProofs` | `CallGraph` | `ReachableOnly`, `SearchComplete`, `SearchTyped`, `LookupExact`, `WhitelistIsExact`, `DepthExact` |

### Hypotheses

`Enforcer` and `CallGraph` name what a theorem asks of the input beyond the
types, and the `MC` modules assume the same of the instances, so that TLC
evaluates it.

- `WellPlaced`: text lies in the mapping of its file, declared sites in that of
  the binary, and no caller range wraps around. The kernel and the linker see to it.
- `WellListed`: a search string matches one module (`claim_libc` shows what
  happens otherwise), no list of the binary exceeds `MAX_POLICY_ENTRIES`, a site
  has one caller range.
- `WellWrapped`: the symbols of a libc wrapper agree, a wrapper lies in one
  section, holds no more sites than are kept, and the window scanned after a
  symbol of unknown size reaches into no wrapper. Without it a site may be bound
  to the number of another function.
- `WellCut`: no function of libc runs on into another executable section.
- `SectionAssumption`: an inline assembly has at most one input in RAX.

### Arguments

**Loops.** A loop that stores matches until an array is full keeps the elements of
lowest rank. `RankProofs` shows that ranks number a finite set without gaps and
without repetition, so that a full array holds exactly the first ones and a list
in order holds each element once. The induction behind it, and the ones of the
call graph and of the section, take the least counterexample (`LeastNat`): the
induction theorems of the library, with their operator parameter, are out of the
provers' reach.

**Policy section.** `SectionInv` has three parts. `BuildInv`: an object holds the
block of its unit's program, and there is a list of starts at which the linked
blocks stand one after the other (`Laid`). `WalkInv`: the reader is at one of
these starts, or at the end, and has printed what the blocks before it declare and
`index` entries more (`Place`). `PrintInv`: every entry printed is the one of its
place in the declared list, with the comma it should have (`Fits`), and a walk
that ended in a section of whole blocks has printed them all. The list of starts
is not a variable of the code: it is what makes the offsets of the section
meaningful, and it appears under an existential quantifier.

**Loader.** The type invariant is split into predicates that involve few variables,
each shown inductive by a lemma of its own. The safety invariants rest on
`IInv`, the conjunction of

- `LifeInv`: exit code, attachment and existence of a child at each place in `main()`;
- `MapsInv`: which maps are filled at which place, and that an untraced child
  under attached hooks has been enrolled;
- `FatalInv`: a loader on its way to return 1 has no surviving child;
- `ReloadInv`: with no reload pending the version read is at least the one wanted,
  except between the acknowledgement and the read;
- `HeldInv`: as long as no wait was interrupted, the child is held or dead from
  the exec trap to the detachment, and free or dead after it;
- `LinkInv`: the stages of the dynamic linker in which the loop may find the child.

None of them is inductive alone: that `Detach` frees an enrolled child needs
`MapsInv` at every place before it, and that a linked program is not yet running when
libc is found needs `LinkInv` at every stop of the loop. `DestroyedBySignal`
needs `DestroyInv`: until a signal is caught, `main()` reaches a destroying step
only with a live skeleton.

**Enforcer.** `KillStopsAll`: the number of syscalls of a thread after the first
denial is at most one. `KillInv` adds that the child is doomed from the denial on,
that a thread with a syscall after it is still inside that syscall or dead, and
that before enrolment nothing has run. `FailClosed` follows the maps: every block
of the trie belongs to a module, with that module's base, and every offset in a
policy is a site of that module, with a number it vouches for. An address of
another module in the same block has an offset outside the owner's text, where
the policy has no entry. With that, `MonitorRefined` is a step simulation:
`Track` is the launch, a denial in kill mode the lethal one. `EnforcerTyped` adds that
ids are handed out once per discovered library, of which there are at most
`MaxLibs`.

**Supervisor.** `AuditRefinement` is a step simulation: a reservation is
`Accept`, a hand-over is `Report`, everything else stutters. `RingInv` says that
the events of a thread lie in the ring in the order of its calls, after those
reported, and that only a thread about to fill in a record has one that is not
submitted. `LeftoverRecent` rests on `SettledInv`: between two polls the head of
the ring was not submitted when the last one ended. The reload is followed entry
by entry. `LoadInv` types the map and says which build the entries at hand belong
to. `NoGap` shows that each update keeps the steady calls (`GapInv`),
`ReloadTakesEffect` that every entry already passed is in the map or the map is
full, which it then stays (`FreshInv`), and `NewestWins` who spoke last for an
offset: an entry at hand already installed, or else the newest earlier reading
that lists it (`RuleInv`).

**Call graph.** `TabInv`: the table is the sorted one of the file. `QueueInv` and
`SizeInv`: the queue lists the visited functions once each and within its
array. `ScanInv` and `SeedInv`: every function taken from the queue has its callees
visited, but for those of the current one still pending, and the seeds are in.
`ReachableOnly` shows that the queue stays within every set that holds the seeds and
is closed under calls; `LookupExact` that the bisection keeps the address between
its bounds. `BindInv`: the sites collected are those of the visited functions, or the
first that fit, and the whitelist gives each the number of the row it belongs to.
`DepthInv` relates the place in the queue to the distance from the seeds: the
functions queued are within `depth + 1` calls, those up to the end of the level within
`depth`, and with room in the queue nothing that near is missing.

### Only model-checked

`DeathEndsLoader`, `SetupCompletes` and `DenialEndsSupervision` depend on fairness.
`IntendedAllowed`, the converse of `FailClosed`, has no theorem. The `claim_*`
runs are counterexamples.

## Not modelled

The `system_wide` and `cgroup_filter` branches (no code sets them); a null
`pt_regs` (it cannot occur for a user thread); the text of messages; the effect
of a syscall; the lowering of block addresses by LLVM and the relocation of
the section in a position independent binary; the regular expressions of
`containsObfuscatedSyscall` beyond which patterns they stand for; a process
without `ld-linux` (musl); libc files with more than 16 executable sections; the
capacity of the library maps (4096), which the scans (512) cannot exceed. The
lists of imports and CFI entries that the pass collects are never emitted, so
their readers are modelled from the loader's side only. The signer, keyring and
learning mode of the documents have no source.

`Loader` and `Supervisor` overlap in the audit loop: the first has the signals
that end the loader and abstracts the policy to a file version, the second has
the policy and the events. A composition of both multiplies their states
without a property that needs both.
