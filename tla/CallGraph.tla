----------------------------- MODULE CallGraph -----------------------------
(***************************************************************************)
(* The call-graph-guided whitelist of loader.c: build_libc_symtab,         *)
(* find_sym_at_addr, trace_libc_callgraph and the binding of the sites it  *)
(* returns (loader.c:425-790, 1390-1456).  main() guards its use with      *)
(* if (0), so this is the contract of the functions, not a part of the     *)
(* running loader.                                                         *)
(*                                                                         *)
(* Files are those of ElfScan, with "e8" for the opcodes of CALL and JMP   *)
(* and a field target that gives the destination of each of them.          *)
(* Functions are indices into the sorted table; 0 stands for NULL.  The    *)
(* name patterns of the third seeding loop are the constant Variants.      *)
(***************************************************************************)
EXTENDS ElfScan, PolicyCodec

CONSTANTS
  Files,         \* bound: libc files
  ImportLists,   \* bound: sequences of imported names
  Essential,     \* essential_seeds
  Variants,      \* import -> names that match it as a glibc variant
  NrBindings,    \* name -> number: nr_bindings
  MaxSyms,       \* MAX_LIBC_SYMS
  MaxReachable,  \* MAX_REACHABLE
  DepthLimit,    \* CALLGRAPH_DEPTH_LIMIT
  FuncDefault,   \* DEFAULT_FUNC_SIZE
  MaxSites       \* size of cg_sites

CallSize == 5

ASSUME CallGraphAssumption ==
  /\ MaxReachable \in Nat /\ MaxSites \in Nat /\ MaxSyms \in Nat
  /\ DepthLimit \in Nat \ {0} /\ FuncDefault \in Nat
  /\ \A n \in DOMAIN NrBindings : NrBindings[n] \in 0..(Word - 1)
  /\ \A e \in Files :
       /\ FileOK(e)
       /\ \A c \in DOMAIN e.target : e.target[c] \in Nat /\ ByteAt(e, c) = "e8" /\ c \in Nat
       /\ \A k \in ExecSections(e) :
            LET s == e.sections[k]
            IN  /\ \A i \in 1..(Len(s.bytes) - CallSize + 1) :
                     s.bytes[i] = "e8" => s.addr + i - 1 \in DOMAIN e.target
                /\ \A i \in 1..Len(s.bytes) : s.bytes[i] # "--"
  /\ Essential \in Seq(STRING)
  /\ \A names \in ImportLists : names \in Seq(STRING)

VARIABLES
  elf,       \* the libc file
  imports,   \* app_imports
  phase,     \* symtab, seed, loop, scan, bind, done
  syms,      \* the table, sorted by address
  unseeded,  \* seeding candidates not tried yet
  queue,     \* queue[0 .. q_tail)
  visited,   \* visited[]
  head,      \* q_head
  depth,     \* current_depth
  boundary,  \* depth_boundary
  pending,   \* calls of the current function not looked at yet
  sites,     \* syscall_sites_out: pairs of a position in the queue and an address
  policy     \* the libc map: offset -> policy value

input  == <<elf, imports>>
search == <<unseeded, queue, visited, head, depth, boundary, pending>>
vars   == <<input, phase, syms, search, sites, policy>>

-----------------------------------------------------------------------------
(* The symbol table: operators over a file e and a table t.                *)

\* build_libc_symtab: named functions, the first of each address, sorted.
SymTab(e) ==
  LET funcs == {k \in DOMAIN e.symbols : LET s == e.symbols[k]
                                         IN  s.func /\ s.addr # 0 /\ s.name # ""}
      first == {k \in funcs : \A j \in funcs : j < k => e.symbols[j].addr # e.symbols[k].addr}
      kept  == FirstFew(first, MaxSyms)
      below(k) == {j \in kept : e.symbols[j].addr < e.symbols[k].addr}
      entry(s) == [name |-> s.name, addr |-> s.addr,
                   size |-> IF s.size # 0 THEN s.size ELSE FuncDefault]
  IN  [i \in 1..Cardinality(kept) |->
         entry(e.symbols[CHOOSE k \in kept : Cardinality(below(k)) = i - 1])]

Holds(s, a) == s.addr <= a /\ a < s.addr + s.size

\* One turn of the loop of find_sym_at_addr over lo and hi; find stands for the
\* turns that follow.
Turn(t, a, find, p) ==
  LET mid == (p[1] + p[2]) \div 2
      s   == t[mid + 1]
  IN  IF p[1] > p[2] THEN 0
      ELSE CASE a < s.addr -> find[<<p[1], mid - 1>>]
             [] a >= s.addr + s.size -> find[<<mid + 1, p[2]>>]
             [] OTHER -> mid + 1

BinarySearch(t, a) ==
  LET find[p \in (0..Len(t)) \X (-1..(Len(t) - 1))] == Turn(t, a, find, p)
  IN  find[<<0, Len(t) - 1>>]

\* Mutant: the fallback takes the nearest symbol below, whatever its size.
FindSymNearest(t, a) ==
  LET below == {i \in DOMAIN t : t[i].addr <= a}
      found == BinarySearch(t, a)
  IN  IF found # 0 THEN found
      ELSE IF below # {} THEN Max(below) ELSE 0

\* find_sym_at_addr: the fallback looks at the last symbol not above a.
FindSymAtAddr(t, a) ==
  LET below == {i \in DOMAIN t : t[i].addr <= a}
      found == BinarySearch(t, a)
  IN  IF found # 0 THEN found
      ELSE IF below # {} /\ Holds(t[Max(below)], a) THEN Max(below) ELSE 0

\* find_sym_by_name
FindSymByName(t, n) == Lowest({i \in DOMAIN t : t[i].name = n})

-----------------------------------------------------------------------------
(* The search.                                                             *)

\* get_bytes_at: the section that holds function f, the bytes before it and
\* the bytes available.
Window(e, t, f) ==
  LET k    == SectionOf(e, t[f].addr)
      sec  == e.sections[k]
      from == t[f].addr - sec.addr
      rest == Len(sec.bytes) - from
  IN  IF k = 0 THEN [sec |-> [addr |-> 0, bytes |-> << >>], from |-> 0, avail |-> 0]
      ELSE [sec |-> sec, from |-> from,
            avail |-> IF rest > t[f].size THEN t[f].size ELSE rest]

\* The calls and jumps in the bytes of f, by position, and the functions they
\* resolve to.
Callees(e, t, f) ==
  LET w     == Window(e, t, f)
      calls == {i \in (w.from + 1)..(w.from + w.avail - CallSize + 1) : w.sec.bytes[i] = "e8"}
  IN  [i \in calls |-> FindSymAtAddr(t, e.target[w.sec.addr + i - 1])]

\* Candidates of the three seeding loops, in order; the third one is a loop
\* over the names and, for each of them, over the table.
Candidates(t, names) ==
  LET named(s) == [k \in DOMAIN s |-> FindSymByName(t, s[k])]
      name(p)  == names[((p - 1) \div Len(t)) + 1]
      entry(p) == ((p - 1) % Len(t)) + 1
  IN  named(names) \o named(Essential)
        \o [p \in 1..(Len(names) * Len(t)) |->
              IF t[entry(p)].name \in Variants[name(p)] THEN entry(p) ELSE 0]

\* The sites of the functions in a queue, as pairs of the position in the queue
\* and the address.
SitesOf(e, t, q) ==
  LET w(f) == Window(e, t, f)
      found(f) == OpcodeSites(w(f).sec, w(f).from, w(f).avail)
  IN  UNION {{k} \X found(q[k]) : k \in DOMAIN q}

callees(f) == Callees(elf, syms, f)
candidates == Candidates(syms, imports)

Init ==
  /\ elf \in Files /\ imports \in ImportLists
  /\ phase = "symtab" /\ syms = << >>
  /\ unseeded = {} /\ queue = << >> /\ visited = {}
  /\ head = 0 /\ depth = 0 /\ boundary = 0 /\ pending = {}
  /\ sites = {} /\ policy = << >>

\* Without symbols or executable sections, or memory, there is nothing to do.
BuildSymtab ==
  /\ phase = "symtab"
  /\ syms' = SymTab(elf)
  /\ LET found == Candidates(SymTab(elf), imports)
     IN  unseeded' = {i \in DOMAIN found : found[i] # 0}
  /\ \/ phase' = "done"
     \/ SymTab(elf) # << >> /\ ExecSections(elf) # {} /\ phase' = "seed"
  /\ UNCHANGED <<input, queue, visited, head, depth, boundary, pending, sites, policy>>

\* Mutant: the queue may outgrow its array.
EnqueueUnbounded(f) ==
  IF f # 0 /\ f \notin visited
  THEN visited' = visited \cup {f} /\ queue' = Append(queue, f)
  ELSE UNCHANGED <<visited, queue>>

Enqueue(f) ==
  IF f # 0 /\ f \notin visited /\ Len(queue) < MaxReachable
  THEN visited' = visited \cup {f} /\ queue' = Append(queue, f)
  ELSE UNCHANGED <<visited, queue>>

First(S, i) == i \in S /\ \A k \in S : i <= k

Seed ==
  /\ phase = "seed"
  /\ \E i \in unseeded : /\ First(unseeded, i)
                         /\ Enqueue(candidates[i])
                         /\ unseeded' = unseeded \ {i}
  /\ UNCHANGED <<input, phase, syms, head, depth, boundary, pending, sites, policy>>

StartSearch ==
  /\ phase = "seed" /\ unseeded = {}
  /\ boundary' = Len(queue)
  /\ phase' = "loop"
  /\ UNCHANGED <<input, syms, unseeded, queue, visited, head, depth, pending, sites, policy>>

\* Mutant: the last function of a level counts for the next one.
AdvanceDepthEarly ==
  IF head + 1 >= boundary THEN depth' = depth + 1 /\ boundary' = Len(queue)
  ELSE UNCHANGED <<depth, boundary>>

AdvanceDepth ==
  IF head + 1 > boundary THEN depth' = depth + 1 /\ boundary' = Len(queue)
  ELSE UNCHANGED <<depth, boundary>>

MoreWork == head < Len(queue) /\ depth < DepthLimit

Take ==
  /\ phase = "loop" /\ MoreWork
  /\ head' = head + 1
  /\ pending' = DOMAIN callees(queue[head + 1])
  /\ AdvanceDepth
  /\ phase' = "scan"
  /\ UNCHANGED <<input, syms, unseeded, queue, visited, sites, policy>>

\* Mutant: the index of the callee is off by one.
FollowNeighbour ==
  /\ phase = "scan"
  /\ \E i \in pending : /\ First(pending, i)
                        /\ LET f == callees(queue[head])[i]
                           IN  Enqueue(IF f < Len(syms) THEN f + 1 ELSE f)
                        /\ pending' = pending \ {i}
  /\ UNCHANGED <<input, phase, syms, unseeded, head, depth, boundary, sites, policy>>

Follow ==
  /\ phase = "scan"
  /\ \E i \in pending : /\ First(pending, i)
                        /\ Enqueue(callees(queue[head])[i])
                        /\ pending' = pending \ {i}
  /\ UNCHANGED <<input, phase, syms, unseeded, head, depth, boundary, sites, policy>>

\* Mutant: the scan ends at a call that resolves to no function.
ScannedAtUnresolved ==
  /\ phase = "scan"
  /\ \/ pending = {}
     \/ \E i \in pending : First(pending, i) /\ callees(queue[head])[i] = 0
  /\ phase' = "loop"
  /\ UNCHANGED <<input, syms, search, sites, policy>>

Scanned ==
  /\ phase = "scan" /\ pending = {}
  /\ phase' = "loop"
  /\ UNCHANGED <<input, syms, search, sites, policy>>

\* The sites found first, up to MaxSites.
Collect ==
  /\ phase = "loop" /\ ~MoreWork
  /\ sites' = FirstPairs(SitesOf(elf, syms, queue), MaxSites)
  /\ phase' = "bind"
  /\ UNCHANGED <<input, syms, search, policy>>

\* A site inside a known wrapper gets its number, the others are wildcards.
Bind ==
  /\ phase = "bind"
  /\ LET f(o) == FindSymAtAddr(syms, o)
         known(o) == f(o) # 0 /\ syms[f(o)].name \in DOMAIN NrBindings
     IN  policy' = [o \in {h[2] : h \in sites} |->
                      PolicyValue(IF known(o) THEN NrBindings[syms[f(o)].name] ELSE AnyNr)]
  /\ phase' = "done"
  /\ UNCHANGED <<input, syms, search, sites>>

Next ==
  \/ BuildSymtab \/ Seed \/ StartSearch
  \/ Take \/ Follow \/ Scanned
  \/ Collect \/ Bind

Spec == Init /\ [][Next]_vars

-----------------------------------------------------------------------------
(* Properties.                                                             *)

Full == Len(queue) >= MaxReachable

\* Type invariant: the work queue and the site list stay within their arrays,
\* and visited marks exactly what was queued.
TypeOK ==
  /\ elf \in Files /\ imports \in ImportLists
  /\ phase \in {"symtab", "seed", "loop", "scan", "bind", "done"}
  /\ Len(queue) <= MaxReachable /\ visited = {queue[k] : k \in DOMAIN queue}
  /\ Cardinality(visited) = Len(queue)
  /\ head \in 0..Len(queue) /\ depth \in 0..DepthLimit /\ boundary \in 0..Len(queue)
  /\ Cardinality(sites) <= MaxSites

Seeds     == LET c == candidates IN {c[i] : i \in DOMAIN c} \ {0}
Closed(R) == \A f \in R : LET c == callees(f) IN \A i \in DOMAIN c : c[i] \in R \cup {0}

\* Only functions that a chain of calls joins to a seed are ever visited: every
\* set that holds the seeds and is closed under calls holds them.
OnlyReachable ==
  \A R \in SUBSET DOMAIN syms : Closed(R) /\ Seeds \subseteq R => visited \subseteq R

\* A search that ran out of work, and never of room, has visited the seeds and
\* everything they call, directly or not.
CompleteSearch ==
  (phase = "bind" /\ head = Len(queue) /\ ~Full) => Closed(visited) /\ Seeds \subseteq visited

Disjoint ==
  \A f, g \in DOMAIN syms : f < g => syms[f].addr + syms[f].size <= syms[g].addr

\* A call in the body of f that lands in the body of g.
Calls(e, t, f, g) ==
  \E a \in DOMAIN e.target :
    /\ Holds(t[f], a) /\ Holds(t[f], a + CallSize - 1)
    /\ \A i \in 0..(CallSize - 1) : ByteAt(e, a + i) # "--"
    /\ Holds(t[g], e.target[a])

\* Functions at most n calls away from those of S.
Within(e, t, S, n) ==
  LET near[k \in 0..n] ==
        IF k = 0 THEN S
        ELSE near[k - 1] \cup {g \in DOMAIN t : \E f \in near[k - 1] : Calls(e, t, f, g)}
  IN  near[n]

\* The limit on the depth cuts where it says: everything within DepthLimit
\* calls is visited and, because the first function beyond the last level is
\* still scanned, nothing more than one call further away.
WithinDepth ==
  (phase = "bind" /\ ~Full /\ Disjoint) =>
    /\ Within(elf, syms, Seeds, DepthLimit) \subseteq visited
    /\ visited \subseteq Within(elf, syms, Seeds, DepthLimit + 1)

\* find_sym_at_addr never names a function that does not hold the address and,
\* when no two functions overlap, finds the one that does.
SearchExact ==
  \A a \in {elf.target[c] : c \in DOMAIN elf.target} \cup {syms[k].addr : k \in DOMAIN syms} :
    LET f == FindSymAtAddr(syms, a)
    IN  /\ f # 0 => Holds(syms[f], a)
        /\ Disjoint /\ f = 0 => \A g \in DOMAIN syms : ~Holds(syms[g], a)

\* What a linker does: no function runs on into another executable section.
WellCut ==
  \A e \in Files : \A f \in DOMAIN SymTab(e), k \in ExecSections(e) :
    \A a \in e.sections[k].addr..(End(e.sections[k]) - 1) :
      Holds(SymTab(e)[f], a) => Spans(e.sections[k], SymTab(e)[f].addr)

\* The whitelist holds exactly the syscall instructions of the visited
\* functions (fewer when the list is full), and a number only inside a
\* function that is known for it.
WhitelistExact ==
  LET inside(f, o) == Holds(syms[f], o) /\ Holds(syms[f], o + 1)
      texts == UNION {elf.sections[k].addr..(elf.sections[k].addr + Len(elf.sections[k].bytes)) :
                        k \in DOMAIN elf.sections}
  IN  phase = "done" =>
        /\ \A o \in DOMAIN policy :
             /\ SyscallAt(elf, o) /\ \E f \in visited : inside(f, o)
             /\ \A n \in {NrBindings[x] : x \in DOMAIN NrBindings} :
                  policy[o] = PolicyValue(n) =>
                    \E f \in DOMAIN syms : /\ Holds(syms[f], o)
                                           /\ syms[f].name \in DOMAIN NrBindings
                                           /\ NrBindings[syms[f].name] = n
        /\ Cardinality(sites) < MaxSites =>
             \A f \in visited, o \in texts :
               SyscallAt(elf, o) /\ inside(f, o) => o \in DOMAIN policy

=============================================================================
