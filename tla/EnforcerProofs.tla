--------------------------- MODULE EnforcerProofs ---------------------------
(***************************************************************************)
(* What the hooks let through, and what a denial does to the thread group, *)
(* for every policy, placement of the modules and number of threads.       *)
(***************************************************************************)
EXTENDS Enforcer, TLAPS

\* One time limit for the SMT solver on every leaf.
USE SMTT(30)

-----------------------------------------------------------------------------
(* The kill.  The verdict itself (Denied) is not expanded: the argument    *)
(* holds whatever the hooks find.                                          *)

States == {"absent", "user", "allowed", "denied", "dead"}

\* SIGKILL is sent with the first denial, and a thread that has entered a call
\* since then never gets back to user space.
KillInv ==
  /\ thread \in [Threads -> States] /\ after \in [Threads -> 0..2]
  /\ stage # "run" => ~violated /\ \A t \in Threads : thread[t] = "absent"
  /\ mode = "kill" =>
       /\ violated => doomed
       /\ \A t \in Child :
            /\ ~violated => after[t] = 0
            /\ after[t] # 0 => after[t] = 1 /\ thread[t] \in {"allowed", "denied", "dead"}

-----------------------------------------------------------------------------

\* Nothing has been denied before the child runs.
LEMMA KillInit == Init => KillInv
  BY DEF Init, KillInv, States, Threads

\* A hook denies or passes one call of a thread (sentinel.bpf.c:143-151, 154-284).
LEMMA SyscallKeeps ==
  ASSUME NEW t \in Threads, KillInv, Syscall(t)
  PROVE  KillInv'
<1>a. /\ mode' = mode /\ stage' = stage /\ stage = "run"
      /\ after' = IF violated /\ t \in Child /\ after[t] < 2
                  THEN [after EXCEPT ![t] = @ + 1] ELSE after
      /\ thread[t] = "user"
  BY DEF Syscall, KillInv
<1>b. \/ /\ thread' = [thread EXCEPT ![t] = "denied"]
         /\ doomed' = (doomed \/ mode = "kill") /\ violated' = TRUE
      \/ /\ thread' = [thread EXCEPT ![t] = "allowed"]
         /\ doomed' = doomed /\ violated' = violated
  BY DEF Syscall, DenyAction
<1>1. thread' \in [Threads -> States] /\ after' \in [Threads -> 0..2]
  BY <1>a, <1>b DEF KillInv, States
<1>2. ASSUME mode = "kill" PROVE violated' => doomed'
  BY <1>2, <1>b, Zenon DEF KillInv
<1>3. ASSUME mode = "kill", NEW u \in Child
      PROVE  /\ ~violated' => after'[u] = 0
             /\ after'[u] # 0
                  => after'[u] = 1 /\ thread'[u] \in {"allowed", "denied", "dead"}
  <2>1. u \in Threads
    BY DEF Threads
  <2>2. after[t] \in 0..2 /\ after[u] \in 0..2
    BY <2>1 DEF KillInv
  <2>3. /\ ~violated => after[u] = 0
        /\ after[u] # 0 => after[u] = 1 /\ thread[u] \in {"allowed", "denied", "dead"}
    BY <1>3 DEF KillInv
  <2>4. CASE u = t
    BY <1>a, <1>b, <2>1, <2>2, <2>3, <2>4 DEF KillInv
  <2>5. CASE u # t
    BY <1>a, <1>b, <2>1, <2>2, <2>3, <2>5 DEF KillInv
  <2> QED BY <2>4, <2>5
<1> QED BY <1>a, <1>1, <1>2, <1>3 DEF KillInv

\* The kernel returns a call into a process that lives, and otherwise ends the
\* thread.
LEMMA KernelKeeps ==
  ASSUME NEW t \in Threads, KillInv, Return(t) \/ Interrupt(t) \/ Exit(t)
  PROVE  KillInv'
<1> USE DEF KillInv, States
<1>1. CASE Return(t)
  BY <1>1 DEF Return, Threads
<1>2. CASE Interrupt(t)
  BY <1>2 DEF Interrupt, Threads
<1>3. CASE Exit(t)
  BY <1>3 DEF Exit, Threads
<1> QED BY <1>1, <1>2, <1>3

\* Threads and processes are started by living processes only.
LEMMA SpawnKeeps ==
  ASSUME NEW t \in Threads, NEW u \in Threads, KillInv, Spawn(t, u)
  PROVE  KillInv'
  BY DEF KillInv, States, Spawn, Threads

\* Enrolment starts one thread, before anything is denied; the steps before it
\* touch only the maps.
LEMMA InstallKeeps == KillInv /\ Install => KillInv'
<1> SUFFICES ASSUME KillInv, Install PROVE KillInv'
  OBVIOUS
<1>1. CASE Track
  BY <1>1 DEF Track, KillInv, States, Threads
<1>2. ASSUME UNCHANGED <<mode, run>>, stage # "run" PROVE KillInv'
  BY <1>2, Zenon DEF run, KillInv
<1>3. CASE ~Track
  BY <1>2, <1>3 DEF Install, PopulateMain, PopulateLibc, RegisterMain,
     RegisterLibc, RegisterLib, SetupCfi
<1> QED BY <1>1, <1>3

\* Every step of the loader, the hooks, the kernel and the program keeps it.
LEMMA KillStep == KillInv /\ [Next]_vars => KillInv'
<1> SUFFICES ASSUME KillInv, [Next]_vars PROVE KillInv'
  OBVIOUS
<1>1. CASE Install
  BY <1>1, InstallKeeps
<1>2. ASSUME NEW t \in Threads, Syscall(t) \/ Kernel(t) \/ Exit(t) PROVE KillInv'
  BY <1>2, SyscallKeeps, KernelKeeps DEF Kernel
<1>3. ASSUME NEW t \in Threads, NEW u \in Threads, Spawn(t, u) PROVE KillInv'
  BY <1>3, SpawnKeeps
<1>4. CASE TakeTerm
  <2>1. doomed => doomed'
    BY <1>4, Zenon DEF TakeTerm
  <2> QED BY <1>4, <2>1 DEF TakeTerm, KillInv
<1>5. CASE UNCHANGED vars
  BY <1>5 DEF vars, run, KillInv
<1> QED BY <1>1, <1>2, <1>3, <1>4, <1>5 DEF Next

\* In kill mode every thread of the child enters at most one more syscall after
\* the first denial, with any number of threads and whatever is denied
\* (sentinel.bpf.c:143-151).
THEOREM KillStopsAll == Spec => []KillStops
<1>1. KillInv => KillStops
  BY DEF KillInv, KillStops
<1> QED BY KillInit, KillStep, <1>1, PTL DEF Spec

-----------------------------------------------------------------------------
(* The maps.                                                               *)

\* The module that an id stands for, told by what was registered for it, is
\* the one from whose base its blocks are measured.
MapsInv ==
  /\ layout \in Layouts
  /\ nextId \in Nat /\ nextId >= MODULE_DYNAMIC_BASE
  /\ todo \subseteq Libs \cap Mapped
  /\ DOMAIN registry \subseteq 1..(nextId - 1)
  /\ MODULE_MAIN \in DOMAIN registry => registry[MODULE_MAIN] = MainPolicy
  /\ MODULE_LIBC \in DOMAIN registry =>
       \/ registry[MODULE_LIBC] = << >>
       \/ /\ "libc" \in Mapped
          /\ registry[MODULE_LIBC] = WithWildcards(LibcPolicy, LdOffsets(layout["libc"].lo))
  /\ \A id \in DOMAIN registry : id >= MODULE_DYNAMIC_BASE =>
       \E l \in Libs \cap Mapped :
         /\ registry[id] = WithWildcards(<< >>, TextSites(l, ScanMax))
         /\ \A k \in DOMAIN vma : vma[k].id = id => vma[k].base = layout[l].lo
  /\ \A k \in DOMAIN vma :
       /\ vma[k].id \in 1..(nextId - 1)
       /\ vma[k].id = MODULE_MAIN => vma[k].base = layout["main"].lo
       /\ vma[k].id = MODULE_LIBC => vma[k].base = layout["libc"].lo
  /\ stage \in {"track", "run"} => cfi = CfiPolicy

\* Blocks are new or keep what they had.
LEMMA PopulatedBlocks ==
  ASSUME NEW v, NEW keys, NEW val
  PROVE  \A k \in DOMAIN Populated(v, keys, val) :
           \/ Populated(v, keys, val)[k] = val
           \/ k \in DOMAIN v /\ Populated(v, keys, val)[k] = v[k]
  BY DEF Populated

\* A placement gives every module addresses.
LEMMA LayoutType ==
  ASSUME NEW l \in Layouts, NEW m \in Modules
  PROVE  l[m].lo \in Addresses /\ l[m].lo \in Nat /\ l[m].hi \in Nat /\ l[m].hi <= Space
<1>1. l \in [Modules -> [lo : Addresses, hi : 0..Space]]
  BY EnforcerAssumption, Zenon
<1>2. l[m] \in [lo : Addresses, hi : 0..Space]
  BY <1>1, Zenon
<1> QED BY <1>2, VmaAssumption DEF Addresses

\* A search string that matches one module finds its mapping.
LEMMA BaseIs ==
  ASSUME WellListed, layout \in Layouts, NEW m \in Mapped
  PROVE  Found(m) = {m} /\ Base(m) = layout[m].lo /\ Top(m) = layout[m].hi
<1>1. m \in Modules /\ layout[m].lo \in Int /\ layout[m].hi \in Int
  BY LayoutType DEF Mapped
<1>2. Found(m) = {m}
  BY <1>1 DEF Found, WellListed
<1>3. {layout[x].lo : x \in Found(m)} = {layout[m].lo} /\ {layout[x].hi : x \in Found(m)} = {layout[m].hi}
  BY <1>2
<1>4. Base(m) = layout[m].lo
  BY <1>1, <1>3 DEF Base, Min
<1>5. Top(m) = layout[m].hi
  BY <1>1, <1>3 DEF Top, Max
<1> QED BY <1>2, <1>4, <1>5

\* The maps are empty before installation.
LEMMA MapsInit == Init => MapsInv
  BY DEF Init, MapsInv, MODULE_DYNAMIC_BASE

\* Filling vma_map for a module with a new id, or for main or libc.
LEMMA PopulateBlocks ==
  ASSUME WellListed, MapsInv, NEW m \in Modules, NEW id
  PROVE  \A k \in DOMAIN PopulateVma(m, id) :
           \/ PopulateVma(m, id)[k] = [id |-> id, base |-> layout[m].lo]
           \/ k \in DOMAIN vma /\ PopulateVma(m, id)[k] = vma[k]
<1>1. CASE m \in Mapped
  BY <1>1, BaseIs, PopulatedBlocks DEF PopulateVma, MapsInv
<1>2. CASE m \notin Mapped
  <2>1. Found(m) = {}
    BY <1>2, Zenon DEF Found, WellListed
  <2> QED BY <2>1 DEF PopulateVma
<1> QED BY <1>1, <1>2, Zenon

\* What keeps MapsInv of a step that leaves the registry alone, or registers a
\* policy for main or libc.
LEMMA MapsSame ==
  ASSUME MapsInv, layout' = layout, nextId' = nextId, todo' \subseteq Libs \cap Mapped,
         stage' \in {"track", "run"} => cfi' = CfiPolicy,
         NEW id \in {MODULE_MAIN, MODULE_LIBC},
         \/ registry' = registry
         \/ /\ id = MODULE_MAIN /\ registry' = Registered(id, MainPolicy)
         \/ /\ id = MODULE_LIBC /\ registry' = Registered(id, << >>)
         \/ /\ id = MODULE_LIBC /\ "libc" \in Mapped
            /\ registry' = Registered(id, WithWildcards(LibcPolicy, LdOffsets(layout["libc"].lo))),
         NEW val, val \in {[id |-> MODULE_MAIN, base |-> layout["main"].lo],
                           [id |-> MODULE_LIBC, base |-> layout["libc"].lo]},
         \A k \in DOMAIN vma' : vma'[k] = val \/ (k \in DOMAIN vma /\ vma'[k] = vma[k])
  PROVE  MapsInv'
<1> USE DEF MODULE_MAIN, MODULE_LIBC, MODULE_DYNAMIC_BASE
<1>1. nextId \in Nat /\ nextId >= 3 /\ val.id \in {1, 2}
  BY DEF MapsInv
<1>2. ASSUME NEW k \in DOMAIN vma'
      PROVE  /\ vma'[k].id \in 1..(nextId - 1)
             /\ vma'[k].id = 1 => vma'[k].base = layout["main"].lo
             /\ vma'[k].id = 2 => vma'[k].base = layout["libc"].lo
             /\ vma'[k].id >= 3 => k \in DOMAIN vma /\ vma'[k] = vma[k]
  BY <1>1, <1>2 DEF MapsInv
<1>3. /\ DOMAIN registry' \subseteq DOMAIN registry \cup {id}
      /\ \A i \in DOMAIN registry' : i # id => i \in DOMAIN registry /\ registry'[i] = registry[i]
  BY Zenon DEF Registered
<1>4. DOMAIN registry' \subseteq 1..(nextId' - 1)
  BY <1>1, <1>3 DEF MapsInv
<1>5. LdOffsets(layout["libc"].lo)' = LdOffsets(layout["libc"].lo)
  BY Zenon DEF LdOffsets
<1>6. 1 \in DOMAIN registry' => registry'[1] = MainPolicy
  BY <1>3 DEF MapsInv, Registered
<1>7. 2 \in DOMAIN registry' =>
        \/ registry'[2] = << >>
        \/ /\ "libc" \in Mapped
           /\ registry'[2] = WithWildcards(LibcPolicy, LdOffsets(layout["libc"].lo))
  BY <1>3 DEF MapsInv, Registered
<1>8. ASSUME NEW i \in DOMAIN registry', i >= 3
      PROVE  \E l \in Libs \cap Mapped :
               /\ registry'[i] = WithWildcards(<< >>, TextSites(l, ScanMax))
               /\ \A k \in DOMAIN vma' : vma'[k].id = i => vma'[k].base = layout'[l].lo
  <2>1. i \in DOMAIN registry /\ registry'[i] = registry[i]
    BY <1>3, <1>8
  <2>2. PICK l \in Libs \cap Mapped :
          /\ registry[i] = WithWildcards(<< >>, TextSites(l, ScanMax))
          /\ \A k \in DOMAIN vma : vma[k].id = i => vma[k].base = layout[l].lo
    BY <1>8, <2>1, Zenon DEF MapsInv
  <2>3. \A k \in DOMAIN vma' : vma'[k].id = i => vma'[k].base = layout'[l].lo
    BY <1>2, <1>8, <2>2, Zenon
  <2> QED BY <2>1, <2>2, <2>3, Zenon
<1>9. layout' \in Layouts
  BY Zenon DEF MapsInv
<1> QED BY <1>1, <1>2, <1>4, <1>5, <1>6, <1>7, <1>8, <1>9 DEF MapsInv

\* Registering a library hands it a fresh id, and its blocks its base.
LEMMA MapsLib ==
  ASSUME WellListed, MapsInv, NEW l \in Libs, RegisterLib(l)
  PROVE  MapsInv'
<1> USE DEF MODULE_MAIN, MODULE_LIBC, MODULE_DYNAMIC_BASE
<1>1. /\ stage = "libs" /\ stage' = stage /\ layout' = layout /\ l \in Mapped
      /\ todo' \subseteq Libs \cap Mapped /\ nextId \in Nat /\ nextId >= 3 /\ layout \in Layouts
  BY DEF RegisterLib, MapsInv
<1>2. LdOffsets(layout["libc"].lo)' = LdOffsets(layout["libc"].lo)
  BY <1>1, Zenon DEF LdOffsets
<1>3. CASE registry' = registry /\ vma' = vma /\ nextId' = nextId
  BY <1>1, <1>2, <1>3, Zenon DEF MapsInv
<1>4. CASE /\ registry' = Registered(nextId, WithWildcards(<< >>, TextSites(l, ScanMax)))
           /\ vma' = PopulateVma(l, nextId)
           /\ nextId' = nextId + 1
  <2>1. ASSUME NEW k \in DOMAIN vma'
        PROVE  \/ vma'[k].id = nextId /\ vma'[k].base = layout[l].lo
               \/ k \in DOMAIN vma /\ vma'[k] = vma[k]
    <3>1. l \in Modules
      BY Zenon DEF Modules
    <3>2. \/ vma'[k] = [id |-> nextId, base |-> layout[l].lo]
          \/ k \in DOMAIN vma /\ vma'[k] = vma[k]
      BY <1>4, <3>1, PopulateBlocks, Zenon
    <3> QED BY <3>2
  <2>2. ASSUME NEW k \in DOMAIN vma
        PROVE  /\ vma[k].id \in 1..(nextId - 1)
               /\ vma[k].id = 1 => vma[k].base = layout["main"].lo
               /\ vma[k].id = 2 => vma[k].base = layout["libc"].lo
    BY Zenon DEF MapsInv
  <2>3. ASSUME NEW k \in DOMAIN vma'
        PROVE  /\ vma'[k].id \in 1..(nextId' - 1)
               /\ vma'[k].id = 1 => vma'[k].base = layout["main"].lo
               /\ vma'[k].id = 2 => vma'[k].base = layout["libc"].lo
    BY <1>1, <1>4, <2>1, <2>2
  <2>4. /\ DOMAIN registry' = DOMAIN registry \cup {nextId}
        /\ registry'[nextId] = WithWildcards(<< >>, TextSites(l, ScanMax))
        /\ \A i \in DOMAIN registry' : i # nextId => i \in DOMAIN registry /\ registry'[i] = registry[i]
    BY <1>4, Zenon DEF Registered
  <2>5. DOMAIN registry \subseteq 1..(nextId - 1)
    BY Zenon DEF MapsInv
  <2>6. DOMAIN registry' \subseteq 1..(nextId' - 1)
    BY <1>1, <1>4, <2>4, <2>5
  <2>7. ASSUME NEW i \in DOMAIN registry', i >= 3
        PROVE  \E x \in Libs \cap Mapped :
                 /\ registry'[i] = WithWildcards(<< >>, TextSites(x, ScanMax))
                 /\ \A k \in DOMAIN vma' : vma'[k].id = i => vma'[k].base = layout'[x].lo
    <3>1. CASE i = nextId
      <4>1. \A k \in DOMAIN vma' : vma'[k].id = i => vma'[k].base = layout'[l].lo
        BY <1>1, <2>1, <2>2, <3>1
      <4> QED BY <1>1, <2>4, <3>1, <4>1, Zenon
    <3>2. CASE i # nextId
      <4>1. i \in DOMAIN registry /\ registry'[i] = registry[i]
        BY <2>4, <3>2, Zenon
      <4>2. PICK x \in Libs \cap Mapped :
              /\ registry[i] = WithWildcards(<< >>, TextSites(x, ScanMax))
              /\ \A k \in DOMAIN vma : vma[k].id = i => vma[k].base = layout[x].lo
        BY <2>7, <4>1, Zenon DEF MapsInv
      <4>3. \A k \in DOMAIN vma' : vma'[k].id = i => vma'[k].base = layout'[x].lo
        BY <1>1, <2>1, <3>2, <4>2, Zenon
      <4> QED BY <4>1, <4>2, <4>3, Zenon
    <3> QED BY <3>1, <3>2, Zenon
  <2>8. 1 \in DOMAIN registry' => registry'[1] = MainPolicy
    BY <1>1, <2>4 DEF MapsInv
  <2>9. 2 \in DOMAIN registry' =>
          \/ registry'[2] = << >>
          \/ /\ "libc" \in Mapped
             /\ registry'[2] = WithWildcards(LibcPolicy, LdOffsets(layout["libc"].lo))
    BY <1>1, <2>4 DEF MapsInv
  <2>10. nextId' \in Nat /\ nextId' >= 3
    BY <1>1, <1>4
  <2> QED BY <1>1, <1>2, <2>3, <2>6, <2>7, <2>8, <2>9, <2>10, Zenon DEF MapsInv
<1> QED BY <1>3, <1>4, Zenon DEF RegisterLib

\* Every step of the installation keeps the maps in order, and no later step
\* touches them.
LEMMA MapsStep ==
  ASSUME WellListed, MapsInv, [Next]_vars
  PROVE  MapsInv'
<1> DEFINE mainVal == [id |-> MODULE_MAIN, base |-> layout["main"].lo]
           libcVal == [id |-> MODULE_LIBC, base |-> layout["libc"].lo]
<1>a. /\ "main" \in Modules /\ "libc" \in Modules /\ "main" \in Mapped
      /\ todo \subseteq Libs \cap Mapped /\ layout \in Layouts
  BY EnforcerAssumption, Zenon DEF Modules, Mapped, MapsInv
<1>1. CASE PopulateMain
  <2>1. \A k \in DOMAIN vma' : vma'[k] = mainVal \/ (k \in DOMAIN vma /\ vma'[k] = vma[k])
    BY <1>1, <1>a, PopulateBlocks, Zenon DEF PopulateMain
  <2> HIDE DEF mainVal
  <2> QED BY <1>1, <1>a, <2>1, MapsSame, Zenon DEF PopulateMain, mainVal
<1>2. CASE PopulateLibc
  <2>1. \A k \in DOMAIN vma' : vma'[k] = libcVal \/ (k \in DOMAIN vma /\ vma'[k] = vma[k])
    BY <1>2, <1>a, PopulateBlocks, Zenon DEF PopulateLibc
  <2> HIDE DEF libcVal
  <2> QED BY <1>2, <1>a, <2>1, MapsSame, Zenon DEF PopulateLibc, libcVal
<1>3. CASE RegisterMain
  BY <1>3, <1>a, MapsSame, Zenon DEF RegisterMain
<1>4. CASE RegisterLibc
  <2>1. /\ stage' = "libs" /\ layout' = layout /\ nextId' = nextId
        /\ todo' \subseteq Libs \cap Mapped
    BY <1>4 DEF RegisterLibc, Discovered
  <2>2. "libc" \in Mapped => Base("libc") = layout["libc"].lo
    BY <1>a, BaseIs, Zenon
  <2>3. /\ \/ registry' = registry
           \/ registry' = Registered(MODULE_LIBC, << >>)
           \/ /\ "libc" \in Mapped
              /\ registry' = Registered(MODULE_LIBC,
                               WithWildcards(LibcPolicy, LdOffsets(layout["libc"].lo)))
        /\ \/ vma' = vma
           \/ vma' = Populated(vma, Keys(layout["ld"].lo, layout["ld"].hi), libcVal)
    BY <1>4, <2>2, Zenon DEF RegisterLibc
  <2>4. \A k \in DOMAIN vma' : vma'[k] = libcVal \/ (k \in DOMAIN vma /\ vma'[k] = vma[k])
    BY <2>3, PopulatedBlocks
  <2> HIDE DEF libcVal
  <2> QED BY <2>1, <2>3, <2>4, MapsSame, Zenon DEF libcVal
<1>5. ASSUME NEW l \in Libs, RegisterLib(l) PROVE MapsInv'
  BY <1>5, MapsLib
<1>6. CASE SetupCfi
  BY <1>6, <1>a, MapsSame, Zenon DEF SetupCfi
<1>7. ASSUME UNCHANGED <<layout, install>>,
             stage' = stage \/ (stage = "track" /\ stage' = "run")
      PROVE  MapsInv'
  <2>1. stage' \in {"track", "run"} => cfi' = CfiPolicy
    BY <1>7, Zenon DEF install, MapsInv
  <2> QED BY <1>7, <1>a, <2>1, MapsSame, Zenon DEF install
<1>8. CASE Track
  BY <1>7, <1>8, Zenon DEF Track
<1>9. ASSUME NEW t \in Threads, Syscall(t) \/ Kernel(t) \/ Exit(t) PROVE MapsInv'
  BY <1>7, <1>9, Zenon DEF Syscall, Kernel, Return, Interrupt, Exit
<1>10. ASSUME NEW t \in Threads, NEW u \in Threads, Spawn(t, u) PROVE MapsInv'
  BY <1>7, <1>10 DEF Spawn
<1>11. CASE TakeTerm \/ UNCHANGED vars
  BY <1>7, <1>11, Zenon DEF TakeTerm, vars
<1> QED BY <1>1, <1>2, <1>3, <1>4, <1>5, <1>6, <1>8, <1>9, <1>10, <1>11, Zenon DEF Next, Install

\* The maps are in order in every reachable state.
LEMMA MapsOrdered ==
  ASSUME WellListed PROVE Spec => []MapsInv
<1>1. MapsInv /\ [Next]_vars => MapsInv'
  BY MapsStep
<1> QED BY <1>1, MapsInit, PTL DEF Spec

-----------------------------------------------------------------------------
(* Numbers.                                                                *)

\* Truncation to 32 bits in the loader (loader.c:1339) keeps a number that fits.
LEMMA Truncation == \A nr \in 0..(Word - 1) : nr % Word = nr
  BY WordAssumption

\* Decoding in parse_sentinel_section undoes the encoding of the pass, syscall
\* number 0 and "any" included.
LEMMA Decoding == \A nr \in DeclaredNrs : DecodedNr(EncodedNr(nr)) = nr
  BY WordAssumption DEF DeclaredNrs, DecodedNr, EncodedNr, AnyNr

\* A site declared "any" permits every syscall number and a site declared with
\* a number permits that number alone, through the pass, the policy section,
\* the loader's policy value and the test in sentinel_check.
THEOREM CodecFaithful ==
  \A declared \in DeclaredNrs, nr \in 0..(Word - 1) :
    NrPermitted(PolicyValue(DecodedNr(EncodedNr(declared))), nr)
      <=> declared \in {AnyNr, nr}
<1> SUFFICES ASSUME NEW declared \in DeclaredNrs, NEW nr \in 0..(Word - 1)
             PROVE  NrPermitted(PolicyValue(declared), nr) <=> declared \in {AnyNr, nr}
  BY Decoding, Zenon
<1>1. CASE declared = AnyNr
  BY <1>1 DEF NrPermitted, PolicyValue, AnyNr
<1>2. CASE declared \in 0..(Word - 1)
  <2>1. PolicyValue(declared) = [hi |-> 1, lo |-> declared]
    BY <1>2, Truncation DEF PolicyValue
  <2> QED BY <1>2, <2>1, WordAssumption DEF NrPermitted, AnyNr
<1> QED BY <1>1, <1>2 DEF DeclaredNrs

-----------------------------------------------------------------------------
(* The verdict on a site of the binary.  What it needs of the loader's     *)
(* lists and of finite sets of indices enters as hypotheses, which         *)
(* VerdictProofs proves.                                                   *)

\* No entry of the binary's sections is cut.
ListsRead ==
  /\ ParsedCfi = {i \in DOMAIN CfiEntries : CfiEntries[i].site # 0}
  /\ Section = ".sentinel" =>
       /\ Parsed = {i \in DOMAIN Declared : Declared[i].site # 0}
       /\ \A i \in Parsed : /\ Entries[i].site = Declared[i].site
                            /\ Entries[i].enc = EncodedNr(Declared[i].nr)
  /\ Section # ".sentinel" => Parsed = {}

\* Indices have a first and a last one.
FirstIs == \A S \in SUBSET Nat : S # {} => Min(S) \in S
LastIs  == \A n \in Nat : \A S \in SUBSET (0..n) : S # {} => Max(S) \in S

\* u64 subtraction of two addresses.
LEMMA OffsetIs ==
  ASSUME NEW x \in Addresses, NEW y \in Addresses
  PROVE  Offset(x, y) = IF y <= x THEN x - y ELSE x - y + Space
<1>1. x \in Nat /\ y \in Nat /\ x < Space /\ y < Space /\ Space \in Nat /\ Space > 0
  BY VmaAssumption DEF Addresses
<1>2. CASE y <= x
  <2>1. x - y \in 0..(Space - 1)
    BY <1>1, <1>2
  <2>2. (x - y) % Space = x - y
    BY <1>1, <2>1
  <2> QED BY <1>2, <2>2, Zenon DEF Offset
<1>3. CASE x < y
  <2>1. x - y + Space \in 0..(Space - 1)
    BY <1>1, <1>3
  <2>2. (x - y) % Space = x - y + Space
    BY <1>1, <1>3, <2>1
  <2> QED BY <1>1, <1>3, <2>2 DEF Offset
<1> QED BY <1>1, <1>2, <1>3

\* Two addresses at the same distance from a base are the same.
LEMMA OffsetInjective ==
  ASSUME NEW x \in Addresses, NEW y \in Addresses, NEW b \in Addresses,
         Offset(x, b) = Offset(y, b)
  PROVE  x = y
<1>1. /\ x \in Nat /\ y \in Nat /\ b \in Nat /\ Space \in Nat
      /\ x < Space /\ y < Space /\ b < Space
  BY VmaAssumption DEF Addresses
<1>2. /\ Offset(x, b) = IF b <= x THEN x - b ELSE x - b + Space
      /\ Offset(y, b) = IF b <= y THEN y - b ELSE y - b + Space
  BY OffsetIs
<1>3. PICK d : d = Offset(x, b)
  BY Zenon
<1>4. /\ d = IF b <= x THEN x - b ELSE x - b + Space
      /\ d = IF b <= y THEN y - b ELSE y - b + Space
  BY <1>2, <1>3, Zenon
<1> QED BY <1>1, <1>4

\* The address that an offset stands for.
LEMMA SiteAt ==
  ASSUME NEW site \in Addresses, NEW b \in Addresses, NEW o \in Nat, b + o < Space,
         Offset(site, b) = o
  PROVE  site = b + o
<1>1. b \in Nat /\ Space \in Nat /\ b + o \in Addresses /\ b <= b + o
  BY VmaAssumption DEF Addresses
<1>2. Offset(b + o, b) = o
  BY <1>1, OffsetIs
<1> QED BY <1>1, <1>2, OffsetInjective

\* The ELF address of a site of the binary, rebased.
LEMMA RuntimeOffsetIs ==
  ASSUME NEW a \in Nat, ElfBase <= a, a - ElfBase < Space
  PROVE  RuntimeOffset(a) = a - ElfBase
<1>1. ElfBase \in Nat
  BY EnforcerAssumption
<1>2. a - ElfBase \in 0..(Space - 1) /\ Space \in Nat /\ Space > 0
  BY <1>1, VmaAssumption
<1>3. (a - ElfBase) % Space = a - ElfBase
  BY <1>2
<1> QED BY <1>3, Zenon DEF RuntimeOffset, Offset

\* A declared site, rebased.
LEMMA SitePlaced ==
  ASSUME NEW l \in Layouts, NEW a \in Nat, ElfBase <= a,
         a - ElfBase < l["main"].hi - l["main"].lo
  PROVE  /\ RuntimeOffset(a) = a - ElfBase /\ a - ElfBase \in Nat /\ ElfBase \in Nat
         /\ l["main"].lo + (a - ElfBase) \in Addresses
         /\ l["main"].lo + (a - ElfBase) < l["main"].hi
<1>1. "main" \in Modules /\ ElfBase \in Nat
  BY EnforcerAssumption, Zenon DEF Modules
<1>2. l["main"].lo \in Nat /\ l["main"].hi \in Nat /\ l["main"].hi <= Space
  BY <1>1, LayoutType, Zenon
<1>3. Space \in Nat
  BY VmaAssumption, Zenon
<1>4. RuntimeOffset(a) = a - ElfBase
  BY <1>1, <1>2, <1>3, RuntimeOffsetIs
<1> QED BY <1>1, <1>2, <1>3, <1>4 DEF Addresses

\* A return address that passes the test of the hook is in the function.
LEMMA RangePlaced ==
  ASSUME layout \in Layouts, NEW f \in Nat, NEW size \in Nat, ElfBase <= f,
         layout["main"].lo + (f - ElfBase) + size < Space,
         NEW caller \in Callers, NEW range,
         range.start = RuntimeOffset(f), range.end = RuntimeOffset(f) + size,
         CallerValid(range, caller, layout["main"].lo)
  PROVE  caller # NoStack /\ ElfAddr(caller) \in f..(f + size)
<1> DEFINE lo == layout["main"].lo
<1>1. "main" \in Modules /\ ElfBase \in Nat /\ caller # NoStack /\ caller \in Addresses
  BY EnforcerAssumption, Zenon DEF Modules, CallerValid
<1>2. lo \in Nat /\ lo \in Addresses
  BY <1>1, LayoutType, Zenon
<1>3. Space \in Nat /\ f - ElfBase < Space /\ caller \in Nat
  BY <1>1, <1>2, VmaAssumption DEF Addresses
<1>4. RuntimeOffset(f) = f - ElfBase
  BY <1>3, RuntimeOffsetIs, Zenon
<1>5. Offset(caller, lo) \in (f - ElfBase)..(f - ElfBase + size)
  BY <1>4, Zenon DEF CallerValid
<1>6. Offset(caller, lo) = IF lo <= caller THEN caller - lo ELSE caller - lo + Space
  BY <1>1, <1>2, OffsetIs
<1>7. PICK d : d = Offset(caller, lo)
  BY Zenon
<1>8. d \in (f - ElfBase)..(f - ElfBase + size) /\ d = IF lo <= caller THEN caller - lo ELSE caller - lo + Space
  BY <1>5, <1>6, <1>7, Zenon
<1>9. ElfAddr(caller) = caller - lo + ElfBase
  BY Zenon DEF ElfAddr
<1> HIDE DEF lo
<1>10. lo + (f - ElfBase) + size < Space
  BY Zenon DEF lo
<1> QED BY <1>1, <1>2, <1>3, <1>8, <1>9, <1>10

\* What the sections of the binary hold.
LEMMA EntryTypes ==
  /\ \A i \in DOMAIN Declared : Declared[i].site \in Nat /\ Declared[i].nr \in DeclaredNrs
  /\ \A i \in DOMAIN CfiEntries : /\ CfiEntries[i].site \in Nat
                                  /\ CfiEntries[i].func \in Nat /\ CfiEntries[i].size \in Nat
<1> DEFINE Dec == [site : Nat, nr : DeclaredNrs]
           Cfi == [site : Nat, func : Nat, size : Nat]
<1>1. Declared \in Seq(Dec) /\ CfiEntries \in Seq(Cfi)
  BY EnforcerAssumption, Zenon
<1> HIDE DEF Dec, Cfi
<1>2. /\ \A i \in DOMAIN Declared : Declared[i] \in Dec
      /\ \A i \in DOMAIN CfiEntries : CfiEntries[i] \in Cfi
  BY <1>1
<1> QED BY <1>2, Zenon DEF Dec, Cfi

\* The lists are indexed from one.
LEMMA ListDomains ==
  /\ \E n \in Nat : DOMAIN Declared = 1..n
  /\ \E n \in Nat : DOMAIN CfiEntries = 1..n
<1> DEFINE D == [site : Nat, nr : DeclaredNrs]
           C == [site : Nat, func : Nat, size : Nat]
<1>1. Declared \in Seq(D) /\ CfiEntries \in Seq(C)
  BY EnforcerAssumption, Zenon
<1> HIDE DEF D, C
<1>2. /\ DOMAIN Declared = 1..Len(Declared) /\ Len(Declared) \in Nat
      /\ DOMAIN CfiEntries = 1..Len(CfiEntries) /\ Len(CfiEntries) \in Nat
  BY <1>1
<1> QED BY <1>2, Zenon

\* A site in main's map is a declared one, and permits what was declared last
\* for it.
LEMMA MainSite ==
  ASSUME WellPlaced, ListsRead, LastIs, layout \in Layouts, NEW site \in Addresses,
         NEW nr \in 0..(Word - 1),
         Offset(site, layout["main"].lo) \in DOMAIN MainPolicy,
         NrPermitted(MainPolicy[Offset(site, layout["main"].lo)], nr)
  PROVE  /\ Section = ".sentinel" /\ Inside("main", site)
         /\ ElfAddr(site) \in Nat /\ ElfAddr(site) # 0
         /\ Offset(site, layout["main"].lo) = ElfAddr(site) - ElfBase
         /\ \E i \in DOMAIN Declared : /\ Declared[i].site # 0
                                      /\ Declared[i].site = ElfAddr(site)
                                      /\ Declared[i].nr \in {AnyNr, nr}
<1> DEFINE lo == layout["main"].lo
           o  == Offset(site, lo)
           at(x) == {i \in Parsed : RuntimeOffset(Entries[i].site) = x}
<1>1. PICK j \in Parsed : RuntimeOffset(Entries[j].site) = o
  BY DEF MainPolicy
<1>2. /\ Section = ".sentinel"
      /\ Parsed = {i \in DOMAIN Declared : Declared[i].site # 0}
      /\ \A i \in Parsed : /\ Entries[i].site = Declared[i].site
                           /\ Entries[i].enc = EncodedNr(Declared[i].nr)
  BY <1>1, Zenon DEF ListsRead
<1>3. PICK n \in Nat : DOMAIN Declared = 1..n
  BY ListDomains, Zenon
<1>4. Max(at(o)) \in at(o)
  <2>1. at(o) \in SUBSET (0..n) /\ at(o) # {}
    BY <1>1, <1>2, <1>3
  <2> HIDE DEF at, o
  <2> QED BY <2>1, Zenon DEF LastIs
<1>5. PICK i : i = Max(at(o))
  BY Zenon
<1>6. /\ i \in Parsed /\ i \in DOMAIN Declared /\ Declared[i].site # 0
      /\ RuntimeOffset(Declared[i].site) = o
  BY <1>2, <1>4, <1>5, Zenon
<1>7. Declared[i].site \in Nat /\ Declared[i].nr \in DeclaredNrs
  BY <1>6, EntryTypes, Zenon
<1>8. ElfBase <= Declared[i].site /\ Declared[i].site - ElfBase < layout["main"].hi - lo
  BY <1>6, Zenon DEF WellPlaced
<1>9. /\ o = Declared[i].site - ElfBase /\ o \in Nat /\ ElfBase \in Nat
      /\ lo + o \in Addresses /\ lo + o < layout["main"].hi
  BY <1>6, <1>7, <1>8, SitePlaced, Zenon
<1>10. "main" \in Modules /\ "main" \in Mapped
  BY EnforcerAssumption, Zenon DEF Modules, Mapped
<1>11. lo \in Addresses /\ lo \in Nat /\ layout["main"].hi \in Nat
  BY <1>10, LayoutType, Zenon
<1> HIDE DEF o, at
<1>12. site = lo + o
  <2>1. lo + o < Space /\ Offset(site, lo) = o
    BY <1>9, VmaAssumption DEF Addresses, o
  <2> QED BY <1>9, <1>11, <2>1, SiteAt
<1>13. ElfAddr(site) = Declared[i].site /\ ElfAddr(site) - ElfBase = o
  BY <1>7, <1>9, <1>11, <1>12 DEF ElfAddr
<1>14. Inside("main", site)
  BY <1>9, <1>10, <1>11, <1>12 DEF Inside
<1>15. MainPolicy[o] = PolicyValue(DecodedNr(EncodedNr(Declared[i].nr)))
  <2>1. MainPolicy[o] = PolicyValue(DecodedNr(Entries[Max(at(o))].enc))
    BY Zenon DEF MainPolicy, at, o
  <2> QED BY <1>2, <1>5, <1>6, <2>1, Zenon
<1>16. Declared[i].nr \in {AnyNr, nr}
  BY <1>7, <1>15, CodecFaithful DEF o
<1> QED BY <1>2, <1>6, <1>7, <1>13, <1>14, <1>16, Zenon DEF o

\* The range stored for a site of .sentinel_cfi is that of its function.
LEMMA SectionCaller ==
  ASSUME WellPlaced, WellListed, ListsRead, LastIs, layout \in Layouts,
         NEW caller \in Callers, NEW i \in ParsedCfi,
         LET o == CfiEntries[i].site - ElfBase
         IN  o \in DOMAIN SectionCfi =>
               CallerValid(SectionCfi[o], caller, layout["main"].lo)
  PROVE  LET e == CfiEntries[i]
         IN  /\ caller # NoStack
             /\ ElfAddr(caller) \in e.func..(e.func + (IF e.size = 0 THEN DefaultSize ELSE e.size))
<1> DEFINE o  == CfiEntries[i].site - ElfBase
           at(x) == {k \in ParsedCfi : RuntimeOffset(CfiEntries[k].site) = x}
           size(k) == IF CfiEntries[k].size = 0 THEN DefaultSize ELSE CfiEntries[k].size
<1>1. ParsedCfi = {k \in DOMAIN CfiEntries : CfiEntries[k].site # 0}
  BY Zenon DEF ListsRead
<1>2. PICK n \in Nat : DOMAIN CfiEntries = 1..n
  BY ListDomains, Zenon
<1>3. ASSUME NEW k \in ParsedCfi
      PROVE  /\ CfiEntries[k].site \in Nat /\ CfiEntries[k].site # 0
             /\ CfiEntries[k].func \in Nat /\ CfiEntries[k].size \in Nat
  BY <1>1, EntryTypes, Zenon
<1>4. ASSUME NEW k \in ParsedCfi
      PROVE  /\ ElfBase <= CfiEntries[k].site
             /\ CfiEntries[k].site - ElfBase < layout["main"].hi - layout["main"].lo
             /\ ElfBase <= CfiEntries[k].func
             /\ layout["main"].lo + (CfiEntries[k].func - ElfBase) + size(k) < Space
  BY <1>1, Zenon DEF WellPlaced
<1>5. ASSUME NEW k \in ParsedCfi
      PROVE  RuntimeOffset(CfiEntries[k].site) = CfiEntries[k].site - ElfBase
  BY <1>3, <1>4, SitePlaced, Zenon
<1>6. Max(at(o)) \in at(o)
  <2>1. i \in at(o)
    BY <1>5, Zenon
  <2>2. \A k \in 1..n : k \in 0..n
    OBVIOUS
  <2>3. at(o) \in SUBSET (0..n) /\ at(o) # {}
    BY <1>1, <1>2, <2>1, <2>2, Zenon
  <2> HIDE DEF at, o
  <2> QED BY <2>3, Zenon DEF LastIs
<1>7. PICK j : j = Max(at(o))
  BY Zenon
<1>8. j \in ParsedCfi /\ CfiEntries[j].site = CfiEntries[i].site
  <2>1. j \in ParsedCfi /\ RuntimeOffset(CfiEntries[j].site) = o
    BY <1>6, <1>7, Zenon
  <2>2. CfiEntries[j].site - ElfBase = CfiEntries[i].site - ElfBase
    BY <1>5, <2>1, Zenon
  <2>3. ElfBase \in Nat
    BY EnforcerAssumption, Zenon
  <2> QED BY <1>3, <2>1, <2>2, <2>3
<1>9. CfiEntries[j] = CfiEntries[i]
  BY <1>1, <1>8, Zenon DEF WellListed
<1>10. o \in DOMAIN SectionCfi
  <2>1. RuntimeOffset(CfiEntries[i].site) = o
    BY <1>5, Zenon
  <2> QED BY <2>1, Zenon DEF SectionCfi
<1>11. SectionCfi[o] = [start |-> RuntimeOffset(CfiEntries[i].func),
                        end   |-> RuntimeOffset(CfiEntries[i].func) + size(i)]
  <2>1. SectionCfi[o] = [start |-> RuntimeOffset(CfiEntries[Max(at(o))].func),
                         end   |-> RuntimeOffset(CfiEntries[Max(at(o))].func) + size(Max(at(o)))]
    BY <1>10, Zenon DEF SectionCfi
  <2> HIDE DEF at, o
  <2> QED BY <1>7, <1>9, <2>1, Zenon
<1>12. size(i) \in Nat
  BY <1>3, EnforcerAssumption, Zenon
<1>13. CallerValid(SectionCfi[o], caller, layout["main"].lo)
  BY <1>10, Zenon
<1>14. CfiEntries[i].func \in Nat
  BY <1>3, Zenon
<1> HIDE DEF size, o
<1>15. caller # NoStack /\ ElfAddr(caller) \in CfiEntries[i].func..(CfiEntries[i].func + size(i))
  <2>1. /\ ElfBase <= CfiEntries[i].func
        /\ layout["main"].lo + (CfiEntries[i].func - ElfBase) + size(i) < Space
    BY <1>4, Zenon DEF size
  <2>2. /\ SectionCfi[o].start = RuntimeOffset(CfiEntries[i].func)
        /\ SectionCfi[o].end = RuntimeOffset(CfiEntries[i].func) + size(i)
    BY <1>11
  <2> QED BY <1>12, <1>13, <1>14, <2>1, <2>2, RangePlaced, Zenon
<1> QED BY <1>15, Zenon DEF size

\* The sites inside do_write, and the site that setup_cfi_policy constrains.
DoWriteSites ==
  {i \in DOMAIN Declared : /\ Declared[i].site # 0
                          /\ Declared[i].site \in DoWrite.addr..(DoWrite.addr + DoWrite.size - 1)}
DoWriteTarget ==
  IF DoWriteSites = {} THEN DoWrite.addr + SiteGuess ELSE Declared[Min(DoWriteSites)].site

\* Without .sentinel_cfi, the range stored for the target is safe_caller's.
LEMMA SymbolCaller ==
  ASSUME WellPlaced, ListsRead, FirstIs, layout \in Layouts, NEW caller \in Callers,
         Section = ".sentinel", DoWrite.addr # 0, SafeCaller.addr # 0,
         DoWriteTarget - ElfBase \in DOMAIN SymbolCfi =>
           CallerValid(SymbolCfi[DoWriteTarget - ElfBase], caller, layout["main"].lo)
  PROVE  /\ caller # NoStack
         /\ ElfAddr(caller) \in SafeCaller.addr..(SafeCaller.addr + SafeCaller.size)
<1> DEFINE callee == RuntimeOffset(DoWrite.addr)
           inside == {i \in Parsed :
                        RuntimeOffset(Entries[i].site) \in callee..(callee + DoWrite.size - 1)}
           site   == IF inside = {} THEN callee + SiteGuess
                     ELSE RuntimeOffset(Entries[Min(inside)].site)
           lo     == layout["main"].lo
<1>1. /\ DoWrite.addr \in Nat /\ DoWrite.size \in Nat /\ SafeCaller.addr \in Nat
      /\ SafeCaller.size \in Nat /\ SiteGuess \in Nat /\ ElfBase \in Nat
  <2>1. /\ DoWrite \in [addr : Nat, size : Nat] /\ SafeCaller \in [addr : Nat, size : Nat]
        /\ SiteGuess \in Nat /\ ElfBase \in Nat
    BY EnforcerAssumption, Zenon
  <2> QED BY <2>1
<1>2. /\ ElfBase <= SafeCaller.addr /\ lo + (SafeCaller.addr - ElfBase) + SafeCaller.size < Space
      /\ ElfBase <= DoWrite.addr /\ lo + (DoWrite.addr - ElfBase) + DoWrite.size < Space
  BY Zenon DEF WellPlaced
<1>3. lo \in Nat /\ Space \in Nat
  BY LayoutType, VmaAssumption, Zenon DEF Modules
<1>4. callee = DoWrite.addr - ElfBase
  <2>1. DoWrite.addr - ElfBase < Space
    BY <1>1, <1>2, <1>3
  <2> QED BY <1>1, <1>2, <2>1, RuntimeOffsetIs, Zenon
<1>5. /\ Parsed = {i \in DOMAIN Declared : Declared[i].site # 0}
      /\ \A i \in Parsed : Entries[i].site = Declared[i].site
  BY Zenon DEF ListsRead
<1>6. ASSUME NEW i \in Parsed
      PROVE  Declared[i].site \in Nat /\ RuntimeOffset(Entries[i].site) = Declared[i].site - ElfBase
  <2>1. i \in DOMAIN Declared /\ Declared[i].site # 0 /\ Entries[i].site = Declared[i].site
    BY <1>5, Zenon
  <2>2. ElfBase <= Declared[i].site /\ Declared[i].site - ElfBase < layout["main"].hi - lo
    BY <2>1, Zenon DEF WellPlaced
  <2>3. Declared[i].site \in Nat
    BY <2>1, EntryTypes, Zenon
  <2> QED BY <2>1, <2>2, <2>3, SitePlaced, Zenon
<1>7. inside = DoWriteSites
  <2> HIDE DEF callee
  <2>1. ASSUME NEW i \in Parsed
        PROVE  RuntimeOffset(Entries[i].site) \in callee..(callee + DoWrite.size - 1)
                 <=> Declared[i].site \in DoWrite.addr..(DoWrite.addr + DoWrite.size - 1)
    <3>1. PICK r : r = RuntimeOffset(Entries[i].site)
      BY Zenon
    <3>2. PICK d : d = Declared[i].site
      BY Zenon
    <3>3. d \in Nat /\ r = d - ElfBase
      BY <1>6, <3>1, <3>2, Zenon
    <3>4. r \in callee..(callee + DoWrite.size - 1)
            <=> d \in DoWrite.addr..(DoWrite.addr + DoWrite.size - 1)
      BY <1>1, <1>4, <3>3
    <3> QED BY <3>1, <3>2, <3>4, Zenon
  <2> QED BY <1>5, <2>1, Zenon DEF DoWriteSites
<1>8. DoWriteTarget - ElfBase = site
  <2>1. CASE DoWriteSites = {}
    <3>1. site = callee + SiteGuess /\ DoWriteTarget = DoWrite.addr + SiteGuess
      BY <1>7, <2>1, Zenon DEF DoWriteTarget
    <3> HIDE DEF site, callee
    <3> QED BY <1>1, <1>4, <3>1
  <2>2. CASE DoWriteSites # {}
    <3>1. DoWriteSites \in SUBSET Nat
      <4>1. PICK n \in Nat : DOMAIN Declared = 1..n
        BY ListDomains, Zenon
      <4>2. \A i \in 1..n : i \in Nat
        OBVIOUS
      <4> QED BY <4>1, <4>2, Zenon DEF DoWriteSites
    <3>2. Min(DoWriteSites) \in DoWriteSites
      BY <2>2, <3>1, Zenon DEF FirstIs
    <3>3. Min(DoWriteSites) \in Parsed
      BY <1>7, <3>2, Zenon
    <3>4. site = RuntimeOffset(Entries[Min(DoWriteSites)].site)
      BY <1>7, <2>2, Zenon
    <3>5. DoWriteTarget = Declared[Min(DoWriteSites)].site
      BY <2>2, Zenon DEF DoWriteTarget
    <3> QED BY <1>6, <3>3, <3>4, <3>5, Zenon
  <2> QED BY <2>1, <2>2, Zenon
<1>9. SymbolCfi = [o \in {site} |-> [start |-> RuntimeOffset(SafeCaller.addr),
                                     end |-> RuntimeOffset(SafeCaller.addr) + SafeCaller.size]]
  BY Zenon DEF SymbolCfi
<1> HIDE DEF site, callee, inside
<1>10. /\ CallerValid(SymbolCfi[site], caller, lo)
       /\ SymbolCfi[site].start = RuntimeOffset(SafeCaller.addr)
       /\ SymbolCfi[site].end = RuntimeOffset(SafeCaller.addr) + SafeCaller.size
  BY <1>8, <1>9
<1> QED BY <1>1, <1>2, <1>10, RangePlaced, Zenon

\* The verdict of the hooks on a site of the binary.
LEMMA MainVerdict ==
  ASSUME WellPlaced, WellListed, ListsRead, FirstIs, LastIs, layout \in Layouts,
         NEW site \in Addresses, NEW nr \in 0..(Word - 1), NEW caller \in Callers,
         LET o == Offset(site, layout["main"].lo)
         IN  /\ o \in DOMAIN MainPolicy /\ NrPermitted(MainPolicy[o], nr)
             /\ o \in DOMAIN CfiPolicy => CallerValid(CfiPolicy[o], caller, layout["main"].lo)
  PROVE  Intended(site, nr, caller)
<1> DEFINE a == ElfAddr(site)
<1>1. /\ Section = ".sentinel" /\ Inside("main", site) /\ a \in Nat /\ a # 0
      /\ Offset(site, layout["main"].lo) = a - ElfBase
      /\ \E i \in DOMAIN Declared : /\ Declared[i].site # 0
                                   /\ Declared[i].site = ElfAddr(site)
                                   /\ Declared[i].nr \in {AnyNr, nr}
  BY MainSite, Zenon
<1>2. a - ElfBase \in DOMAIN CfiPolicy =>
        CallerValid(CfiPolicy[a - ElfBase], caller, layout["main"].lo)
  BY <1>1, Zenon
<1>3. ParsedCfi = {i \in DOMAIN CfiEntries : CfiEntries[i].site # 0}
  BY Zenon DEF ListsRead
<1> HIDE DEF a
<1>4. CallerIntended(a, caller)
  <2>1. CASE ParsedCfi # {}
    <3>1. CfiPolicy = SectionCfi
      BY <2>1 DEF CfiPolicy
    <3>2. ASSUME NEW i \in DOMAIN CfiEntries, CfiEntries[i].site = a
          PROVE  LET e == CfiEntries[i]
                 IN  /\ caller # NoStack
                     /\ ElfAddr(caller) \in
                          e.func..(e.func + (IF e.size = 0 THEN DefaultSize ELSE e.size))
      <4>1. i \in ParsedCfi
        BY <1>1, <1>3, <3>2, Zenon
      <4>2. LET o == CfiEntries[i].site - ElfBase
            IN  o \in DOMAIN SectionCfi =>
                  CallerValid(SectionCfi[o], caller, layout["main"].lo)
        BY <1>2, <3>1, <3>2, Zenon
      <4> QED BY <4>1, <4>2, SectionCaller, Zenon
    <3>3. \E i \in DOMAIN CfiEntries : CfiEntries[i].site # 0
      BY <1>3, <2>1, Zenon
    <3> QED BY <3>2, <3>3, Zenon DEF CallerIntended
  <2>2. CASE ParsedCfi = {}
    <3>1. CfiPolicy = SymbolCfi
      BY <2>2, Zenon DEF CfiPolicy
    <3>2. ASSUME DoWrite.addr # 0, SafeCaller.addr # 0, a = DoWriteTarget
          PROVE  /\ caller # NoStack
                 /\ ElfAddr(caller) \in SafeCaller.addr..(SafeCaller.addr + SafeCaller.size)
      <4>1. DoWriteTarget - ElfBase \in DOMAIN SymbolCfi =>
              CallerValid(SymbolCfi[DoWriteTarget - ElfBase], caller, layout["main"].lo)
        BY <1>2, <3>1, <3>2, Zenon
      <4> QED BY <1>1, <3>2, <4>1, SymbolCaller, Zenon
    <3>3. ~\E i \in DOMAIN CfiEntries : CfiEntries[i].site # 0
      BY <1>3, <2>2, Zenon
    <3> QED BY <3>2, <3>3, Zenon DEF CallerIntended, DoWriteTarget, DoWriteSites
  <2> QED BY <2>1, <2>2, Zenon
<1> QED BY <1>1, <1>4, Zenon DEF Intended, a

-----------------------------------------------------------------------------
(* Refinement.                                                             *)

\* The hooks judge exactly while the child runs, and only term mode sends a
\* signal that the program may survive.
MonitorInv ==
  /\ KillInv
  /\ tracked = (stage = "run")
  /\ termed \in BOOLEAN /\ doomed \in BOOLEAN
  /\ termed => mode = "term"

\* Before installation nothing is judged and no signal is pending.
LEMMA MonitorInit == Init => MonitorInv
<1> SUFFICES ASSUME Init PROVE MonitorInv
  OBVIOUS
<1>1. tracked = (stage = "run") /\ termed \in BOOLEAN /\ doomed \in BOOLEAN /\ ~termed
  BY Zenon DEF Init
<1> QED BY <1>1, KillInit DEF MonitorInv

\* deny_action chooses the signal by the mode; enrolment is the last step of
\* the loader.
LEMMA MonitorStep ==
  ASSUME MonitorInv, [Next]_vars
  PROVE  MonitorInv'
<1>a. KillInv'
  BY KillStep DEF MonitorInv
<1>1. CASE Install
  <2>1. doomed' = doomed /\ termed' = termed /\ mode' = mode
    BY <1>1, Zenon DEF Install, PopulateMain, PopulateLibc, RegisterMain, RegisterLibc, RegisterLib,
       SetupCfi, Track, run
  <2>2. tracked' = (stage' = "run")
    <3>1. CASE Track
      BY <3>1, Zenon DEF Track
    <3>2. CASE ~Track
      <4>1. tracked' = tracked /\ stage # "run" /\ stage' # "run"
        BY <1>1, <3>2, Zenon DEF Install, PopulateMain, PopulateLibc, RegisterMain, RegisterLibc,
           RegisterLib, SetupCfi
      <4> QED BY <4>1, Zenon DEF MonitorInv
    <3> QED BY <3>1, <3>2
  <2> QED BY <1>a, <2>1, <2>2, Zenon DEF MonitorInv
<1>b. ASSUME UNCHANGED <<stage, tracked, mode>>, termed' \in BOOLEAN, doomed' \in BOOLEAN,
             termed' => termed \/ mode = "term"
      PROVE  MonitorInv'
  BY <1>a, <1>b, Zenon DEF MonitorInv
<1>2. ASSUME NEW t \in Threads, Syscall(t) PROVE MonitorInv'
  <2>1. UNCHANGED <<stage, tracked, mode>> /\ (DenyAction \/ UNCHANGED <<doomed, termed>>)
    BY <1>2 DEF Syscall
  <2>2. termed' \in BOOLEAN /\ doomed' \in BOOLEAN /\ (termed' => termed \/ mode = "term")
    <3>1. CASE DenyAction
      BY <3>1, Zenon DEF DenyAction
    <3>2. CASE UNCHANGED <<doomed, termed>>
      <4>1. doomed' = doomed /\ termed' = termed
        BY <3>2
      <4> QED BY <4>1, Zenon DEF MonitorInv
    <3> QED BY <2>1, <3>1, <3>2, Zenon
  <2> QED BY <1>b, <2>1, <2>2, Zenon
<1>3. ASSUME UNCHANGED <<stage, tracked, mode, doomed, termed>> PROVE MonitorInv'
  BY <1>b, <1>3, Zenon DEF MonitorInv
<1>4. ASSUME NEW t \in Threads, Kernel(t) \/ Exit(t) PROVE MonitorInv'
  BY <1>3, <1>4, Zenon DEF Kernel, Return, Interrupt, Exit
<1>5. ASSUME NEW t \in Threads, NEW u \in Threads, Spawn(t, u) PROVE MonitorInv'
  BY <1>3, <1>5, Zenon DEF Spawn
<1>6. CASE TakeTerm
  <2>1. UNCHANGED <<stage, tracked, mode>> /\ termed' = FALSE /\ doomed' \in {doomed, TRUE}
    BY <1>6, Zenon DEF TakeTerm
  <2>2. doomed' \in BOOLEAN
    BY <2>1, Zenon DEF MonitorInv
  <2> QED BY <1>b, <2>1, <2>2, Zenon
<1>7. CASE UNCHANGED vars
  BY <1>3, <1>7, Zenon DEF vars, run
<1> QED BY <1>1, <1>2, <1>4, <1>5, <1>6, <1>7, Zenon DEF Next

\* What is intended depends on the placement alone.
LEMMA IntendedKept ==
  ASSUME layout' = layout, NEW site, NEW nr, NEW caller
  PROVE  Intended(site, nr, caller)' = Intended(site, nr, caller)
<1>1. \A a : ElfAddr(a)' = ElfAddr(a)
  BY DEF ElfAddr
<1>2. CallerIntended(ElfAddr(site), caller)' = CallerIntended(ElfAddr(site), caller)
  <2>1. PICK a, c : a = ElfAddr(site) /\ c = ElfAddr(caller)
    BY Zenon
  <2>2. a = ElfAddr(site)' /\ c = ElfAddr(caller)'
    BY <1>1, <2>1, Zenon
  <2> QED BY <2>1, <2>2, Zenon DEF CallerIntended
<1>3. \A m, a : Inside(m, a)' = Inside(m, a)
  BY Zenon DEF Inside
<1> QED BY <1>1, <1>2, <1>3, Zenon DEF Intended

\* The policy of the abstract monitor does not change, and what is granted is
\* settled when the child starts.
LEMMA GrantsKept ==
  ASSUME UNCHANGED <<stage, layout, mode, install, tracked>>
  PROVE  Permitted' = Permitted /\ Granted' = Granted /\ (mode = "kill")' = (mode = "kill")
         /\ (stage = "run")' = (stage = "run")
<1>1. vma' = vma /\ registry' = registry /\ cfi' = cfi /\ tracked' = tracked /\ layout' = layout
      /\ stage' = stage /\ mode' = mode
  BY Zenon DEF install
<1>2. \A site, nr, caller : Intended(site, nr, caller)' = Intended(site, nr, caller)
  BY <1>1, IntendedKept
<1>3. Permitted' = Permitted
  BY <1>2, Zenon DEF Permitted
<1>4. ASSUME NEW t, NEW site, NEW nr, NEW caller
      PROVE  Denied(t, site, nr, caller)' = Denied(t, site, nr, caller)
  <2>1. PolicyCheck(site, nr, caller)' = PolicyCheck(site, nr, caller)
    BY <1>1, Zenon DEF PolicyCheck
  <2> QED BY <1>1, <2>1 DEF Denied, Judged
<1>5. Granted' = Granted
  BY <1>1, <1>4, Zenon DEF Granted
<1> QED BY <1>1, <1>3, <1>5

GrantsSound == stage = "run" => Granted \subseteq Permitted

\* A call that the hooks do not deny is permitted.
LEMMA GrantedPermitted ==
  ASSUME MonitorInv, OnlyIntendedAllowed, stage = "run"
  PROVE  Granted \subseteq Permitted
<1> SUFFICES ASSUME NEW c \in Calls, NEW t \in Child, ~Denied(t, c[1], c[2], c[3])
             PROVE  c \in Permitted
  BY Zenon DEF Granted
<1>1. c[1] \in Addresses /\ c[2] \in Nrs /\ c[3] \in Callers
  BY EnforcerAssumption, Zenon DEF Calls
<1>2. tracked
  BY Zenon DEF MonitorInv
<1>3. c[2] \notin Hooked => c[2] \notin Blocked
  BY <1>2, Zenon DEF Denied, Judged
<1>4. c[2] \in Hooked => c[2] \notin Blocked
  BY DEF Hooked, Blocked
<1>5. c[2] \in Hooked => PolicyCheck(c[1], c[2], c[3])
  BY <1>2, Zenon DEF Denied, Judged
<1>6. c[2] \in Hooked => Intended(c[1], c[2], c[3])
  BY <1>1, <1>5, Zenon DEF OnlyIntendedAllowed
<1> QED BY <1>3, <1>4, <1>6, Zenon DEF Permitted

\* The status of the child's threads after a step of one thread.
LEMMA StatusMoves ==
  ASSUME KillInv, NEW t \in Threads, NEW s, thread' = [thread EXCEPT ![t] = s]
  PROVE  LET status == [c \in Child |-> thread[c]]
         IN  /\ t \in Child => status' = [status EXCEPT ![t] = s]
             /\ t \notin Child => status' = status
<1>1. thread \in [Threads -> States] /\ Child \subseteq Threads
  BY DEF KillInv, Threads
<1> QED BY <1>1, Zenon

\* A call of the child is one of the monitor's, allowed when it is granted and
\* denied when it is not.
LEMMA SyscallRefines ==
  ASSUME MonitorInv, NEW t \in Threads, Syscall(t)
  PROVE  Abstract!Next \/ UNCHANGED Abstract!vars
<1> DEFINE status == [c \in Child |-> thread[c]]
<1>1. /\ UNCHANGED <<stage, layout, mode, install, tracked>> /\ thread[t] = "user"
      /\ stage = "run" /\ KillInv
  BY DEF Syscall, MonitorInv, KillInv
<1>2. PICK site \in Addrs, nr \in Nrs, caller \in Callers :
        \/ /\ Denied(t, site, nr, caller)
           /\ thread' = [thread EXCEPT ![t] = "denied"]
           /\ DenyAction
        \/ /\ ~Denied(t, site, nr, caller)
           /\ thread' = [thread EXCEPT ![t] = "allowed"]
           /\ UNCHANGED <<doomed, termed>>
  BY Zenon DEF Syscall
<1> DEFINE c == <<site, nr, caller>>
<1>3. c \in Calls /\ c[1] = site /\ c[2] = nr /\ c[3] = caller
  BY Zenon DEF Calls
<1>4. /\ Permitted' = Permitted /\ Granted' = Granted /\ (mode = "kill")' = (mode = "kill")
      /\ (stage = "run")' = (stage = "run")
  BY <1>1, GrantsKept, Zenon
<1>5. CASE Denied(t, site, nr, caller)
  <2>1. t \in Child /\ tracked
    BY <1>5, Zenon DEF Denied, Judged
  <2>2. \A u \in Child : Denied(u, site, nr, caller)
    BY <1>5, <2>1, Zenon DEF Denied, Judged
  <2>3. Granted # Calls
    <3>1. c \notin Granted
      BY <1>1, <1>3, <2>2, Zenon DEF Granted
    <3> QED BY <1>3, <3>1, Zenon
  <2>4. thread' = [thread EXCEPT ![t] = "denied"] /\ doomed' = (doomed \/ mode = "kill")
    BY <1>2, <1>5, Zenon DEF DenyAction
  <2>5. status' = [status EXCEPT ![t] = "denied"] /\ status[t] = "user"
    BY <1>1, <2>1, <2>4, StatusMoves, Zenon
  <2>6. Abstract!Deny(t)
    BY <1>4, <2>1, <2>3, <2>4, <2>5, Zenon DEF Abstract!Deny, Abstract!Move
  <2> QED BY <2>1, <2>6, Zenon DEF Abstract!Next
<1>6. CASE ~Denied(t, site, nr, caller)
  <2>1. thread' = [thread EXCEPT ![t] = "allowed"] /\ doomed' = doomed
    BY <1>2, <1>6, Zenon
  <2>2. CASE t \in Child
    <3>1. Granted # {}
      BY <1>1, <1>3, <1>6, <2>2, Zenon DEF Granted
    <3>2. status' = [status EXCEPT ![t] = "allowed"] /\ status[t] = "user"
      BY <1>1, <2>1, <2>2, StatusMoves, Zenon
    <3>3. Abstract!Allow(t)
      BY <1>4, <2>1, <3>1, <3>2, Zenon DEF Abstract!Allow, Abstract!Move
    <3> QED BY <2>2, <3>3, Zenon DEF Abstract!Next
  <2>3. CASE t \notin Child
    <3>1. status' = status
      BY <1>1, <2>1, <2>3, StatusMoves, Zenon
    <3> QED BY <1>4, <2>1, <3>1 DEF Abstract!vars
  <2> QED BY <2>2, <2>3, Zenon
<1> QED BY <1>5, <1>6, Zenon

\* The other steps of threads: returning, dying, starting a thread or process.
LEMMA ThreadRefines ==
  ASSUME MonitorInv, NEW t \in Threads,
         Return(t) \/ Interrupt(t) \/ Exit(t) \/ \E u \in Threads : Spawn(u, t)
  PROVE  Abstract!Next \/ UNCHANGED Abstract!vars
<1> DEFINE status == [c \in Child |-> thread[c]]
<1>1. /\ UNCHANGED <<stage, layout, mode, install, tracked>> /\ doomed' = doomed /\ KillInv
  BY Zenon DEF Return, Interrupt, Exit, Spawn, MonitorInv
<1>2. /\ Permitted' = Permitted /\ Granted' = Granted /\ (mode = "kill")' = (mode = "kill")
      /\ (stage = "run")' = (stage = "run")
  BY <1>1, GrantsKept, Zenon
<1>3. PICK s : thread' = [thread EXCEPT ![t] = s]
  BY Zenon DEF Return, Interrupt, Exit, Spawn
<1>4. CASE t \notin Child
  <2>1. status' = status
    BY <1>1, <1>3, <1>4, StatusMoves
  <2> QED BY <1>1, <1>2, <2>1 DEF Abstract!vars
<1>5. CASE t \in Child
  <2>1. status[t] = thread[t] /\ \A x : thread' = [thread EXCEPT ![t] = x] =>
                                         status' = [status EXCEPT ![t] = x]
    BY <1>1, <1>5, StatusMoves, Zenon
  <2>2. CASE thread' = [thread EXCEPT ![t] = "dead"] /\ thread[t] # "absent"
    <3>1. status' = [status EXCEPT ![t] = "dead"] /\ status[t] # "absent"
      BY <2>1, <2>2, Zenon
    <3>2. Abstract!Die(t)
      BY <1>1, <1>2, <3>1, Zenon DEF Abstract!Die, Abstract!Move
    <3> QED BY <1>5, <3>2, Zenon DEF Abstract!Next
  <2>3. CASE Return(t) /\ ~doomed
    <3>1. /\ thread' = [thread EXCEPT ![t] = "user"]
          /\ thread[t] = "allowed" \/ thread[t] = "denied"
      BY <2>3, Zenon DEF Return
    <3>2. status' = [status EXCEPT ![t] = "user"] /\ (status[t] = "allowed" \/ status[t] = "denied")
      BY <2>1, <3>1, Zenon
    <3>3. Abstract!Resume(t)
      BY <1>1, <1>2, <2>3, <3>2, Zenon DEF Abstract!Resume, Abstract!Move
    <3> QED BY <1>5, <3>3, Zenon DEF Abstract!Next
  <2>4. ASSUME NEW u \in Threads, Spawn(u, t) PROVE Abstract!Next
    <3>1. /\ thread' = [thread EXCEPT ![t] = "user"] /\ thread[t] = "absent" /\ ~doomed
          /\ u \in Child /\ thread[u] = "user"
      BY <2>4, Zenon DEF Spawn
    <3>2. /\ status' = [status EXCEPT ![t] = "user"] /\ status[t] = "absent"
          /\ status[u] = "user"
      BY <2>1, <3>1, Zenon
    <3>3. Abstract!Spawn(t)
      BY <1>1, <1>2, <3>1, <3>2, Zenon DEF Abstract!Spawn, Abstract!Move
    <3> QED BY <1>5, <3>3, Zenon DEF Abstract!Next
  <2>5. Interrupt(t) \/ Exit(t) => thread' = [thread EXCEPT ![t] = "dead"] /\ thread[t] # "absent"
    BY Zenon DEF Interrupt, Exit
  <2>6. Return(t) /\ doomed => thread' = [thread EXCEPT ![t] = "dead"] /\ thread[t] # "absent"
    BY <1>5, Zenon DEF Return
  <2> QED BY <2>2, <2>3, <2>4, <2>5, <2>6, Zenon
<1> QED BY <1>4, <1>5, Zenon

\* Installation is invisible until enrolment launches the child.
LEMMA InstallRefines ==
  ASSUME MonitorInv, MonitorInv', GrantsSound', Install
  PROVE  Abstract!Next \/ UNCHANGED Abstract!vars
<1> DEFINE status == [c \in Child |-> thread[c]]
<1>1. layout' = layout /\ mode' = mode /\ doomed' = doomed /\ stage # "run"
  BY Zenon DEF Install, PopulateMain, PopulateLibc, RegisterMain, RegisterLibc, RegisterLib,
     SetupCfi, Track, run
<1>2. \A site, nr, caller : Intended(site, nr, caller)' = Intended(site, nr, caller)
  BY <1>1, IntendedKept
<1>3. Permitted' = Permitted /\ Granted = {}
  BY <1>1, <1>2, Zenon DEF Permitted, Granted
<1>4. CASE Track
  <2>1. stage' = "run"
    BY <1>4, Zenon DEF Track
  <2>2. Granted' \subseteq Permitted'
    BY <2>1 DEF GrantsSound
  <2>3. PICK t \in Child : thread' = [thread EXCEPT ![t] = "user"]
    BY <1>4, Zenon DEF Track
  <2>4. status' = [status EXCEPT ![t] = "user"]
    BY <2>3, StatusMoves, Zenon DEF MonitorInv, Threads
  <2>5. Abstract!Launch
    BY <1>1, <1>3, <2>1, <2>2, <2>4, Zenon DEF Abstract!Launch
  <2> QED BY <2>5, Zenon DEF Abstract!Next
<1>5. CASE ~Track
  <2>1. thread' = thread /\ stage' # "run"
    BY <1>5, Zenon DEF Install, PopulateMain, PopulateLibc, RegisterMain, RegisterLibc, RegisterLib,
       SetupCfi, run
  <2>2. Granted' = {}
    BY <2>1, Zenon DEF Granted
  <2> QED BY <1>1, <1>3, <2>1, <2>2 DEF Abstract!vars
<1> QED BY <1>4, <1>5

\* Every step of the enforcer is one of the monitor, or invisible to it.
LEMMA AbstractStep ==
  ASSUME MonitorInv, MonitorInv', GrantsSound', [Next]_vars
  PROVE  Abstract!Next \/ UNCHANGED Abstract!vars
<1>1. CASE Install
  BY <1>1, InstallRefines, Zenon
<1>2. ASSUME NEW t \in Threads, Syscall(t) \/ Kernel(t) \/ Exit(t)
      PROVE  Abstract!Next \/ UNCHANGED Abstract!vars
  BY <1>2, SyscallRefines, ThreadRefines, Zenon DEF Kernel
<1>3. ASSUME NEW t \in Threads, NEW u \in Threads, Spawn(t, u)
      PROVE  Abstract!Next \/ UNCHANGED Abstract!vars
  BY <1>3, ThreadRefines
<1>4. CASE TakeTerm \/ UNCHANGED vars
  <2>1. /\ UNCHANGED <<stage, layout, mode, install, tracked>> /\ thread' = thread
        /\ doomed' = doomed \/ (mode # "kill" /\ doomed' = TRUE)
    BY <1>4, Zenon DEF TakeTerm, vars, run, MonitorInv
  <2>2. /\ Permitted' = Permitted /\ Granted' = Granted /\ (mode = "kill")' = (mode = "kill")
        /\ (stage = "run")' = (stage = "run")
    BY <2>1, GrantsKept, Zenon
  <2>3. CASE doomed' = doomed
    BY <2>1, <2>2, <2>3, Zenon DEF Abstract!vars
  <2>4. CASE mode # "kill" /\ doomed' = TRUE
    <3>1. Abstract!Killed
      BY <2>1, <2>2, <2>4 DEF Abstract!Killed
    <3> QED BY <3>1, Zenon DEF Abstract!Next
  <2> QED BY <2>1, <2>3, <2>4, Zenon
<1> QED BY <1>1, <1>2, <1>3, <1>4, Zenon DEF Next

\* The abstract monitor is implemented as soon as the maps are fail-closed.
LEMMA MonitorFrom == Spec /\ []OnlyIntendedAllowed => MonitorSpec
<1>1. Init => Abstract!Init
  <2> SUFFICES ASSUME Init PROVE Abstract!Init
    OBVIOUS
  <2>1. /\ Permitted \subseteq Calls /\ Granted = {} /\ (stage = "run") = FALSE
        /\ (mode = "kill") \in BOOLEAN
    BY Zenon DEF Permitted, Granted, Init
  <2>2. [c \in Child |-> thread[c]] = [c \in Child |-> "absent"] /\ doomed = FALSE
    BY DEF Init, Threads
  <2> QED BY <2>1, <2>2, Zenon DEF Abstract!Init
<1>2. MonitorInv /\ MonitorInv' /\ GrantsSound' /\ [Next]_vars
        => [Abstract!Next]_(Abstract!vars)
  BY AbstractStep
<1>3. MonitorInv /\ [Next]_vars => MonitorInv'
  BY MonitorStep
<1>4. MonitorInv /\ OnlyIntendedAllowed => GrantsSound
  BY GrantedPermitted DEF GrantsSound
<1> QED BY <1>1, <1>2, <1>3, <1>4, MonitorInit, PTL DEF Spec, MonitorSpec, Abstract!Spec

=============================================================================
