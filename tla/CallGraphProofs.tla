-------------------------- MODULE CallGraphProofs --------------------------
(***************************************************************************)
(* The search of the call graph visits nothing that the seeds do not reach *)
(* and, unless it runs out of room, everything they do; the symbol search, *)
(* the depth limit and the whitelist are exact: for every file, every list *)
(* of imports and every limit.                                             *)
(***************************************************************************)
EXTENDS CallGraph, FileProofs

\* One time limit for the SMT solver on every leaf.
USE SMTT(30)

Phases == {"symtab", "seed", "loop", "scan", "bind", "done"}

\* The queue lists the visited functions; before the symbol table is built
\* both are empty.
QueueInv ==
  /\ phase \in Phases
  /\ queue \in Seq(visited)
  /\ \A f \in visited : \E k \in 1..Len(queue) : queue[k] = f
  /\ head \in 0..Len(queue)
  /\ phase \in {"symtab", "seed"} => head = 0
  /\ phase = "scan" => head \in 1..Len(queue) /\ pending \subseteq DOMAIN callees(queue[head])
  /\ phase = "seed" => unseeded \subseteq DOMAIN candidates
  /\ phase = "symtab" => visited = {}

\* Enqueue keeps the queue a list of the visited functions, moves no entry, and
\* takes f unless f is NULL, visited already, or the queue is full.
LEMMA EnqueueQueue ==
  ASSUME NEW f, queue \in Seq(visited), Enqueue(f),
         \A g \in visited : \E k \in 1..Len(queue) : queue[k] = g
  PROVE  /\ queue' \in Seq(visited')
         /\ \A g \in visited' : \E k \in 1..Len(queue') : queue'[k] = g
         /\ Len(queue) \in Nat /\ Len(queue') \in Nat /\ Len(queue) <= Len(queue')
         /\ \A k \in 1..Len(queue) : queue'[k] = queue[k]
         /\ visited' \subseteq visited \cup {f} /\ visited \subseteq visited'
         /\ f \in visited' \cup {0} \/ Len(queue) >= MaxReachable
<1>1. CASE UNCHANGED <<visited, queue>> /\ (f \in visited \cup {0} \/ Len(queue) >= MaxReachable)
  BY <1>1
<1>2. CASE visited' = visited \cup {f} /\ queue' = Append(queue, f)
  <2>1. queue \in Seq(visited \cup {f})
    OBVIOUS
  <2>2. queue' \in Seq(visited') /\ Len(queue') = Len(queue) + 1 /\ Len(queue) \in Nat
    BY <1>2, <2>1
  <2>3. /\ \A k \in 1..Len(queue) : queue'[k] = queue[k]
        /\ queue'[Len(queue) + 1] = f
    BY <1>2, <2>1
  <2>4. \A g \in visited' : \E k \in 1..Len(queue') : queue'[k] = g
    BY <1>2, <2>2, <2>3
  <2> QED BY <1>2, <2>2, <2>3, <2>4
<1>3. Len(queue) \in Nat /\ MaxReachable \in Nat
  BY CallGraphAssumption
<1>4. \/ UNCHANGED <<visited, queue>> /\ (f \in visited \cup {0} \/ Len(queue) >= MaxReachable)
      \/ visited' = visited \cup {f} /\ queue' = Append(queue, f)
  BY <1>3 DEF Enqueue
<1> QED BY <1>1, <1>2, <1>4

\* The search starts with an empty queue.
LEMMA QueueInit == Init => QueueInv
BY DEF Init, QueueInv, Phases

\* Every step keeps the queue and visited in agreement.
LEMMA QueueStep == QueueInv /\ [Next]_vars => QueueInv'
<1> SUFFICES ASSUME QueueInv, [Next]_vars PROVE QueueInv'
  OBVIOUS
<1>1. CASE BuildSymtab
  <2>1. unseeded' \subseteq DOMAIN candidates'
    BY <1>1, Zenon DEF BuildSymtab, candidates, input
  <2>2. /\ queue' = queue /\ visited' = visited /\ head' = head /\ visited = {}
        /\ phase' \in {"done", "seed"} /\ head = 0
    BY <1>1 DEF BuildSymtab, QueueInv
  <2> QED BY <2>1, <2>2 DEF QueueInv, Phases
<1>2. CASE Seed
  <2>1. PICK i \in unseeded : Enqueue(candidates[i]) /\ unseeded' = unseeded \ {i}
    BY <1>2 DEF Seed
  <2>2. PICK f : f = candidates[i]
    OBVIOUS
  <2>3. /\ phase = "seed" /\ phase' = phase /\ head' = head
        /\ elf' = elf /\ imports' = imports /\ syms' = syms
    BY <1>2 DEF Seed, input
  <2>4. candidates' = candidates
    BY <2>3, Zenon DEF candidates
  <2>5. /\ queue' \in Seq(visited')
        /\ \A g \in visited' : \E k \in 1..Len(queue') : queue'[k] = g
        /\ Len(queue) \in Nat /\ Len(queue') \in Nat /\ Len(queue) <= Len(queue')
    BY <2>1, <2>2, EnqueueQueue DEF QueueInv
  <2> QED BY <2>1, <2>3, <2>4, <2>5 DEF QueueInv, Phases
<1>3. CASE StartSearch
  BY <1>3, Zenon DEF StartSearch, QueueInv, Phases
<1>4. CASE Take
  <2>1. /\ phase' = "scan" /\ head' = head + 1 /\ queue' = queue /\ visited' = visited
        /\ elf' = elf /\ syms' = syms /\ pending' = DOMAIN callees(queue[head + 1])
        /\ head < Len(queue)
    BY <1>4 DEF Take, MoreWork, input
  <2>2. pending' = DOMAIN callees(queue[head])'
    BY <2>1 DEF callees
  <2> QED BY <2>1, <2>2 DEF QueueInv, Phases
<1>5. CASE Follow
  <2>1. PICK i \in pending : Enqueue(callees(queue[head])[i]) /\ pending' = pending \ {i}
    BY <1>5 DEF Follow
  <2>2. PICK f : f = callees(queue[head])[i]
    OBVIOUS
  <2>3. /\ phase = "scan" /\ phase' = phase /\ head' = head
        /\ elf' = elf /\ imports' = imports /\ syms' = syms
    BY <1>5 DEF Follow, input
  <2>4. /\ queue' \in Seq(visited')
        /\ \A g \in visited' : \E k \in 1..Len(queue') : queue'[k] = g
        /\ Len(queue) \in Nat /\ Len(queue') \in Nat /\ Len(queue) <= Len(queue')
        /\ \A k \in 1..Len(queue) : queue'[k] = queue[k]
    BY <2>1, <2>2, EnqueueQueue, Zenon DEF QueueInv
  <2>5. callees(queue[head])' = callees(queue[head])
    BY <2>3, <2>4 DEF callees, QueueInv
  <2>6. head' \in 1..Len(queue') /\ head' \in 0..Len(queue')
    BY <2>3, <2>4 DEF QueueInv
  <2>7. pending \subseteq DOMAIN callees(queue[head])
    BY <2>3 DEF QueueInv
  <2>8. pending' \subseteq DOMAIN callees(queue[head])'
    BY <2>1, <2>5, <2>7, Zenon
  <2> QED BY <2>3, <2>4, <2>6, <2>8, Zenon DEF QueueInv, Phases
<1>6. CASE Scanned
  BY <1>6 DEF Scanned, QueueInv, Phases, search
<1>7. CASE Collect
  BY <1>7, Zenon DEF Collect, QueueInv, Phases, search
<1>8. CASE Bind
  BY <1>8 DEF Bind, QueueInv, Phases, search
<1>9. CASE UNCHANGED vars
  BY <1>9, Zenon DEF vars, input, search, QueueInv, callees, candidates
<1> QED BY <1>1, <1>2, <1>3, <1>4, <1>5, <1>6, <1>7, <1>8, <1>9, Zenon DEF Next

-----------------------------------------------------------------------------

\* Enqueued functions are seeds or callees of a visited function.
LEMMA ReachStep == QueueInv /\ OnlyReachable /\ [Next]_vars => OnlyReachable'
<1> SUFFICES ASSUME QueueInv, OnlyReachable, [Next]_vars,
                    NEW R \in SUBSET DOMAIN syms', Closed(R)', Seeds' \subseteq R
             PROVE  visited' \subseteq R
  BY DEF OnlyReachable
<1>1. CASE BuildSymtab
  BY <1>1 DEF BuildSymtab, QueueInv
<1>2. ASSUME elf' = elf, imports' = imports, syms' = syms
      PROVE  visited \subseteq R /\ Closed(R) /\ Seeds \subseteq R
  <2>1. Closed(R) /\ Seeds \subseteq R
    BY <1>2 DEF Closed, Seeds, callees, candidates
  <2> QED BY <1>2, <2>1, Zenon DEF OnlyReachable
<1>3. CASE Seed
  <2>1. PICK i \in unseeded : Enqueue(candidates[i])
    BY <1>3 DEF Seed
  <2>2. PICK f : f = candidates[i]
    OBVIOUS
  <2>3. phase = "seed" /\ elf' = elf /\ imports' = imports /\ syms' = syms
    BY <1>3 DEF Seed, input
  <2>4. f \in R \cup {0}
    <3>1. i \in DOMAIN candidates
      BY <2>1, <2>3, Zenon DEF QueueInv
    <3>2. candidates[i] \in Seeds \cup {0}
      BY <3>1, Zenon DEF Seeds
    <3> QED BY <1>2, <2>2, <2>3, <3>2, Zenon
  <2> QED BY <1>2, <2>1, <2>2, <2>3, <2>4 DEF Enqueue
<1>4. CASE Follow
  <2>1. PICK i \in pending : Enqueue(callees(queue[head])[i])
    BY <1>4 DEF Follow
  <2>2. PICK f : f = callees(queue[head])[i]
    OBVIOUS
  <2>3. phase = "scan" /\ elf' = elf /\ imports' = imports /\ syms' = syms
    BY <1>4 DEF Follow, input
  <2>4. queue[head] \in visited /\ i \in DOMAIN callees(queue[head])
    BY <2>3 DEF QueueInv
  <2>5. f \in R \cup {0}
    BY <1>2, <2>2, <2>3, <2>4, Zenon DEF Closed
  <2> QED BY <1>2, <2>1, <2>2, <2>3, <2>5, Zenon DEF Enqueue
<1>5. CASE StartSearch \/ Take \/ Scanned \/ Collect \/ Bind \/ UNCHANGED vars
  <2>1. elf' = elf /\ imports' = imports /\ syms' = syms /\ visited' = visited
    BY <1>5, Zenon DEF StartSearch, Take, Scanned, Collect, Bind, vars, input, search
  <2> QED BY <1>2, <2>1, Zenon
<1> QED BY <1>1, <1>3, <1>4, <1>5, Zenon DEF Next

\* The search visits no function that the seeds do not reach through calls:
\* OnlyReachable of trace_libc_callgraph, for every file and every limit.
THEOREM ReachableOnly == Spec => []OnlyReachable
<1>1. Init => OnlyReachable
  BY Zenon DEF Init, OnlyReachable
<1> QED BY <1>1, QueueInit, QueueStep, ReachStep, PTL DEF Spec

-----------------------------------------------------------------------------

\* Tried(f): the queue took f, or had no room for it.
Tried(f) == f \in visited \cup {0} \/ Full

\* Every call of a function taken from the queue has been tried, but for the
\* pending ones of the function being scanned; so has every seed, but for the
\* unseeded ones.
ScanInv ==
  \A k \in 1..head : \A i \in DOMAIN callees(queue[k]) :
    \/ phase = "scan" /\ k = head /\ i \in pending
    \/ Tried(callees(queue[k])[i])

SeedInv ==
  phase \in {"seed", "loop", "scan", "bind"} =>
    \A i \in DOMAIN candidates :
      \/ phase = "seed" /\ i \in unseeded
      \/ Tried(candidates[i])

\* A function that was tried stays tried when another one is enqueued.
LEMMA TriedStays ==
  ASSUME NEW f, NEW g, queue \in Seq(visited), Enqueue(f), Tried(g)
  PROVE  Tried(g)'
<1>1. Len(queue) \in Nat /\ MaxReachable \in Nat
  BY CallGraphAssumption
<1>2. CASE UNCHANGED <<visited, queue>>
  BY <1>2 DEF Tried, Full
<1>3. CASE visited' = visited \cup {f} /\ Len(queue') = Len(queue) + 1
  BY <1>1, <1>3 DEF Tried, Full
<1> QED BY <1>2, <1>3 DEF Enqueue

\* The scan of a function leaves none of its calls untried.
LEMMA ScanStep == QueueInv /\ ScanInv /\ [Next]_vars => ScanInv'
<1> SUFFICES ASSUME QueueInv, ScanInv, [Next]_vars,
                    NEW k \in 1..head', NEW i \in DOMAIN callees(queue[k])'
             PROVE  \/ phase' = "scan" /\ k = head' /\ i \in pending'
                    \/ Tried(callees(queue[k])[i])'
  BY Zenon DEF ScanInv
<1>1. CASE BuildSymtab
  BY <1>1 DEF BuildSymtab, QueueInv
<1>2. CASE Seed
  BY <1>2 DEF Seed, QueueInv
<1>3. CASE StartSearch
  BY <1>3 DEF StartSearch, QueueInv
<1>4. CASE Take
  <2>1. /\ phase = "loop" /\ phase' = "scan" /\ head' = head + 1 /\ queue' = queue
        /\ visited' = visited /\ elf' = elf /\ syms' = syms
        /\ pending' = DOMAIN callees(queue[head + 1]) /\ head \in Nat
    BY <1>4 DEF Take, MoreWork, input, QueueInv
  <2>2. CASE k = head'
    BY <2>1, <2>2, Zenon DEF callees
  <2>3. CASE k # head'
    <3>1. k \in 1..head
      BY <2>1, <2>3
    <3>2. PICK g : g = callees(queue[k])[i]
      OBVIOUS
    <3>3. Tried(g)
      BY <2>1, <3>1, <3>2, Zenon DEF ScanInv, callees
    <3> QED BY <2>1, <3>2, <3>3, Zenon DEF Tried, Full, callees
  <2> QED BY <2>2, <2>3, Zenon
<1>5. CASE Follow
  <2>1. PICK j \in pending : Enqueue(callees(queue[head])[j]) /\ pending' = pending \ {j}
    BY <1>5, Zenon DEF Follow
  <2>2. PICK f : f = callees(queue[head])[j]
    OBVIOUS
  <2>3. /\ phase = "scan" /\ phase' = phase /\ head' = head /\ head \in 1..Len(queue)
        /\ elf' = elf /\ syms' = syms
    BY <1>5, Zenon DEF Follow, input, QueueInv
  <2>4. queue'[k] = queue[k] /\ (f \in visited' \cup {0} \/ Len(queue) >= MaxReachable)
    <3>1. /\ \A n \in 1..Len(queue) : queue'[n] = queue[n]
          /\ f \in visited' \cup {0} \/ Len(queue) >= MaxReachable
      BY <2>1, <2>2, EnqueueQueue, Zenon DEF QueueInv
    <3>2. k \in 1..Len(queue)
      BY <2>3 DEF QueueInv
    <3> QED BY <3>1, <3>2
  <2>5. callees(queue[k])' = callees(queue[k])
    BY <2>3, <2>4, Zenon DEF callees
  <2>6. PICK g : g = callees(queue[k])[i]
    OBVIOUS
  <2>7. CASE k = head /\ i = j
    <3>1. Len(queue) \in Nat /\ Len(queue') \in Nat /\ Len(queue) <= Len(queue')
      BY <2>1, <2>2, EnqueueQueue, Zenon DEF QueueInv
    <3>2. Tried(f)'
      BY <2>4, <3>1, CallGraphAssumption DEF Tried, Full
    <3> QED BY <2>2, <2>5, <2>7, <3>2, Zenon DEF Tried
  <2>8. CASE k = head /\ i \in pending /\ i # j
    BY <2>1, <2>3, <2>8, Zenon
  <2>9. CASE ~(k = head /\ i \in pending)
    <3>1. Tried(g)
      BY <2>3, <2>5, <2>6, <2>9 DEF ScanInv
    <3>2. Tried(g)'
      BY <2>1, <2>2, <3>1, TriedStays DEF QueueInv
    <3> QED BY <2>5, <2>6, <3>2, Zenon DEF Tried
  <2> QED BY <2>7, <2>8, <2>9
<1>6. CASE Scanned \/ Collect \/ Bind \/ UNCHANGED vars
  <2>1. /\ elf' = elf /\ syms' = syms /\ visited' = visited /\ queue' = queue
        /\ head' = head /\ pending' = pending
        /\ phase' = phase \/ phase # "scan" \/ pending = {}
    BY <1>6, Zenon DEF Scanned, Collect, Bind, vars, input, search
  <2>2. PICK g : g = callees(queue[k])[i]
    OBVIOUS
  <2>3. \/ phase = "scan" /\ k = head /\ i \in pending
        \/ Tried(g)
    BY <2>1, <2>2 DEF ScanInv, callees
  <2>4. Tried(g) => Tried(g)'
    BY <2>1, Zenon DEF Tried, Full
  <2>5. callees(queue[k])' = callees(queue[k])
    BY <2>1 DEF callees
  <2> QED BY <2>1, <2>2, <2>3, <2>4, <2>5, Zenon DEF Tried
<1> QED BY <1>1, <1>2, <1>3, <1>4, <1>5, <1>6, Zenon DEF Next

\* The seeding loops leave no candidate untried.
LEMMA SeedStep == QueueInv /\ SeedInv /\ [Next]_vars => SeedInv'
<1> SUFFICES ASSUME QueueInv, SeedInv, [Next]_vars,
                    phase' \in {"seed", "loop", "scan", "bind"},
                    NEW i \in DOMAIN candidates'
             PROVE  \/ phase' = "seed" /\ i \in unseeded'
                    \/ Tried(candidates[i])'
  BY DEF SeedInv
<1>1. CASE BuildSymtab
  <2>1. phase' = "seed"
    BY <1>1, Zenon DEF BuildSymtab
  <2>2. unseeded' = {j \in DOMAIN candidates' : candidates'[j] # 0}
    BY <1>1, Zenon DEF BuildSymtab, candidates, input
  <2>3. PICK g : g = candidates'[i]
    BY Zenon
  <2>4. g = 0 => Tried(g)'
    BY Zenon DEF Tried
  <2>5. Tried(g)' => Tried(candidates[i])'
    BY <2>3, Zenon DEF Tried
  <2> QED BY <2>1, <2>2, <2>3, <2>4, <2>5, Zenon
<1>2. ASSUME elf' = elf, imports' = imports, syms' = syms
      PROVE  candidates' = candidates
  BY <1>2 DEF candidates
<1>3. CASE Seed \/ Follow
  <2>1. /\ elf' = elf /\ imports' = imports /\ syms' = syms /\ phase' = phase
    BY <1>3 DEF Seed, Follow, input
  <2>2. PICK g : g = candidates[i]
    BY Zenon
  <2>3. PICK f : /\ Enqueue(f)
                 /\ phase = "seed" => \/ unseeded' = unseeded
                                      \/ \E j \in unseeded : f = candidates[j] /\ unseeded' = unseeded \ {j}
    <3>1. CASE Seed
      BY <3>1 DEF Seed
    <3>2. CASE Follow
      BY <3>2 DEF Follow
    <3> QED BY <1>3, <3>1, <3>2, Zenon
  <2>4. CASE Tried(g)
    BY <1>2, <2>1, <2>2, <2>3, <2>4, TriedStays, Zenon DEF QueueInv, Tried
  <2>5. CASE phase = "seed" /\ i \in unseeded /\ i \notin unseeded'
    <3>1. f = g
      BY <2>2, <2>3, <2>5, Zenon
    <3>2. /\ Len(queue) \in Nat /\ Len(queue') \in Nat /\ Len(queue) <= Len(queue')
          /\ f \in visited' \cup {0} \/ Len(queue) >= MaxReachable
      BY <2>3, EnqueueQueue, Zenon DEF QueueInv
    <3>3. Tried(f)'
      BY <3>2, CallGraphAssumption DEF Tried, Full
    <3> QED BY <1>2, <2>1, <2>2, <3>1, <3>3 DEF Tried
  <2> QED BY <1>2, <2>1, <2>2, <2>4, <2>5 DEF SeedInv
<1>4. CASE StartSearch \/ Take \/ Scanned \/ Collect \/ Bind \/ UNCHANGED vars
  <2>1. /\ elf' = elf /\ imports' = imports /\ syms' = syms /\ visited' = visited
        /\ queue' = queue /\ unseeded' = unseeded
        /\ phase \in {"seed", "loop", "scan", "bind"}
        /\ phase' = phase \/ phase # "seed" \/ unseeded = {}
    BY <1>4, Zenon DEF StartSearch, Take, Scanned, Collect, Bind, vars, input, search
  <2>2. PICK g : g = candidates[i]
    OBVIOUS
  <2>3. \/ phase = "seed" /\ i \in unseeded
        \/ Tried(g)
    BY <1>2, <2>1, <2>2 DEF SeedInv
  <2>4. Tried(g) => Tried(g)'
    BY <2>1, Zenon DEF Tried, Full
  <2> QED BY <1>2, <2>1, <2>2, <2>3, <2>4 DEF Tried
<1> QED BY <1>1, <1>3, <1>4 DEF Next

\* A search that ends with an empty queue and room to spare has visited the
\* seeds and everything they call: CompleteSearch of trace_libc_callgraph.
THEOREM SearchComplete == Spec => []CompleteSearch
<1>1. Init => ScanInv /\ SeedInv
  BY DEF Init, ScanInv, SeedInv
<1>2. QueueInv /\ ScanInv /\ SeedInv => CompleteSearch
  <2> SUFFICES ASSUME QueueInv, ScanInv, SeedInv, phase = "bind", head = Len(queue), ~Full
               PROVE  Closed(visited) /\ Seeds \subseteq visited
    BY Zenon DEF CompleteSearch
  <2>1. ASSUME NEW f \in visited, NEW i \in DOMAIN callees(f)
        PROVE  callees(f)[i] \in visited \cup {0}
    <3>1. PICK k \in 1..head : queue[k] = f
      BY DEF QueueInv
    <3> QED BY <2>1, <3>1 DEF ScanInv, Tried
  <2>2. Seeds \subseteq visited
    <3>1. \A i \in DOMAIN candidates : candidates[i] \in visited \cup {0}
      BY Zenon DEF SeedInv, Tried
    <3> QED BY <3>1, Zenon DEF Seeds
  <2> QED BY <2>1, <2>2 DEF Closed
<1> QED BY <1>1, <1>2, QueueInit, QueueStep, ScanStep, SeedStep, PTL DEF Spec

-----------------------------------------------------------------------------
(* find_sym_at_addr.                                                       *)

Ranges(t) == (0..Len(t)) \X (-1..(Len(t) - 1))

\* A turn looks at ranges that are shorter than its own.
LEMMA TurnShrinks ==
  ASSUME NEW t, Len(t) \in Nat, NEW a, NEW p \in Ranges(t), NEW f, NEW g,
         \A q \in Ranges(t) : q[2] - q[1] < p[2] - p[1] => f[q] = g[q]
  PROVE  Turn(t, a, f, p) = Turn(t, a, g, p)
<1> DEFINE mid == (p[1] + p[2]) \div 2
           l   == <<p[1], mid - 1>>
           r   == <<mid + 1, p[2]>>
<1>1. CASE p[1] > p[2]
  BY <1>1, Zenon DEF Turn
<1>2. CASE ~(p[1] > p[2])
  <2>1. PICK n \in Nat : n = Len(t)
    BY Zenon
  <2>2. PICK x \in 0..n, y \in -1..(n - 1) : p = <<x, y>> /\ p[1] = x /\ p[2] = y
    BY <2>1 DEF Ranges
  <2>3. PICK m \in Int : m = mid
    BY <2>2
  <2>4. x <= m /\ m <= y
    BY <1>2, <2>2, <2>3
  <2>5. l \in Ranges(t) /\ r \in Ranges(t)
    <3>1. x \in 0..n /\ m - 1 \in -1..(n - 1) /\ m + 1 \in 0..n
      BY <2>2, <2>4
    <3> QED BY <2>1, <2>2, <2>3, <3>1, Zenon DEF Ranges
  <2>6. l[2] - l[1] < p[2] - p[1] /\ r[2] - r[1] < p[2] - p[1]
    <3>1. (m - 1) - x < y - x /\ y - (m + 1) < y - x
      BY <2>2, <2>4
    <3>2. l[1] = x /\ l[2] = m - 1 /\ r[1] = m + 1 /\ r[2] = y
      BY <2>2, <2>3
    <3> QED BY <2>2, <3>1, <3>2, Zenon
  <2>7. f[l] = g[l] /\ f[r] = g[r]
    BY <2>5, <2>6, Zenon
  <2> HIDE DEF l, r
  <2>8. l = <<p[1], mid - 1>> /\ r = <<mid + 1, p[2]>>
    BY Zenon DEF l, r
  <2> QED BY <1>2, <2>7, <2>8 DEF Turn
<1> QED BY <1>1, <1>2

\* The loop ends: its turns define a result for every range.
LEMMA SearchDefined ==
  ASSUME NEW t, Len(t) \in Nat, NEW a
  PROVE  \E find : find = [p \in Ranges(t) |-> Turn(t, a, find, p)]
<1> DEFINE Short(k) == {p \in Ranges(t) : p[2] - p[1] < k}
           Defined(k) == \E find : find = [p \in Short(k) |-> Turn(t, a, find, p)]
           Bad == {k \in Nat : ~Defined(k)}
<1>1. \A p \in Ranges(t) : p[1] \in Int /\ p[2] \in Int /\ p[2] - p[1] < Len(t)
  <2>1. PICK n \in Nat : n = Len(t)
    BY Zenon
  <2> QED BY <2>1 DEF Ranges
<1>2. Defined(0)
  <2> DEFINE f == [p \in Short(0) |-> 0]
  <2>1. ASSUME NEW p \in Short(0) PROVE Turn(t, a, f, p) = 0
    <3>1. p[1] > p[2]
      BY <1>1
    <3> QED BY <3>1, Zenon DEF Turn
  <2>2. f = [p \in Short(0) |-> Turn(t, a, f, p)]
    BY <2>1, Zenon
  <2> HIDE DEF f
  <2> QED BY <2>2, Zenon
<1>3. ASSUME NEW k \in Nat, Defined(k) PROVE Defined(k + 1)
  <2>1. PICK f : f = [p \in Short(k) |-> Turn(t, a, f, p)]
    BY <1>3, Zenon
  <2> DEFINE g == [p \in Short(k + 1) |-> Turn(t, a, f, p)]
  <2>2. \A p \in Short(k) : p \in Short(k + 1)
    BY <1>1
  <2>3. ASSUME NEW q \in Short(k) PROVE g[q] = f[q]
    <3>1. g[q] = Turn(t, a, f, q)
      BY <2>2, Zenon
    <3>2. f[q] = Turn(t, a, f, q)
      BY <2>1, Zenon
    <3> QED BY <3>1, <3>2, Zenon
  <2> HIDE DEF g
  <2>4. ASSUME NEW p \in Short(k + 1) PROVE Turn(t, a, f, p) = Turn(t, a, g, p)
    <3>1. ASSUME NEW q \in Ranges(t), q[2] - q[1] < p[2] - p[1] PROVE f[q] = g[q]
      <4>1. q \in Short(k)
        BY <1>1, <3>1
      <4> QED BY <2>3, <4>1, Zenon
    <3> QED BY <3>1, TurnShrinks, Zenon
  <2>5. g = [p \in Short(k + 1) |-> Turn(t, a, g, p)]
    BY <2>4, Zenon DEF g
  <2> QED BY <2>5, Zenon
<1> HIDE DEF Defined
<1>4. Bad = {}
  <2> SUFFICES ASSUME Bad # {} PROVE FALSE
    BY Zenon
  <2>1. PICK k \in Bad : \A j \in Bad : k <= j
    <3>1. Bad \in SUBSET Nat
      BY Zenon
    <3> HIDE DEF Bad
    <3> QED BY <3>1, LeastNat, Zenon
  <2>2. k \in Nat /\ ~Defined(k)
    BY <2>1, Zenon
  <2>3. k # 0
    BY <1>2, <2>2, Zenon
  <2>4. k - 1 \in Nat /\ ~(k <= k - 1) /\ (k - 1) + 1 = k
    BY <2>2, <2>3
  <2>5. Defined(k - 1)
    BY <2>1, <2>4, Zenon
  <2> QED BY <1>3, <2>2, <2>4, <2>5, Zenon
<1>5. Defined(Len(t))
  BY <1>4, Zenon
<1>6. Short(Len(t)) = Ranges(t)
  BY <1>1, Zenon
<1> QED BY <1>5, <1>6, Zenon DEF Defined

Rows(t) ==
  /\ Len(t) \in Nat /\ DOMAIN t = 1..Len(t)
  /\ \A i \in 1..Len(t) : t[i].addr \in Nat /\ t[i].size \in Nat

Apart(t) == \A f, g \in DOMAIN t : f < g => t[f].addr + t[f].size <= t[g].addr

\* What the loop finds between two rows: a row that holds the address and, when
\* no two rows overlap, the row that does.
Exact(t, a, r, lo, hi) ==
  /\ r # 0 => r \in 1..Len(t) /\ Holds(t[r], a)
  /\ Apart(t) /\ r = 0 => \A g \in (lo + 1)..(hi + 1) : ~Holds(t[g], a)

\* A turn that goes on to the lower or to the upper half is right if that half
\* is.
LEMMA TurnExact ==
  ASSUME NEW t, Rows(t), NEW a \in Int, NEW lo \in 0..Len(t), NEW hi \in -1..(Len(t) - 1), NEW f,
         \A q \in Ranges(t) : q[2] - q[1] < hi - lo => Exact(t, a, f[q], q[1], q[2])
  PROVE  Exact(t, a, Turn(t, a, f, <<lo, hi>>), lo, hi)
<1> DEFINE mid == (lo + hi) \div 2
           r   == Turn(t, a, f, <<lo, hi>>)
<1>0. PICK n \in Nat : n = Len(t)
  BY Zenon DEF Rows
<1>1. CASE lo > hi
  <2>1. r = 0
    BY <1>1 DEF Turn
  <2>2. (lo + 1)..(hi + 1) = {}
    BY <1>0, <1>1
  <2> HIDE DEF r
  <2> QED BY <2>1, <2>2, Zenon DEF Exact, r
<1>2. CASE lo <= hi
  <2>1. PICK m \in Int : m = mid
    BY <1>0
  <2>2. lo <= m /\ m <= hi /\ m + 1 \in 1..n
    BY <1>0, <1>2, <2>1
  <2>3. PICK b \in Nat, s \in Nat : b = t[m + 1].addr /\ s = t[m + 1].size
    BY <1>0, <2>2, Zenon DEF Rows
  <2>4. r = CASE a < b -> f[<<lo, m - 1>>]
              [] a >= b + s -> f[<<m + 1, hi>>]
              [] OTHER -> m + 1
    <3>1. ~(lo > hi)
      BY <1>0, <1>2
    <3>2. <<lo, hi>>[1] = lo /\ <<lo, hi>>[2] = hi
      OBVIOUS
    <3> HIDE DEF mid
    <3>3. mid = (lo + hi) \div 2
      BY Zenon DEF mid
    <3> QED BY <2>1, <2>3, <3>1, <3>2, <3>3, Zenon DEF Turn
  <2>5. \A i \in 1..n : t[i].addr \in Nat /\ t[i].size \in Nat
    BY <1>0, Zenon DEF Rows
  <2>6. ASSUME Apart(t), NEW i \in 1..n, NEW j \in 1..n, i < j
        PROVE  t[i].addr + t[i].size <= t[j].addr
    BY <1>0, <2>6, Zenon DEF Apart, Rows
  <2> HIDE DEF r, mid
  <2>7. CASE a < b
    <3>1. r = f[<<lo, m - 1>>]
      BY <2>4, <2>7
    <3>2. Exact(t, a, f[<<lo, m - 1>>], lo, m - 1)
      <4>1. lo \in 0..n /\ m - 1 \in -1..(n - 1) /\ (m - 1) - lo < hi - lo
        BY <1>0, <2>2
      <4>2. <<lo, m - 1>> \in Ranges(t)
        BY <1>0, <4>1, Zenon DEF Ranges
      <4>3. <<lo, m - 1>>[1] = lo /\ <<lo, m - 1>>[2] = m - 1
        OBVIOUS
      <4>4. PICK q : q = <<lo, m - 1>>
        BY Zenon
      <4> QED BY <4>1, <4>2, <4>3, <4>4, Zenon
    <3>3. ASSUME Apart(t), NEW g \in (m + 1)..(hi + 1) PROVE ~Holds(t[g], a)
      <4>1. g \in 1..n /\ g \in Int /\ (g = m + 1 \/ m + 1 < g)
        BY <1>0, <2>2
      <4>2. g = m + 1 => t[g].addr = b
        BY <2>3, Zenon
      <4>3. m + 1 < g => b + s <= t[g].addr
        BY <2>2, <2>3, <2>6, <3>3, <4>1, Zenon
      <4>4. PICK c \in Nat : c = t[g].addr
        BY <2>5, <4>1, Zenon
      <4>5. ~(c <= a)
        BY <2>7, <4>1, <4>2, <4>3, <4>4
      <4> QED BY <4>4, <4>5, Zenon DEF Holds
    <3>4. ASSUME NEW g \in (lo + 1)..(hi + 1)
          PROVE  g \in (lo + 1)..((m - 1) + 1) \/ g \in (m + 1)..(hi + 1)
      BY <1>0, <2>2
    <3> QED BY <3>1, <3>2, <3>3, <3>4, Zenon DEF Exact, r
  <2>8. CASE ~(a < b) /\ a >= b + s
    <3>1. r = f[<<m + 1, hi>>]
      BY <2>4, <2>8
    <3>2. Exact(t, a, f[<<m + 1, hi>>], m + 1, hi)
      <4>1. m + 1 \in 0..n /\ hi \in -1..(n - 1) /\ hi - (m + 1) < hi - lo
        BY <1>0, <2>2
      <4>2. <<m + 1, hi>> \in Ranges(t)
        BY <1>0, <4>1, Zenon DEF Ranges
      <4>3. <<m + 1, hi>>[1] = m + 1 /\ <<m + 1, hi>>[2] = hi
        OBVIOUS
      <4>4. PICK q : q = <<m + 1, hi>>
        BY Zenon
      <4> QED BY <4>1, <4>2, <4>3, <4>4, Zenon
    <3>3. ASSUME Apart(t), NEW g \in (lo + 1)..(m + 1) PROVE ~Holds(t[g], a)
      <4>1. g \in 1..n /\ g \in Int /\ (g = m + 1 \/ g < m + 1)
        BY <1>0, <2>2
      <4>2. g = m + 1 => t[g].addr = b /\ t[g].size = s
        BY <2>3, Zenon
      <4>3. g < m + 1 => t[g].addr + t[g].size <= b
        BY <2>2, <2>3, <2>6, <3>3, <4>1, Zenon
      <4>4. PICK c \in Nat, d \in Nat : c = t[g].addr /\ d = t[g].size
        BY <2>5, <4>1, Zenon
      <4>5. (g = m + 1 => c = b /\ d = s) /\ (g < m + 1 => c + d <= b)
        BY <4>2, <4>3, <4>4, Zenon
      <4>6. ~(a < c + d)
        BY <2>8, <4>1, <4>5
      <4> QED BY <4>4, <4>6, Zenon DEF Holds
    <3>4. ASSUME NEW g \in (lo + 1)..(hi + 1)
          PROVE  g \in ((m + 1) + 1)..(hi + 1) \/ g \in (lo + 1)..(m + 1)
      BY <1>0, <2>2
    <3> QED BY <3>1, <3>2, <3>3, <3>4, Zenon DEF Exact, r
  <2>9. CASE ~(a < b) /\ ~(a >= b + s)
    <3>1. r = m + 1 /\ r # 0
      BY <2>2, <2>4, <2>9
    <3>2. b <= a /\ a < b + s
      BY <2>9
    <3> QED BY <1>0, <2>2, <2>3, <3>1, <3>2, Zenon DEF Exact, Holds, r
  <2> QED BY <2>7, <2>8, <2>9, Zenon DEF r
<1> QED BY <1>0, <1>1, <1>2

\* The loop as a whole.
LEMMA SearchFinds ==
  ASSUME NEW t, Rows(t), NEW a \in Int
  PROVE  Exact(t, a, BinarySearch(t, a), 0, Len(t) - 1)
<1>0. PICK n \in Nat : n = Len(t)
  BY Zenon DEF Rows
<1>1. PICK find : /\ find = [p \in Ranges(t) |-> Turn(t, a, find, p)]
                  /\ BinarySearch(t, a) = find[<<0, Len(t) - 1>>]
  <2>1. \E find : find = [p \in Ranges(t) |-> Turn(t, a, find, p)]
    BY <1>0, SearchDefined, Zenon
  <2> QED BY <2>1, Zenon DEF BinarySearch, Ranges
<1> DEFINE OK(p) == Exact(t, a, find[p], p[1], p[2])
           Bad == {k \in Nat : \E p \in Ranges(t) : p[2] - p[1] < k /\ ~OK(p)}
<1>2. ASSUME NEW p \in Ranges(t), \A q \in Ranges(t) : q[2] - q[1] < p[2] - p[1] => OK(q)
      PROVE  OK(p)
  <2>1. PICK lo \in 0..Len(t), hi \in -1..(Len(t) - 1) : p = <<lo, hi>> /\ p[1] = lo /\ p[2] = hi
    BY <1>0 DEF Ranges
  <2>2. find[p] = Turn(t, a, find, p)
    BY <1>1, Zenon
  <2>3. \A q \in Ranges(t) : q[2] - q[1] < hi - lo => Exact(t, a, find[q], q[1], q[2])
    BY <1>2, <2>1, Zenon
  <2> QED BY <2>1, <2>2, <2>3, TurnExact, Zenon
<1>3. \A p \in Ranges(t) : p[1] \in Int /\ p[2] \in Int /\ p[2] - p[1] \in Int
  BY <1>0 DEF Ranges
<1> HIDE DEF OK
<1>4. Bad = {}
  <2> SUFFICES ASSUME Bad # {} PROVE FALSE
    BY Zenon
  <2>1. PICK k \in Bad : \A j \in Bad : k <= j
    <3>1. Bad \in SUBSET Nat
      BY Zenon
    <3> HIDE DEF Bad
    <3> QED BY <3>1, LeastNat, Zenon
  <2>2. k \in Nat
    BY <2>1, Zenon
  <2>3. PICK p \in Ranges(t) : p[2] - p[1] < k /\ ~OK(p)
    BY <2>1, Zenon
  <2>4. ASSUME NEW q \in Ranges(t), q[2] - q[1] < p[2] - p[1] PROVE OK(q)
    <3>1. PICK x \in Int, y \in Int : x = q[2] - q[1] /\ y = p[2] - p[1]
      BY <1>3, Zenon
    <3>2. CASE y <= 0
      <4>1. q[2] - q[1] < 0 /\ q[1] > q[2]
        BY <1>3, <2>4, <3>1, <3>2
      <4>2. \A z \in Ranges(t) : z[2] - z[1] < q[2] - q[1] => z[1] \in Int
        BY <1>3, Zenon
      <4>3. OK(q)
        <5>1. find[q] = 0
          BY <1>1, <4>1, Zenon DEF Turn
        <5>2. (q[1] + 1)..(q[2] + 1) = {}
          BY <1>3, <4>1
        <5> QED BY <5>1, <5>2, Zenon DEF OK, Exact
      <4> QED BY <4>3
    <3>3. CASE y > 0
      <4>1. k - 1 \in Nat /\ x < k - 1 /\ ~(k <= k - 1)
        BY <2>2, <2>3, <2>4, <3>1, <3>3
      <4>2. k - 1 \notin Bad
        BY <2>1, <4>1, Zenon
      <4> QED BY <3>1, <4>1, <4>2, Zenon
    <3> QED BY <3>1, <3>2, <3>3
  <2> QED BY <1>2, <2>3, <2>4, Zenon
<1>5. <<0, Len(t) - 1>> \in Ranges(t)
  BY <1>0 DEF Ranges
<1>6. OK(<<0, Len(t) - 1>>)
  <2>1. PICK p : p = <<0, Len(t) - 1>>
    BY Zenon
  <2>2. n \in Nat /\ p[2] - p[1] < n
    BY <1>0, <2>1
  <2> QED BY <1>4, <1>5, <2>1, <2>2, Zenon
<1>7. <<0, Len(t) - 1>>[1] = 0 /\ <<0, Len(t) - 1>>[2] = Len(t) - 1
  OBVIOUS
<1> QED BY <1>1, <1>6, <1>7, Zenon DEF OK

\* find_sym_at_addr: the function it names holds the address; if no two
\* functions overlap it names the one that does.
LEMMA FindExact ==
  ASSUME NEW t, Rows(t), NEW a \in Int
  PROVE  /\ FindSymAtAddr(t, a) # 0 => /\ FindSymAtAddr(t, a) \in DOMAIN t
                                       /\ Holds(t[FindSymAtAddr(t, a)], a)
         /\ Apart(t) /\ FindSymAtAddr(t, a) = 0 => \A g \in DOMAIN t : ~Holds(t[g], a)
<1> DEFINE below == {i \in DOMAIN t : t[i].addr <= a}
<1>0. PICK n \in Nat : n = Len(t) /\ DOMAIN t = 1..n
  BY Zenon DEF Rows
<1>1. PICK r : r = BinarySearch(t, a) /\ Exact(t, a, r, 0, n - 1)
  BY <1>0, SearchFinds, Zenon
<1>2. below # {} => Max(below) \in below
  <2>1. below \in SUBSET (0..n)
    BY <1>0
  <2> HIDE DEF below
  <2> QED BY <1>0, <2>1, MaxIs, Zenon
<1>3. \A g \in DOMAIN t : g \in (0 + 1)..((n - 1) + 1)
  BY <1>0
<1>4. CASE r # 0
  <2>1. FindSymAtAddr(t, a) = r
    BY <1>1, <1>4, Zenon DEF FindSymAtAddr
  <2> QED BY <1>0, <1>1, <1>4, <2>1, Zenon DEF Exact
<1>5. CASE r = 0
  <2>1. Apart(t) => \A g \in DOMAIN t : ~Holds(t[g], a)
    BY <1>1, <1>3, <1>5, Zenon DEF Exact
  <2>2. CASE below # {} /\ Holds(t[Max(below)], a)
    <3>1. FindSymAtAddr(t, a) = Max(below)
      BY <1>1, <1>5, <2>2, Zenon DEF FindSymAtAddr
    <3>2. Max(below) \in DOMAIN t
      BY <1>2, <2>2, Zenon
    <3> QED BY <2>1, <2>2, <3>1, <3>2, Zenon
  <2>3. CASE ~(below # {} /\ Holds(t[Max(below)], a))
    <3>1. FindSymAtAddr(t, a) = 0
      BY <1>1, <1>5, <2>3, Zenon DEF FindSymAtAddr
    <3> QED BY <2>1, <3>1, Zenon
  <2> QED BY <2>2, <2>3, Zenon
<1> QED BY <1>4, <1>5, Zenon

\* build_libc_symtab leaves a table of well-formed rows.
LEMMA TabRows ==
  ASSUME NEW e \in Files
  PROVE  Rows(SymTab(e))
<1> DEFINE S     == e.symbols
           funcs == {k \in DOMAIN S : S[k].func /\ S[k].addr # 0 /\ S[k].name # ""}
           first == {k \in funcs : \A j \in funcs : j < k => S[j].addr # S[k].addr}
           kept  == FirstFew(first, MaxSyms)
           below == [k \in kept |-> {j \in kept : S[j].addr < S[k].addr}]
           row   == [i \in 1..Cardinality(kept) |-> CHOOSE k \in kept : Cardinality(below[k]) = i - 1]
           size  == [k \in DOMAIN S |-> IF S[k].size # 0 THEN S[k].size ELSE FuncDefault]
<1>1. FileOK(e) /\ MaxSyms \in Nat /\ FuncDefault \in Nat
  BY CallGraphAssumption, Zenon
<1>2. DOMAIN S \subseteq Nat \ {0} /\ \A k \in DOMAIN S : S[k].addr \in Nat /\ S[k].size \in Nat
  BY <1>1, Shapes, Zenon
<1>3. first \subseteq DOMAIN S /\ IsFiniteSet(first)
  <2>1. Len(S) \in Nat /\ DOMAIN S = 1..Len(S)
    <3> DEFINE Sym == [name : STRING, func : BOOLEAN, addr : Nat, size : Nat]
    <3>1. S \in Seq(Sym)
      BY <1>1, Zenon DEF FileOK
    <3> HIDE DEF Sym, S
    <3> QED BY <3>1
  <2>2. IsFiniteSet(DOMAIN S)
    BY <2>1, FS_Interval
  <2>3. first \subseteq DOMAIN S
    BY Zenon
  <2> HIDE DEF first, S
  <2> QED BY <2>2, <2>3, FS_Subset, Zenon
<1>4. \A j, k \in first : j # k => S[j].addr # S[k].addr
  <2>1. ASSUME NEW j \in first, NEW k \in first, j < k PROVE S[j].addr # S[k].addr
    BY <2>1, Zenon
  <2>2. \A j, k \in first : j # k => j < k \/ k < j
    <3>1. \A j, k \in Nat : j # k => j < k \/ k < j
      OBVIOUS
    <3> QED BY <1>2, <1>3, <3>1, Zenon
  <2> QED BY <2>1, <2>2, Zenon
<1> HIDE DEF first
<1>5. IsFiniteSet(kept) /\ kept \subseteq first /\ Cardinality(kept) \in Nat
  <2>1. first \subseteq Int
    BY <1>2, <1>3
  <2> QED BY <1>1, <1>3, <2>1, FirstFewKept, Zenon DEF Kept
<1> HIDE DEF kept
<1>6. \A k \in kept : k \in DOMAIN S /\ S[k].addr \in Nat /\ S[k].size \in Nat
  BY <1>2, <1>3, <1>5, Zenon
<1>7. Ordered(kept, below)
  <2> DEFINE addr == [k \in kept |-> S[k].addr]
  <2>1. addr \in [kept -> Nat] /\ \A k \in kept : addr[k] = S[k].addr
    BY <1>6, Zenon
  <2>2. \A j, k \in kept : j # k => addr[j] # addr[k]
    BY <1>4, <1>5, <2>1, Zenon
  <2>3. \A k \in kept : below[k] = {j \in kept : addr[j] < addr[k]}
    BY <2>1, Zenon
  <2>4. below \in [kept -> SUBSET kept]
    BY Zenon
  <2> HIDE DEF addr, below
  <2>5. \A x \in kept : ~(addr[x] < addr[x])
    BY <2>1
  <2>6. \A x, y \in kept : x # y => addr[x] < addr[y] \/ addr[y] < addr[x]
    BY <2>1, <2>2
  <2>7. \A x, y, z \in kept : addr[x] < addr[y] /\ addr[z] < addr[x] => addr[z] < addr[y]
    BY <2>1
  <2>8. \A x \in kept : x \notin below[x]
    BY <2>3, <2>5, Zenon
  <2>9. \A x, y \in kept : x # y => x \in below[y] \/ y \in below[x]
    BY <2>3, <2>6, Zenon
  <2>10. \A x, y \in kept : x \in below[y] => below[x] \subseteq below[y]
    BY <2>3, <2>7, Zenon
  <2> QED BY <2>4, <2>8, <2>9, <2>10, Zenon DEF Ordered
<1>8. PICK n \in Nat : n = Cardinality(kept)
  BY <1>5, Zenon
<1>9. ASSUME NEW i \in 1..n PROVE row[i] \in kept
  <2>1. i - 1 \in 0..(n - 1)
    BY <1>8
  <2>2. \E k \in kept : Cardinality(below[k]) = i - 1
    <3> HIDE DEF below
    <3>1. \A m \in 0..(Cardinality(kept) - 1) : \E k \in kept : Cardinality(below[k]) = m
      BY <1>5, <1>7, RankOnto
    <3> QED BY <1>8, <2>1, <3>1, Zenon
  <2>3. row[i] = CHOOSE k \in kept : Cardinality(below[k]) = i - 1
    BY <1>8, Zenon
  <2> QED BY <2>2, <2>3, Zenon
<1>10. SymTab(e) = [i \in 1..n |-> [name |-> S[row[i]].name, addr |-> S[row[i]].addr,
                                    size |-> size[row[i]]]]
  <2> DEFINE at(i) == CHOOSE j \in kept : Cardinality({l \in kept : S[l].addr < S[j].addr}) = i - 1
  <2>1. SymTab(e) = [i \in 1..Cardinality(kept) |->
                       [name |-> S[at(i)].name, addr |-> S[at(i)].addr,
                        size |-> IF S[at(i)].size # 0 THEN S[at(i)].size ELSE FuncDefault]]
    BY Zenon DEF SymTab, kept, first
  <2>2. ASSUME NEW i \in 1..n PROVE row[i] = at(i)
    <3>1. \A j \in kept : below[j] = {l \in kept : S[l].addr < S[j].addr}
      BY Zenon
    <3> QED BY <1>8, <3>1, Zenon
  <2> HIDE DEF at, row
  <2>3. ASSUME NEW i \in 1..n
        PROVE  size[row[i]] = IF S[row[i]].size # 0 THEN S[row[i]].size ELSE FuncDefault
    BY <1>6, <1>9, Zenon
  <2> HIDE DEF size, S
  <2> QED BY <1>8, <2>1, <2>2, <2>3
<1>11. \A k \in DOMAIN S : size[k] \in Nat
  BY <1>1, <1>2
<1> HIDE DEF row, size, S
<1>12. Len(SymTab(e)) = n /\ DOMAIN SymTab(e) = 1..n
  BY <1>10
<1>13. ASSUME NEW i \in 1..n PROVE SymTab(e)[i].addr \in Nat /\ SymTab(e)[i].size \in Nat
  <2>1. SymTab(e)[i].addr = S[row[i]].addr /\ SymTab(e)[i].size = size[row[i]]
    BY <1>10
  <2> QED BY <1>6, <1>9, <1>11, <2>1, Zenon
<1> QED BY <1>12, <1>13, Zenon DEF Rows

\* The table is that of the file once it is built.
TabInv ==
  /\ elf \in Files /\ imports \in ImportLists
  /\ syms = << >> \/ syms = SymTab(elf)
  /\ phase # "symtab" => syms = SymTab(elf)

LEMMA TabInit == Init => TabInv
BY Zenon DEF Init, TabInv

LEMMA TabStep == TabInv /\ [Next]_vars => TabInv'
<1> SUFFICES ASSUME TabInv, [Next]_vars PROVE TabInv'
  OBVIOUS
<1>1. CASE BuildSymtab
  <2>1. elf' = elf /\ imports' = imports /\ syms' = SymTab(elf)
    BY <1>1, Zenon DEF BuildSymtab, input
  <2>2. syms' = SymTab(elf')
    BY <2>1, Zenon
  <2> QED BY <2>1, <2>2, Zenon DEF TabInv
<1>2. CASE ~BuildSymtab
  <2>1. /\ elf' = elf /\ imports' = imports /\ syms' = syms
        /\ phase # "symtab" \/ phase' = phase
    BY <1>2, Zenon DEF Next, Seed, StartSearch, Take, Follow, Scanned, Collect, Bind, vars, input
  <2>2. SymTab(elf') = SymTab(elf)
    BY <2>1, Zenon
  <2> QED BY <2>1, <2>2, Zenon DEF TabInv
<1> QED BY <1>1, <1>2, Zenon

LEMMA SymsRows == TabInv => Rows(syms)
<1> SUFFICES ASSUME TabInv PROVE Rows(syms)
  OBVIOUS
<1>1. CASE syms = << >>
  <2>1. Len(<< >>) = 0 /\ DOMAIN << >> = {} /\ 1..0 = {} /\ 0 \in Nat
    OBVIOUS
  <2> QED BY <1>1, <2>1, Zenon DEF Rows
<1>2. CASE syms = SymTab(elf)
  BY <1>2, TabRows, Zenon DEF TabInv
<1> QED BY <1>1, <1>2, Zenon DEF TabInv

\* find_sym_at_addr names a function that holds the address and, when no two
\* functions overlap, names it whenever there is one: SearchExact, for every
\* table that build_libc_symtab can leave.
THEOREM LookupExact == Spec => []SearchExact
<1>1. TabInv => SearchExact
  <2> SUFFICES ASSUME TabInv,
                      NEW a \in {elf.target[c] : c \in DOMAIN elf.target}
                                  \cup {syms[k].addr : k \in DOMAIN syms}
               PROVE  LET f == FindSymAtAddr(syms, a)
                      IN  /\ f # 0 => Holds(syms[f], a)
                          /\ Disjoint /\ f = 0 => \A g \in DOMAIN syms : ~Holds(syms[g], a)
    BY Zenon DEF SearchExact
  <2>1. Rows(syms)
    BY SymsRows, Zenon
  <2>2. a \in Nat
    <3>1. \A c \in DOMAIN elf.target : elf.target[c] \in Nat
      BY CallGraphAssumption, Zenon DEF TabInv
    <3>2. \A k \in DOMAIN syms : syms[k].addr \in Nat
      BY <2>1, Zenon DEF Rows
    <3> QED BY <3>1, <3>2, Zenon
  <2>3. a \in Int
    BY <2>2
  <2>4. Disjoint => Apart(syms)
    BY Zenon DEF Disjoint, Apart
  <2> QED BY <2>1, <2>3, <2>4, FindExact, Zenon
<1> QED BY <1>1, TabInit, TabStep, PTL DEF Spec

-----------------------------------------------------------------------------
(* The queue, the depth and the list of sites.                             *)

\* The part of a function that get_bytes_at gives: nothing, or bytes of the
\* section that holds the start of the function.
Clipped(e, s, w) ==
  \/ /\ \A k \in ExecSections(e) : ~Spans(e.sections[k], s.addr)
     /\ w.sec.addr = 0 /\ w.from = 0 /\ w.avail = 0
  \/ \E k \in ExecSections(e) :
       /\ w.sec = e.sections[k] /\ w.from \in Nat /\ w.avail \in Int
       /\ Spans(e.sections[k], s.addr)
       /\ e.sections[k].addr + w.from = s.addr
       /\ e.sections[k].addr + w.from + w.avail <= End(e.sections[k])
       /\ w.avail <= s.size
       /\ \/ w.avail = s.size
          \/ e.sections[k].addr + w.from + w.avail = End(e.sections[k])

LEMMA WindowIs ==
  ASSUME NEW e, FileOK(e), NEW t, Rows(t), NEW f \in DOMAIN t
  PROVE  Clipped(e, t[f], Window(e, t, f))
<1> DEFINE k == SectionOf(e, t[f].addr)
           w == Window(e, t, f)
<1>1. PICK a \in Nat, s \in Nat : a = t[f].addr /\ s = t[f].size
  BY Zenon DEF Rows
<1>2. a \in Int
  BY <1>1
<1>3. CASE k = 0
  <2>1. \A j \in ExecSections(e) : ~Spans(e.sections[j], t[f].addr)
    BY <1>1, <1>2, <1>3, SectionFound, Zenon
  <2>2. w = [sec |-> [addr |-> 0, bytes |-> << >>], from |-> 0, avail |-> 0]
    BY <1>3, Zenon DEF Window
  <2>3. w.sec.addr = 0 /\ w.from = 0 /\ w.avail = 0
    <3> HIDE DEF w
    <3> QED BY <2>2
  <2> QED BY <2>1, <2>3, Zenon DEF Clipped
<1>4. CASE k # 0
  <2>1. k \in ExecSections(e) /\ Spans(e.sections[k], t[f].addr)
    BY <1>1, <1>2, <1>4, SectionFound, Zenon
  <2>2. PICK b \in Nat, l \in Nat : b = e.sections[k].addr /\ l = Len(e.sections[k].bytes)
    BY <2>1, Shapes, Zenon
  <2>3. PICK from, rest, avail :
          /\ from = a - b /\ rest = l - from /\ avail = IF rest > s THEN s ELSE rest
    BY Zenon
  <2>4. w = [sec |-> e.sections[k], from |-> from, avail |-> avail]
    BY <1>1, <1>4, <2>2, <2>3, Zenon DEF Window
  <2>5. w.sec = e.sections[k] /\ w.from = from /\ w.avail = avail
    <3> HIDE DEF w, k
    <3> QED BY <2>4
  <2>6. b <= a /\ a < b + l /\ End(e.sections[k]) = b + l
    BY <1>1, <2>1, <2>2, Zenon DEF Spans, End
  <2> HIDE DEF w, k
  <2>7. /\ from \in Nat /\ avail \in Int /\ b + from = a /\ b + from + avail <= b + l
        /\ avail <= s /\ (avail = s \/ b + from + avail = b + l)
    BY <2>3, <2>6
  <2> QED BY <1>1, <2>1, <2>2, <2>5, <2>6, <2>7, Zenon DEF w, Clipped
<1> QED BY <1>3, <1>4, Zenon

\* A call in the bytes of a function: its position, and where it goes.
LEMMA CalleeIn ==
  ASSUME NEW e \in Files, NEW t, Rows(t), NEW f \in DOMAIN t, NEW i \in DOMAIN Callees(e, t, f)
  PROVE  Callees(e, t, f)[i] \in DOMAIN t \cup {0}
<1> DEFINE w == Window(e, t, f)
<1>1. /\ i \in (w.from + 1)..(w.from + w.avail - CallSize + 1) /\ w.sec.bytes[i] = "e8"
      /\ Callees(e, t, f)[i] = FindSymAtAddr(t, e.target[w.sec.addr + i - 1])
  BY Zenon DEF Callees
<1>2. FileOK(e) /\ CallSize = 5
  BY CallGraphAssumption, Zenon DEF CallSize
<1>3. CASE w.sec.addr = 0 /\ w.from = 0 /\ w.avail = 0
  BY <1>1, <1>2, <1>3
<1>4. CASE \E k \in ExecSections(e) :
             /\ w.sec = e.sections[k] /\ w.from \in Nat /\ w.avail \in Int
             /\ e.sections[k].addr + w.from + w.avail <= End(e.sections[k])
  <2>1. PICK k \in ExecSections(e) :
          /\ w.sec = e.sections[k] /\ w.from \in Nat /\ w.avail \in Int
          /\ e.sections[k].addr + w.from + w.avail <= End(e.sections[k])
    BY <1>4, Zenon
  <2>2. PICK b \in Nat, l \in Nat : b = e.sections[k].addr /\ l = Len(e.sections[k].bytes)
    BY <1>2, Shapes, Zenon
  <2>3. PICK from \in Nat, avail \in Int : from = w.from /\ avail = w.avail
    BY <2>1, Zenon
  <2>4. b + from + avail <= b + l
    BY <2>1, <2>2, <2>3, Zenon DEF End
  <2>5. i \in (from + 1)..(from + avail - 5 + 1)
    BY <1>1, <1>2, <2>3, Zenon
  <2> HIDE DEF w
  <2>6. i \in 1..(l - 5 + 1)
    BY <2>4, <2>5
  <2>7. e.sections[k].addr + i - 1 \in DOMAIN e.target
    BY <1>1, <1>2, <2>1, <2>2, <2>6, CallGraphAssumption, Zenon
  <2>8. e.target[w.sec.addr + i - 1] \in Nat
    BY <2>1, <2>7, CallGraphAssumption, Zenon
  <2>9. PICK a \in Int : a = e.target[w.sec.addr + i - 1]
    BY <2>8
  <2> QED BY <1>1, <2>9, FindExact, Zenon DEF w
<1> HIDE DEF w
<1>5. \/ w.sec.addr = 0 /\ w.from = 0 /\ w.avail = 0
      \/ \E k \in ExecSections(e) :
           /\ w.sec = e.sections[k] /\ w.from \in Nat /\ w.avail \in Int
           /\ e.sections[k].addr + w.from + w.avail <= End(e.sections[k])
  BY <1>2, WindowIs, Zenon DEF w, Clipped
<1> QED BY <1>3, <1>4, <1>5, Zenon

\* A candidate for a seed is a function of the table, or NULL.
LEMMA CandidateIn ==
  ASSUME NEW names \in ImportLists, NEW t, Rows(t), NEW i \in DOMAIN Candidates(t, names)
  PROVE  Candidates(t, names)[i] \in DOMAIN t \cup {0}
<1> DEFINE D == DOMAIN t \cup {0}
           named(s) == [k \in DOMAIN s |-> FindSymByName(t, s[k])]
           entry(p) == ((p - 1) % Len(t)) + 1
           third == [p \in 1..(Len(names) * Len(t)) |->
                       IF t[entry(p)].name \in Variants[names[((p - 1) \div Len(t)) + 1]]
                       THEN entry(p) ELSE 0]
<1>0. PICK n \in Nat : n = Len(t) /\ DOMAIN t = 1..n
  BY Zenon DEF Rows
<1>1. \A x : FindSymByName(t, x) \in D
  <2> TAKE x
  <2> DEFINE S == {k \in DOMAIN t : t[k].name = x}
  <2>1. S \in SUBSET Nat /\ 0 \notin S /\ S \subseteq DOMAIN t
    BY <1>0
  <2>2. FindSymByName(t, x) = Lowest(S)
    BY Zenon DEF FindSymByName
  <2> HIDE DEF S
  <2> QED BY <2>1, <2>2, LowestIs, Zenon
<1>2. ASSUME NEW s, s \in Seq(STRING)
      PROVE  named(s) \in Seq(D)
  <2>1. Len(s) \in Nat /\ DOMAIN s = 1..Len(s)
    BY <1>2
  <2>2. named(s) \in [1..Len(s) -> D]
    BY <1>1, <2>1, Zenon
  <2> HIDE DEF named, D
  <2> QED BY <2>1, <2>2
<1>3. names \in Seq(STRING) /\ Essential \in Seq(STRING)
  BY CallGraphAssumption, Zenon
<1>4. third \in Seq(D)
  <2>1. PICK m \in Nat : m = Len(names)
    BY <1>3
  <2>2. PICK q \in Nat : q = m * n
    BY <1>0, <2>1
  <2>3. ASSUME NEW p \in 1..q PROVE entry(p) \in D
    <3>1. n # 0
      BY <1>0, <2>1, <2>2, <2>3
    <3>2. (p - 1) % n \in 0..(n - 1)
      BY <1>0, <3>1
    <3>3. ((p - 1) % n) + 1 \in 1..n
      BY <1>0, <3>2
    <3> QED BY <1>0, <3>3, Zenon
  <2>4. third \in [1..q -> D]
    <3> HIDE DEF entry
    <3>1. 0 \in D
      BY Zenon
    <3> HIDE DEF D
    <3>2. \A p \in 1..q : third[p] \in D
      BY <1>0, <2>1, <2>2, <2>3, <3>1, Zenon
    <3> QED BY <1>0, <2>1, <2>2, <3>2, Zenon
  <2> HIDE DEF third, D
  <2> QED BY <2>2, <2>4
<1>5. Candidates(t, names) = named(names) \o named(Essential) \o third
  BY Zenon DEF Candidates
<1> HIDE DEF third, D, named
<1>6. Candidates(t, names) \in Seq(D)
  BY <1>2, <1>3, <1>4, <1>5
<1>7. Candidates(t, names)[i] \in D
  BY <1>6
<1> QED BY <1>7, Zenon DEF D

\* The sites of a queue of functions are finitely many.
LEMMA SitesOfFinite ==
  ASSUME NEW e, FileOK(e), NEW t, Rows(t), NEW q \in Seq(DOMAIN t)
  PROVE  SitesOf(e, t, q) \subseteq Int \X Int /\ IsFiniteSet(SitesOf(e, t, q))
<1> DEFINE found(f) == OpcodeSites(Window(e, t, f).sec, Window(e, t, f).from, Window(e, t, f).avail)
           part == [k \in 1..Len(q) |-> {k} \X found(q[k])]
           parts == {part[k] : k \in 1..Len(q)}
<1>1. Len(q) \in Nat /\ DOMAIN q = 1..Len(q) /\ \A k \in 1..Len(q) : q[k] \in DOMAIN t
  BY DEF Rows
<1>2. ASSUME NEW f \in DOMAIN t PROVE found(f) \subseteq Nat /\ IsFiniteSet(found(f))
  <2> DEFINE w == Window(e, t, f)
  <2>1. w.sec.addr \in Nat /\ w.from \in Nat /\ w.avail \in Int
    <3>1. 0 \in Nat /\ 0 \in Int
      OBVIOUS
    <3>2. \A k \in ExecSections(e) : e.sections[k].addr \in Nat
      BY Shapes, Zenon
    <3> HIDE DEF w
    <3>3. \/ w.sec.addr = 0 /\ w.from = 0 /\ w.avail = 0
          \/ \E k \in ExecSections(e) :
               /\ w.sec = e.sections[k] /\ w.from \in Nat /\ w.avail \in Int
               /\ e.sections[k].addr + w.from + w.avail <= End(e.sections[k])
      BY WindowIs, Zenon DEF w, Clipped
    <3> QED BY <3>1, <3>2, <3>3, Zenon
  <2> HIDE DEF w
  <2>2. OpcodeSites(w.sec, w.from, w.avail) \subseteq Nat /\ IsFiniteSet(OpcodeSites(w.sec, w.from, w.avail))
    BY <2>1, SitesFinite, Zenon
  <2> QED BY <2>2, Zenon DEF w
<1>3. SitesOf(e, t, q) = UNION parts
  BY <1>1, Zenon DEF SitesOf
<1> HIDE DEF found
<1>4. ASSUME NEW k \in 1..Len(q) PROVE part[k] \subseteq Int \X Int /\ IsFiniteSet(part[k])
  <2>1. part[k] = {k} \X found(q[k])
    BY Zenon
  <2>2. IsFiniteSet({k}) /\ k \in Int
    <3>1. k \in Int
      BY <1>1
    <3> QED BY <3>1, FS_Singleton, Zenon
  <2>3. PICK F : F = found(q[k]) /\ F \subseteq Nat /\ IsFiniteSet(F)
    BY <1>1, <1>2, Zenon
  <2>4. IsFiniteSet({k} \X F)
    BY <2>2, <2>3, FS_Product, Zenon
  <2>5. {k} \X F \subseteq Int \X Int
    BY <2>2, <2>3
  <2> QED BY <2>1, <2>3, <2>4, <2>5, Zenon
<1>5. part \in Surjection(1..Len(q), parts)
  BY Zenon DEF Surjection
<1> HIDE DEF part
<1>6. IsFiniteSet(parts)
  <2>1. IsFiniteSet(1..Len(q))
    BY <1>1, FS_Interval
  <2> HIDE DEF parts
  <2> QED BY <1>5, <2>1, FS_Surjection, Zenon
<1>7. \A P \in parts : P \subseteq Int \X Int /\ IsFiniteSet(P)
  BY <1>4, Zenon
<1> HIDE DEF parts
<1>8. IsFiniteSet(UNION parts)
  BY <1>6, <1>7, FS_UNION, Zenon
<1>9. UNION parts \subseteq Int \X Int
  BY <1>7, Zenon
<1> QED BY <1>3, <1>8, <1>9, Zenon

\* The queue holds functions of the table, none twice, and fits its array; the
\* depth and the end of a level stay within their limits.
SizeInv ==
  /\ visited \subseteq DOMAIN syms
  /\ \A j, k \in 1..Len(queue) : queue[j] = queue[k] => j = k
  /\ Len(queue) <= MaxReachable
  /\ depth \in 0..DepthLimit /\ boundary \in 0..Len(queue)
  /\ IsFiniteSet(sites) /\ Cardinality(sites) <= MaxSites

\* Enqueue never puts a function into the queue twice, nor one too many.
LEMMA EnqueueSize ==
  ASSUME QueueInv, SizeInv, NEW f, Enqueue(f), f \in DOMAIN syms \cup {0}
  PROVE  /\ visited' \subseteq DOMAIN syms
         /\ \A j, k \in 1..Len(queue') : queue'[j] = queue'[k] => j = k
         /\ Len(queue') <= MaxReachable /\ boundary \in 0..Len(queue')
<1>1. PICK n \in Nat : n = Len(queue) /\ DOMAIN queue = 1..n /\ \A k \in 1..n : queue[k] \in visited
  BY DEF QueueInv
<1>2. MaxReachable \in Nat
  BY CallGraphAssumption, Zenon
<1>3. CASE UNCHANGED <<visited, queue>>
  BY <1>3, Zenon DEF SizeInv
<1>4. CASE /\ f # 0 /\ f \notin visited /\ n < MaxReachable
           /\ visited' = visited \cup {f} /\ queue' = Append(queue, f)
  <2>1. Len(queue') = n + 1 /\ queue'[n + 1] = f /\ \A k \in 1..n : queue'[k] = queue[k]
    <3>1. queue \in Seq(visited)
      BY Zenon DEF QueueInv
    <3> QED BY <1>1, <1>4, <3>1
  <2>2. visited' \subseteq DOMAIN syms
    BY <1>4, Zenon DEF SizeInv
  <2>3. n + 1 <= MaxReachable /\ boundary \in 0..(n + 1)
    BY <1>1, <1>2, <1>4 DEF SizeInv
  <2>4. \A j \in 1..(n + 1) : j \in 1..n \/ j = n + 1
    BY <1>1
  <2>5. ASSUME NEW j \in 1..(n + 1), NEW k \in 1..(n + 1), queue'[j] = queue'[k]
        PROVE  j = k
    <3>1. j \in 1..n /\ k \in 1..n => j = k
      BY <1>1, <2>1, <2>5, Zenon DEF SizeInv
    <3>2. ~(j \in 1..n /\ k = n + 1)
      BY <1>1, <1>4, <2>1, <2>5, Zenon
    <3>3. ~(k \in 1..n /\ j = n + 1)
      BY <1>1, <1>4, <2>1, <2>5, Zenon
    <3> QED BY <2>4, <3>1, <3>2, <3>3, Zenon
  <2> QED BY <2>1, <2>2, <2>3, <2>5, Zenon
<1> QED BY <1>1, <1>3, <1>4, Zenon DEF Enqueue

\* Nothing outgrows its array at the start.
LEMMA SizeInit == Init => SizeInv
<1> SUFFICES ASSUME Init PROVE SizeInv
  OBVIOUS
<1>1. queue = << >> /\ visited = {} /\ depth = 0 /\ boundary = 0 /\ sites = {}
  BY Zenon DEF Init
<1>2. IsFiniteSet(sites) /\ Cardinality(sites) = 0
  BY <1>1, FS_EmptySet, Zenon
<1>3. MaxReachable \in Nat /\ MaxSites \in Nat /\ DepthLimit \in Nat
  BY CallGraphAssumption, Zenon
<1>4. Len(queue) = 0
  BY <1>1
<1>5. depth \in 0..DepthLimit /\ boundary \in 0..Len(queue) /\ 0 <= MaxReachable /\ 0 <= MaxSites
      /\ 1..Len(queue) = {}
  BY <1>1, <1>3, <1>4
<1> QED BY <1>1, <1>2, <1>4, <1>5, Zenon DEF SizeInv

\* No step does.
LEMMA SizeStep == TabInv /\ QueueInv /\ SizeInv /\ [Next]_vars => SizeInv'
<1> SUFFICES ASSUME TabInv, QueueInv, SizeInv, [Next]_vars PROVE SizeInv'
  OBVIOUS
<1>1. CASE BuildSymtab
  <2>1. /\ queue' = queue /\ visited' = visited /\ depth' = depth /\ boundary' = boundary
        /\ sites' = sites /\ visited = {}
    BY <1>1, Zenon DEF BuildSymtab, QueueInv
  <2> QED BY <2>1, Zenon DEF SizeInv
<1>2. CASE Seed
  <2>1. PICK i \in unseeded : Enqueue(candidates[i])
    BY <1>2, Zenon DEF Seed
  <2>2. /\ phase = "seed" /\ syms' = syms /\ depth' = depth /\ boundary' = boundary /\ sites' = sites
    BY <1>2, Zenon DEF Seed
  <2>3. candidates[i] \in DOMAIN syms \cup {0}
    BY <2>1, <2>2, SymsRows, CandidateIn, Zenon DEF candidates, QueueInv, TabInv
  <2> QED BY <2>1, <2>2, <2>3, EnqueueSize, Zenon DEF SizeInv
<1>3. CASE Follow
  <2>1. PICK i \in pending : Enqueue(callees(queue[head])[i])
    BY <1>3, Zenon DEF Follow
  <2>2. /\ phase = "scan" /\ syms' = syms /\ depth' = depth /\ boundary' = boundary /\ sites' = sites
    BY <1>3, Zenon DEF Follow
  <2>3. queue[head] \in visited /\ i \in DOMAIN callees(queue[head])
    BY <2>1, <2>2 DEF QueueInv
  <2>4. callees(queue[head])[i] \in DOMAIN syms \cup {0}
    BY <2>3, SymsRows, CalleeIn, Zenon DEF callees, SizeInv, TabInv
  <2> QED BY <2>1, <2>2, <2>4, EnqueueSize, Zenon DEF SizeInv
<1>4. CASE StartSearch
  <2>1. /\ queue' = queue /\ visited' = visited /\ syms' = syms /\ depth' = depth /\ sites' = sites
        /\ boundary' = Len(queue)
    BY <1>4, Zenon DEF StartSearch
  <2>2. Len(queue) \in 0..Len(queue)
    BY DEF QueueInv
  <2> QED BY <2>1, <2>2, Zenon DEF SizeInv
<1>5. CASE Take
  <2>1. /\ queue' = queue /\ visited' = visited /\ syms' = syms /\ sites' = sites
        /\ depth < DepthLimit /\ AdvanceDepth
    BY <1>5, Zenon DEF Take, MoreWork
  <2>2. Len(queue) \in 0..Len(queue)
    BY DEF QueueInv
  <2>3. depth + 1 \in 0..DepthLimit
    <3>1. DepthLimit \in Nat /\ depth \in 0..DepthLimit
      BY CallGraphAssumption, Zenon DEF SizeInv
    <3> QED BY <2>1, <3>1
  <2>4. depth' \in 0..DepthLimit /\ boundary' \in 0..Len(queue)
    BY <2>1, <2>2, <2>3, Zenon DEF SizeInv, AdvanceDepth
  <2> QED BY <2>1, <2>4, Zenon DEF SizeInv
<1>6. CASE Collect
  <2>1. /\ queue' = queue /\ visited' = visited /\ syms' = syms /\ depth' = depth
        /\ boundary' = boundary /\ sites' = FirstPairs(SitesOf(elf, syms, queue), MaxSites)
    BY <1>6, Zenon DEF Collect, search
  <2>2. queue \in Seq(DOMAIN syms)
    <3>1. queue \in Seq(visited) /\ visited \subseteq DOMAIN syms
      BY Zenon DEF QueueInv, SizeInv
    <3>2. PICK D : D = DOMAIN syms
      BY Zenon
    <3>3. queue \in Seq(D)
      BY <3>1, <3>2
    <3> QED BY <3>2, <3>3, Zenon
  <2>3. FileOK(elf) /\ MaxSites \in Nat
    BY CallGraphAssumption, Zenon DEF TabInv
  <2>4. SitesOf(elf, syms, queue) \subseteq Int \X Int /\ IsFiniteSet(SitesOf(elf, syms, queue))
    BY <2>2, <2>3, SymsRows, SitesOfFinite, Zenon
  <2>5. Kept(SitesOf(elf, syms, queue), MaxSites, FirstPairs(SitesOf(elf, syms, queue), MaxSites))
    BY <2>3, <2>4, FirstPairsKept, Zenon
  <2> QED BY <2>1, <2>5, Zenon DEF SizeInv, Kept
<1>7. CASE Scanned \/ Bind \/ UNCHANGED vars
  <2>1. /\ queue' = queue /\ visited' = visited /\ syms' = syms /\ depth' = depth
        /\ boundary' = boundary /\ sites' = sites
    BY <1>7, Zenon DEF Scanned, Bind, vars, search
  <2> QED BY <2>1, Zenon DEF SizeInv
<1> QED BY <1>1, <1>2, <1>3, <1>4, <1>5, <1>6, <1>7, Zenon DEF Next

\* The work queue, the depth and the list of sites stay within their arrays and
\* limits, and visited marks exactly what was queued: TypeOK of the search, for
\* every file, every list of imports and every limit.
THEOREM SearchTyped == Spec => []TypeOK
<1>1. TabInv /\ QueueInv /\ SizeInv => TypeOK
  <2> SUFFICES ASSUME TabInv, QueueInv, SizeInv PROVE TypeOK
    OBVIOUS
  <2>1. PICK n \in Nat : /\ n = Len(queue) /\ DOMAIN queue = 1..n /\ queue \in [1..n -> visited]
    <3>1. queue \in Seq(visited)
      BY Zenon DEF QueueInv
    <3> QED BY <3>1
  <2>2. \A f \in visited : \E k \in 1..n : queue[k] = f
    BY <2>1, Zenon DEF QueueInv
  <2>3. visited = {queue[k] : k \in DOMAIN queue}
    BY <2>1, <2>2, Zenon
  <2>4. Cardinality(visited) = n
    <3>1. queue \in Bijection(1..n, visited)
      <4>1. \A j, k \in 1..n : queue[j] = queue[k] => j = k
        BY <2>1, Zenon DEF SizeInv
      <4> QED BY <2>1, <2>2, <4>1, Zenon DEF Bijection, Injection, Surjection, IsInjective
    <3>2. IsFiniteSet(1..n) /\ Cardinality(1..n) = n
      BY FS_Interval
    <3>3. Cardinality(visited) = Cardinality(1..n)
      BY <3>1, <3>2, FS_Bijection, Zenon DEF ExistsBijection
    <3> QED BY <3>2, <3>3, Zenon
  <2> QED BY <2>1, <2>3, <2>4, Zenon DEF TypeOK, TabInv, QueueInv, SizeInv, Phases
<1> QED BY <1>1, TabInit, TabStep, QueueInit, QueueStep, SizeInit, SizeStep, PTL DEF Spec

-----------------------------------------------------------------------------
(* The whitelist.                                                          *)

\* The sites of a queue are syscall instructions within the functions of it.
LEMMA SitesSound ==
  ASSUME NEW e, FileOK(e), NEW t, Rows(t), NEW q \in Seq(DOMAIN t), NEW h \in SitesOf(e, t, q)
  PROVE  /\ h[2] \in Nat /\ SyscallAt(e, h[2])
         /\ \E k \in DOMAIN q : Holds(t[q[k]], h[2]) /\ Holds(t[q[k]], h[2] + 1)
<1> DEFINE w(f) == Window(e, t, f)
<1>1. PICK i, o : /\ i \in DOMAIN q /\ h = <<i, o>>
                  /\ o \in OpcodeSites(w(q[i]).sec, w(q[i]).from, w(q[i]).avail)
  <2>1. PICK i \in DOMAIN q : h \in {i} \X OpcodeSites(w(q[i]).sec, w(q[i]).from, w(q[i]).avail)
    BY Zenon DEF SitesOf
  <2>2. PICK O : O = OpcodeSites(w(q[i]).sec, w(q[i]).from, w(q[i]).avail)
    BY Zenon
  <2>3. h \in {i} \X O
    BY <2>1, <2>2, Zenon
  <2> HIDE DEF w
  <2>4. PICK o \in O : h = <<i, o>>
    BY <2>3
  <2> QED BY <2>2, <2>4, Zenon
<1>2. h[2] = o
  BY <1>1
<1>3. PICK f \in DOMAIN t : f = q[i]
  <2>1. q[i] \in DOMAIN t
    <3>1. PICK D : D = DOMAIN t /\ q \in Seq(D)
      BY Zenon
    <3>2. q[i] \in D
      BY <1>1, <3>1
    <3> QED BY <3>1, <3>2, Zenon
  <2> QED BY <2>1, Zenon
<1>4. PICK v : v = Window(e, t, f) /\ o \in OpcodeSites(v.sec, v.from, v.avail)
  BY <1>1, <1>3, Zenon
<1>5. ~(v.from = 0 /\ v.avail = 0)
  <2> SUFFICES ASSUME v.from = 0, v.avail = 0 PROVE FALSE
    OBVIOUS
  <2>1. \E j \in (0 + 1)..(0 + 0 - 1) : TRUE
    BY <1>4, Zenon DEF OpcodeSites
  <2> QED BY <2>1
<1>6. PICK k \in ExecSections(e) :
        /\ v.sec = e.sections[k] /\ v.from \in Nat /\ v.avail \in Int
        /\ e.sections[k].addr + v.from = t[f].addr
        /\ e.sections[k].addr + v.from + v.avail <= End(e.sections[k])
        /\ v.avail <= t[f].size
  <2>1. Clipped(e, t[f], v)
    BY <1>4, WindowIs, Zenon
  <2> QED BY <1>5, <2>1, Zenon DEF Clipped
<1>7. /\ o \in Nat /\ SyscallAt(e, o)
      /\ e.sections[k].addr + v.from <= o
      /\ o + 1 < e.sections[k].addr + v.from + v.avail
  BY <1>4, <1>6, SitesAreTraps, Zenon
<1>8. PICK a \in Nat, s \in Nat, l \in Int : a = t[f].addr /\ s = t[f].size /\ l = v.avail
  BY <1>6, Zenon DEF Rows
<1>9. a <= o /\ o + 1 < a + l /\ l <= s
  BY <1>6, <1>7, <1>8, Zenon
<1>10. o < a + s /\ a <= o + 1 /\ o + 1 < a + s
  BY <1>7, <1>8, <1>9
<1>11. Holds(t[f], o) /\ Holds(t[f], o + 1)
  BY <1>8, <1>9, <1>10, Zenon DEF Holds
<1> QED BY <1>1, <1>2, <1>3, <1>7, <1>11, Zenon

\* Two executable sections that span an address are one.
LEMMA OneSection ==
  ASSUME NEW e, FileOK(e), NEW j \in ExecSections(e), NEW k \in ExecSections(e), NEW a \in Int,
         Spans(e.sections[j], a), Spans(e.sections[k], a)
  PROVE  j = k
<1>1. /\ e.sections[j].addr \in Nat /\ End(e.sections[j]) \in Nat
      /\ e.sections[k].addr \in Nat /\ End(e.sections[k]) \in Nat
  BY Shapes, Zenon
<1>2. j # k => \/ End(e.sections[j]) <= e.sections[k].addr
               \/ End(e.sections[k]) <= e.sections[j].addr
  BY Zenon DEF FileOK
<1>3. /\ e.sections[j].addr <= a /\ a < End(e.sections[j])
      /\ e.sections[k].addr <= a /\ a < End(e.sections[k])
  BY Zenon DEF Spans
<1> QED BY <1>1, <1>2, <1>3

\* And every syscall instruction within a function of the queue is one of them.
LEMMA SitesComplete ==
  ASSUME WellCut, NEW e \in Files, NEW q \in Seq(DOMAIN SymTab(e)), NEW i \in DOMAIN q,
         NEW o \in Nat, SyscallAt(e, o),
         Holds(SymTab(e)[q[i]], o), Holds(SymTab(e)[q[i]], o + 1)
  PROVE  <<i, o>> \in SitesOf(e, SymTab(e), q)
<1>0. PICK t : t = SymTab(e) /\ Rows(t)
  BY TabRows, Zenon
<1>1. FileOK(e)
  BY CallGraphAssumption, Zenon
<1>2. PICK f \in DOMAIN t : f = q[i]
  <2>1. PICK D : D = DOMAIN t /\ q \in Seq(D)
    BY <1>0, Zenon
  <2>2. q[i] \in D
    BY <2>1
  <2> QED BY <2>1, <2>2, Zenon
<1>3. PICK a \in Nat, s \in Nat : a = t[f].addr /\ s = t[f].size
  BY <1>0, Zenon DEF Rows
<1>4. a <= o /\ o + 1 < a + s
  BY <1>0, <1>2, <1>3, Zenon DEF Holds
<1>5. o \in Int /\ o + 1 \in Int /\ a \in Int
  BY <1>3
<1>6. ASSUME NEW x \in Int, Holds(t[f], x), ByteAt(e, x) # "--"
      PROVE  \E k \in ExecSections(e) : Spans(e.sections[k], x) /\ Spans(e.sections[k], a)
  <2>1. PICK k \in ExecSections(e) : Spans(e.sections[k], x)
    BY <1>6, TextSpanned, Zenon
  <2>2. PICK b \in Nat, z \in Nat : b = e.sections[k].addr /\ z = End(e.sections[k])
    BY <1>1, Shapes, Zenon
  <2>3. b <= x /\ x < z
    BY <2>1, <2>2, Zenon DEF Spans
  <2>4. x \in b..(z - 1)
    BY <2>2, <2>3
  <2> QED BY <1>0, <1>3, <1>6, <2>1, <2>2, <2>4, Zenon DEF WellCut
<1>7. ByteAt(e, o) # "--" /\ ByteAt(e, o + 1) # "--"
  BY DEF SyscallAt
<1>8. PICK k \in ExecSections(e) : Spans(e.sections[k], o) /\ Spans(e.sections[k], a)
  BY <1>0, <1>2, <1>5, <1>6, <1>7, Zenon
<1>9. PICK j \in ExecSections(e) : Spans(e.sections[j], o + 1) /\ Spans(e.sections[j], a)
  BY <1>0, <1>2, <1>5, <1>6, <1>7, Zenon
<1>10. j = k
  BY <1>1, <1>5, <1>8, <1>9, OneSection, Zenon
<1>11. PICK w : w = Window(e, t, f)
  BY Zenon
<1>12. PICK l \in ExecSections(e) :
         /\ w.sec = e.sections[l] /\ w.from \in Nat /\ w.avail \in Int
         /\ Spans(e.sections[l], t[f].addr)
         /\ e.sections[l].addr + w.from = t[f].addr
         /\ w.avail = t[f].size \/ e.sections[l].addr + w.from + w.avail = End(e.sections[l])
  <2>1. Clipped(e, t[f], w)
    BY <1>0, <1>1, <1>11, WindowIs, Zenon
  <2> QED BY <1>3, <1>8, <2>1, Zenon DEF Clipped
<1>13. l = k
  BY <1>1, <1>3, <1>5, <1>8, <1>12, OneSection, Zenon
<1>14. /\ e.sections[l].addr + w.from <= o
       /\ o + 1 < e.sections[l].addr + w.from + w.avail
  <2>1. PICK v \in Int, z \in Nat : v = w.avail /\ z = End(e.sections[l])
    BY <1>1, <1>12, Shapes, Zenon
  <2>2. o + 1 < z
    BY <1>9, <1>10, <1>13, <2>1, Zenon DEF Spans
  <2>3. v = s \/ a + v = z
    BY <1>3, <1>12, <2>1, Zenon
  <2>4. o + 1 < a + v
    BY <1>3, <1>4, <2>1, <2>2, <2>3
  <2> QED BY <1>3, <1>4, <1>12, <2>1, <2>4, Zenon
<1>15. o \in OpcodeSites(w.sec, w.from, w.avail)
  BY <1>1, <1>5, <1>8, <1>9, <1>10, <1>12, <1>13, <1>14, TrapsAreSites, Zenon
<1>16. PICK O : O = OpcodeSites(Window(e, t, q[i]).sec, Window(e, t, q[i]).from, Window(e, t, q[i]).avail)
  BY Zenon
<1>17. <<i, o>> \in {i} \X O
  BY <1>2, <1>11, <1>15, <1>16
<1> QED BY <1>0, <1>16, <1>17, Zenon DEF SitesOf

\* The policy values of two numbers, and of a number and the wildcard, differ.
LEMMA ValuesDiffer ==
  ASSUME NEW m \in 0..(Word - 1), NEW n \in 0..(Word - 1)
  PROVE  /\ PolicyValue(m) = PolicyValue(n) => m = n
         /\ PolicyValue(AnyNr) # PolicyValue(n)
<1>1. m % Word = m /\ n % Word = n /\ m >= 0 /\ n >= 0
  BY WordAssumption
<1>2. PolicyValue(m) = [hi |-> 1, lo |-> m] /\ PolicyValue(n) = [hi |-> 1, lo |-> n]
  BY <1>1, Zenon DEF PolicyValue
<1>3. PolicyValue(AnyNr) = [hi |-> 0, lo |-> 1]
  BY DEF PolicyValue, AnyNr
<1>4. [hi |-> 1, lo |-> m] = [hi |-> 1, lo |-> n] => m = n
  OBVIOUS
<1>5. [hi |-> 0, lo |-> 1] # [hi |-> 1, lo |-> n]
  OBVIOUS
<1> QED BY <1>2, <1>3, <1>4, <1>5, Zenon

\* The value that Bind gives to the site at o.
Value(o) ==
  LET f == FindSymAtAddr(syms, o)
  IN  PolicyValue(IF f # 0 /\ syms[f].name \in DOMAIN NrBindings
                  THEN NrBindings[syms[f].name] ELSE AnyNr)

Collected == sites = FirstPairs(SitesOf(elf, syms, queue), MaxSites)

\* What is collected is what is bound; a file without a table binds nothing.
BindInv ==
  /\ phase # "done" => DOMAIN policy = {}
  /\ phase = "bind" => Collected
  /\ phase = "done" => \/ visited = {} /\ DOMAIN policy = {}
                       \/ /\ Collected /\ DOMAIN policy = {h[2] : h \in sites}
                          /\ \A o \in DOMAIN policy : policy[o] = Value(o)

LEMMA BindStep == QueueInv /\ BindInv /\ [Next]_vars => BindInv'
<1> SUFFICES ASSUME QueueInv, BindInv, [Next]_vars PROVE BindInv'
  OBVIOUS
<1>1. CASE BuildSymtab
  <2>1. phase = "symtab" /\ phase' \in {"done", "seed"} /\ policy' = policy /\ visited' = visited
    BY <1>1, Zenon DEF BuildSymtab
  <2>2. visited = {} /\ DOMAIN policy = {}
    BY <2>1 DEF QueueInv, BindInv
  <2>3. phase' # "bind"
    BY <2>1
  <2> QED BY <2>1, <2>2, <2>3, Zenon DEF BindInv
<1>2. CASE Seed \/ StartSearch \/ Take \/ Follow \/ Scanned
  <2>1. phase # "done" /\ policy' = policy /\ phase' \in {"seed", "loop", "scan"}
    BY <1>2 DEF Seed, StartSearch, Take, Follow, Scanned
  <2>2. phase' # "done" /\ phase' # "bind"
    BY <2>1
  <2> QED BY <2>1, <2>2, Zenon DEF BindInv
<1>3. CASE Collect
  <2>1. /\ phase = "loop" /\ phase' = "bind" /\ policy' = policy
        /\ sites' = FirstPairs(SitesOf(elf, syms, queue), MaxSites)
        /\ elf' = elf /\ syms' = syms /\ queue' = queue
    BY <1>3, Zenon DEF Collect, input, search
  <2>2. Collected'
    BY <2>1, Zenon DEF Collected
  <2>3. DOMAIN policy = {}
    BY <2>1 DEF BindInv
  <2>4. phase' # "done"
    BY <2>1
  <2> QED BY <2>1, <2>2, <2>3, <2>4, Zenon DEF BindInv
<1>4. CASE Bind
  <2>1. /\ phase = "bind" /\ phase' = "done"
        /\ elf' = elf /\ syms' = syms /\ queue' = queue /\ sites' = sites
    BY <1>4, Zenon DEF Bind, input, search
  <2>2. policy' = [o \in {h[2] : h \in sites} |-> Value(o)]
    BY <1>4, Zenon DEF Bind, Value
  <2>3. \A o : Value(o)' = Value(o)
    BY <2>1, Zenon DEF Value
  <2>4. Collected'
    BY <2>1, Zenon DEF BindInv, Collected
  <2>5. DOMAIN policy' = {h[2] : h \in sites'} /\ \A o \in DOMAIN policy' : policy'[o] = Value(o)'
    BY <2>1, <2>2, <2>3, Zenon
  <2>6. phase' # "bind"
    BY <2>1
  <2> QED BY <2>1, <2>4, <2>5, <2>6, Zenon DEF BindInv
<1>5. CASE UNCHANGED vars
  BY <1>5, Zenon DEF vars, input, search, BindInv, Collected, Value
<1> QED BY <1>1, <1>2, <1>3, <1>4, <1>5, Zenon DEF Next

\* What the collected sites are, in terms of the file.
LEMMA CollectedExact ==
  ASSUME WellCut, TabInv, QueueInv, SizeInv, Collected, phase # "symtab"
  PROVE  /\ \A h \in sites : /\ h[2] \in Nat /\ SyscallAt(elf, h[2])
                             /\ \E f \in visited : Holds(syms[f], h[2]) /\ Holds(syms[f], h[2] + 1)
         /\ Cardinality(sites) < MaxSites =>
              \A f \in visited, o \in Nat :
                SyscallAt(elf, o) /\ Holds(syms[f], o) /\ Holds(syms[f], o + 1) =>
                  \E h \in sites : h[2] = o
<1> DEFINE S == SitesOf(elf, syms, queue)
<1>1. FileOK(elf) /\ elf \in Files /\ MaxSites \in Nat /\ syms = SymTab(elf) /\ Rows(syms)
  BY CallGraphAssumption, SymsRows, Zenon DEF TabInv
<1>2. queue \in Seq(DOMAIN syms)
  <2>1. queue \in Seq(visited) /\ visited \subseteq DOMAIN syms
    BY Zenon DEF QueueInv, SizeInv
  <2>2. PICK D : D = DOMAIN syms
    BY Zenon
  <2>3. queue \in Seq(D)
    BY <2>1, <2>2
  <2> QED BY <2>2, <2>3, Zenon
<1>3. \A k \in DOMAIN queue : queue[k] \in visited
  BY DEF QueueInv
<1>4. \A f \in visited : \E k \in DOMAIN queue : queue[k] = f
  <2>1. DOMAIN queue = 1..Len(queue)
    BY DEF QueueInv
  <2> QED BY <2>1, Zenon DEF QueueInv
<1>5. Kept(S, MaxSites, sites)
  <2>1. S \subseteq Int \X Int /\ IsFiniteSet(S)
    BY <1>1, <1>2, SitesOfFinite, Zenon
  <2> HIDE DEF S
  <2>2. Kept(S, MaxSites, FirstPairs(S, MaxSites))
    BY <1>1, <2>1, FirstPairsKept, Zenon
  <2> QED BY <2>2, Zenon DEF S, Collected
<1>6. ASSUME NEW h \in sites
      PROVE  /\ h[2] \in Nat /\ SyscallAt(elf, h[2])
             /\ \E f \in visited : Holds(syms[f], h[2]) /\ Holds(syms[f], h[2] + 1)
  <2>1. h \in SitesOf(elf, syms, queue)
    BY <1>5, Zenon DEF Kept
  <2> QED BY <1>1, <1>2, <1>3, <2>1, SitesSound, Zenon
<1>7. ASSUME Cardinality(sites) < MaxSites, NEW f \in visited, NEW o \in Nat,
             SyscallAt(elf, o), Holds(syms[f], o), Holds(syms[f], o + 1)
      PROVE  \E h \in sites : h[2] = o
  <2>1. sites = S
    <3>1. Cardinality(sites) # MaxSites
      <4>1. Cardinality(sites) \in Nat
        BY <1>5, Zenon DEF Kept
      <4> QED BY <1>1, <1>7, <4>1
    <3> QED BY <1>5, <3>1, Zenon DEF Kept
  <2>2. PICK k \in DOMAIN queue : queue[k] = f
    BY <1>4, Zenon
  <2>3. <<k, o>> \in S
    BY <1>1, <1>2, <1>7, <2>2, SitesComplete, Zenon
  <2>4. <<k, o>>[2] = o
    OBVIOUS
  <2> QED BY <2>1, <2>3, <2>4, Zenon
<1> QED BY <1>6, <1>7, Zenon

\* The whitelist of a trace is exact: it holds syscall instructions of visited
\* functions only, a number only inside a function known for that number, and,
\* unless the list is full, every such instruction.  WhitelistExact, for every
\* file in which no function runs on into another section.
THEOREM WhitelistIsExact == ASSUME WellCut PROVE Spec => []WhitelistExact
<1>1. Init => BindInv
  <2> SUFFICES ASSUME Init PROVE BindInv
    OBVIOUS
  <2>1. phase = "symtab" /\ policy = << >>
    BY Zenon DEF Init
  <2>2. DOMAIN policy = {} /\ phase # "done" /\ phase # "bind"
    BY <2>1
  <2> QED BY <2>2, Zenon DEF BindInv
<1>2. TabInv /\ QueueInv /\ SizeInv /\ BindInv => WhitelistExact
  <2> SUFFICES ASSUME TabInv, QueueInv, SizeInv, BindInv, phase = "done"
               PROVE  WhitelistExact
    BY Zenon DEF WhitelistExact
  <2>1. CASE visited = {} /\ DOMAIN policy = {}
    BY <2>1, Zenon DEF WhitelistExact
  <2>2. CASE /\ Collected /\ DOMAIN policy = {h[2] : h \in sites}
             /\ \A o \in DOMAIN policy : policy[o] = Value(o)
    <3>1. phase # "symtab"
      OBVIOUS
    <3>2. /\ \A h \in sites : /\ h[2] \in Nat /\ SyscallAt(elf, h[2])
                              /\ \E f \in visited : Holds(syms[f], h[2]) /\ Holds(syms[f], h[2] + 1)
          /\ Cardinality(sites) < MaxSites =>
               \A f \in visited, o \in Nat :
                 SyscallAt(elf, o) /\ Holds(syms[f], o) /\ Holds(syms[f], o + 1) =>
                   \E h \in sites : h[2] = o
      BY <2>2, <3>1, CollectedExact, Zenon
    <3>3. ASSUME NEW o \in DOMAIN policy, NEW x \in DOMAIN NrBindings,
                 policy[o] = PolicyValue(NrBindings[x])
          PROVE  \E f \in DOMAIN syms : /\ Holds(syms[f], o)
                                        /\ syms[f].name \in DOMAIN NrBindings
                                        /\ NrBindings[syms[f].name] = NrBindings[x]
      <4>1. o \in Nat
        BY <2>2, <3>2, Zenon
      <4>2. o \in Int
        BY <4>1
      <4>3. PICK f : f = FindSymAtAddr(syms, o) /\ (f # 0 => f \in DOMAIN syms /\ Holds(syms[f], o))
        BY <4>2, SymsRows, FindExact, Zenon
      <4>4. \A y \in DOMAIN NrBindings : NrBindings[y] \in 0..(Word - 1)
        BY CallGraphAssumption, Zenon
      <4>5. CASE f # 0 /\ syms[f].name \in DOMAIN NrBindings
        <5>1. PolicyValue(NrBindings[syms[f].name]) = PolicyValue(NrBindings[x])
          BY <2>2, <3>3, <4>3, <4>5, Zenon DEF Value
        <5>2. NrBindings[syms[f].name] = NrBindings[x]
          BY <4>4, <4>5, <5>1, ValuesDiffer, Zenon
        <5> QED BY <4>3, <4>5, <5>2, Zenon
      <4>6. CASE ~(f # 0 /\ syms[f].name \in DOMAIN NrBindings)
        <5>1. PolicyValue(AnyNr) = PolicyValue(NrBindings[x])
          BY <2>2, <3>3, <4>3, <4>6, Zenon DEF Value
        <5> QED BY <4>4, <5>1, ValuesDiffer, Zenon
      <4> QED BY <4>5, <4>6, Zenon
    <3>4. ASSUME NEW k \in DOMAIN elf.sections,
                 NEW o \in elf.sections[k].addr..(elf.sections[k].addr + Len(elf.sections[k].bytes))
          PROVE  o \in Nat
      <4> DEFINE Sec == [exec : BOOLEAN, addr : Nat, bytes : Seq(STRING)]
      <4>1. elf.sections \in Seq(Sec)
        BY CallGraphAssumption, Zenon DEF TabInv, FileOK
      <4>2. \A s \in Sec : s.addr \in Nat /\ Len(s.bytes) \in Nat
        OBVIOUS
      <4> HIDE DEF Sec
      <4>3. elf.sections[k] \in Sec
        BY <4>1
      <4>4. PICK b \in Nat, l \in Nat : b = elf.sections[k].addr /\ l = Len(elf.sections[k].bytes)
        BY <4>2, <4>3, Zenon
      <4>5. o \in b..(b + l)
        BY <4>4, Zenon
      <4> QED BY <4>5
    <3>5. \A o \in DOMAIN policy : \E h \in sites : h[2] = o
      BY <2>2, Zenon
    <3>6. \A h \in sites : h[2] \in DOMAIN policy
      BY <2>2, Zenon
    <3>7. \A o \in DOMAIN policy :
            SyscallAt(elf, o) /\ \E f \in visited : Holds(syms[f], o) /\ Holds(syms[f], o + 1)
      BY <3>2, <3>5, Zenon
    <3>8. ASSUME NEW o \in DOMAIN policy, NEW n \in {NrBindings[x] : x \in DOMAIN NrBindings},
                 policy[o] = PolicyValue(n)
          PROVE  \E f \in DOMAIN syms : /\ Holds(syms[f], o)
                                        /\ syms[f].name \in DOMAIN NrBindings
                                        /\ NrBindings[syms[f].name] = n
      <4>1. PICK x \in DOMAIN NrBindings : n = NrBindings[x]
        BY Zenon
      <4> QED BY <3>3, <3>8, <4>1, Zenon
    <3>9. ASSUME NEW f \in visited,
                 NEW o \in UNION {elf.sections[k].addr..(elf.sections[k].addr + Len(elf.sections[k].bytes)) :
                                    k \in DOMAIN elf.sections},
                 Cardinality(sites) < MaxSites,
                 SyscallAt(elf, o), Holds(syms[f], o), Holds(syms[f], o + 1)
          PROVE  o \in DOMAIN policy
      <4>1. o \in Nat
        BY <3>4, Zenon
      <4> QED BY <3>2, <3>6, <3>9, <4>1, Zenon
    <3> QED BY <3>7, <3>8, <3>9, Zenon DEF WhitelistExact
  <2> QED BY <2>1, <2>2, Zenon DEF BindInv
<1> QED BY <1>1, <1>2, TabInit, TabStep, QueueInit, QueueStep, SizeInit, SizeStep, BindStep, PTL
        DEF Spec

-----------------------------------------------------------------------------
(* The depth of the search.                                                *)

Called(e, t, X) == {g \in DOMAIN t : \E f \in X : Calls(e, t, f, g)}

\* The first n + 1 levels, as Within computes them.
Levels(e, t, S, near, n) ==
  near = [k \in 0..n |-> IF k = 0 THEN S ELSE near[k - 1] \cup Called(e, t, near[k - 1])]

LEMMA LevelsExist ==
  ASSUME NEW e, NEW t, NEW S, NEW n \in Nat
  PROVE  \E near : Levels(e, t, S, near, n)
<1> DEFINE Some(k) == \E near : Levels(e, t, S, near, k)
           Bad == {k \in Nat : ~Some(k)}
<1>1. Some(0)
  <2> DEFINE near == [k \in 0..0 |-> S]
  <2>1. \A k \in 0..0 : k = 0
    OBVIOUS
  <2>2. Levels(e, t, S, near, 0)
    BY <2>1, Zenon DEF Levels
  <2> HIDE DEF near
  <2> QED BY <2>2, Zenon
<1>2. ASSUME NEW k \in Nat, Some(k) PROVE Some(k + 1)
  <2>1. PICK f : Levels(e, t, S, f, k)
    BY <1>2, Zenon
  <2> DEFINE g == [j \in 0..(k + 1) |-> IF j = 0 THEN S ELSE f[j - 1] \cup Called(e, t, f[j - 1])]
  <2>2. \A j \in 0..(k + 1) : j # 0 => j - 1 \in 0..k /\ j - 1 \in 0..(k + 1)
    OBVIOUS
  <2>3. \A j \in 0..k : j \in 0..(k + 1)
    OBVIOUS
  <2>4. ASSUME NEW j \in 0..k PROVE g[j] = f[j]
    <3>1. f[j] = IF j = 0 THEN S ELSE f[j - 1] \cup Called(e, t, f[j - 1])
      BY <2>1, Zenon DEF Levels
    <3>2. g[j] = IF j = 0 THEN S ELSE f[j - 1] \cup Called(e, t, f[j - 1])
      BY <2>3, Zenon
    <3> QED BY <3>1, <3>2, Zenon
  <2>5. Levels(e, t, S, g, k + 1)
    <3> HIDE DEF g
    <3>1. \A j \in 0..(k + 1) : j # 0 => g[j - 1] = f[j - 1]
      BY <2>2, <2>4, Zenon
    <3> QED BY <3>1, Zenon DEF Levels, g
  <2> HIDE DEF g
  <2> QED BY <2>5, Zenon
<1> HIDE DEF Some
<1>3. Bad = {}
  <2> SUFFICES ASSUME Bad # {} PROVE FALSE
    BY Zenon
  <2>1. PICK k \in Bad : \A j \in Bad : k <= j
    <3>1. Bad \in SUBSET Nat
      BY Zenon
    <3> HIDE DEF Bad
    <3> QED BY <3>1, LeastNat, Zenon
  <2>2. k \in Nat /\ ~Some(k)
    BY <2>1, Zenon
  <2>3. k # 0
    BY <1>1, <2>2, Zenon
  <2>4. k - 1 \in Nat /\ ~(k <= k - 1) /\ (k - 1) + 1 = k
    BY <2>2, <2>3
  <2>5. Some(k - 1)
    BY <2>1, <2>4, Zenon
  <2> QED BY <1>2, <2>2, <2>4, <2>5, Zenon
<1> QED BY <1>3, Zenon DEF Some

LEMMA LevelsAgree ==
  ASSUME NEW e, NEW t, NEW S, NEW m \in Nat, NEW n \in Nat,
         NEW f, NEW g, Levels(e, t, S, f, m), Levels(e, t, S, g, n),
         NEW i \in 0..m, i \in 0..n
  PROVE  f[i] = g[i]
<1> DEFINE Bad == {k \in Nat : k <= i /\ f[k] # g[k]}
<1>1. i \in Nat
  OBVIOUS
<1>2. Bad = {}
  <2> SUFFICES ASSUME Bad # {} PROVE FALSE
    BY Zenon
  <2>1. PICK k \in Bad : \A j \in Bad : k <= j
    <3>1. Bad \in SUBSET Nat
      BY Zenon
    <3> HIDE DEF Bad
    <3> QED BY <3>1, LeastNat, Zenon
  <2>2. k \in Nat /\ k <= i /\ f[k] # g[k]
    BY <2>1, Zenon
  <2>3. k \in 0..m /\ k \in 0..n
    BY <2>2
  <2>4. /\ f[k] = IF k = 0 THEN S ELSE f[k - 1] \cup Called(e, t, f[k - 1])
        /\ g[k] = IF k = 0 THEN S ELSE g[k - 1] \cup Called(e, t, g[k - 1])
    BY <2>3, Zenon DEF Levels
  <2>5. k # 0
    BY <2>2, <2>4, Zenon
  <2>6. k - 1 \in Nat /\ ~(k <= k - 1) /\ k - 1 <= i
    BY <1>1, <2>2, <2>5
  <2>7. f[k - 1] = g[k - 1]
    BY <2>1, <2>6, Zenon
  <2> QED BY <2>2, <2>4, <2>7, Zenon
<1>3. i <= i
  BY <1>1
<1> QED BY <1>1, <1>2, <1>3, Zenon

\* Within, one call at a time.
LEMMA WithinLevels ==
  ASSUME NEW e, NEW t, NEW S
  PROVE  /\ Within(e, t, S, 0) = S
         /\ \A n \in Nat :
              Within(e, t, S, n + 1) = Within(e, t, S, n) \cup Called(e, t, Within(e, t, S, n))
<1>1. ASSUME NEW n \in Nat PROVE \E near : Levels(e, t, S, near, n) /\ Within(e, t, S, n) = near[n]
  <2>1. \E near : Levels(e, t, S, near, n)
    BY LevelsExist, Zenon
  <2> QED BY <2>1, Zenon DEF Levels, Within, Called
<1>2. Within(e, t, S, 0) = S
  <2>1. 0 \in Nat /\ 0 \in 0..0
    OBVIOUS
  <2>2. PICK f : Levels(e, t, S, f, 0) /\ Within(e, t, S, 0) = f[0]
    BY <1>1, <2>1, Zenon
  <2> QED BY <2>1, <2>2, Zenon DEF Levels
<1>3. ASSUME NEW n \in Nat
      PROVE  Within(e, t, S, n + 1) = Within(e, t, S, n) \cup Called(e, t, Within(e, t, S, n))
  <2>1. n + 1 \in Nat /\ n + 1 \in 0..(n + 1) /\ n \in 0..n /\ n \in 0..(n + 1)
        /\ n + 1 # 0 /\ (n + 1) - 1 = n
    OBVIOUS
  <2>2. PICK f : Levels(e, t, S, f, n) /\ Within(e, t, S, n) = f[n]
    BY <1>1, Zenon
  <2>3. PICK g : Levels(e, t, S, g, n + 1) /\ Within(e, t, S, n + 1) = g[n + 1]
    BY <1>1, <2>1, Zenon
  <2>4. g[n + 1] = g[n] \cup Called(e, t, g[n])
    BY <2>1, <2>3, Zenon DEF Levels
  <2>5. f[n] = g[n]
    <3>1. PICK m \in Nat : m = n + 1
      BY <2>1, Zenon
    <3>2. Levels(e, t, S, g, m) /\ n \in 0..m
      BY <2>1, <2>3, <3>1, Zenon
    <3>3. \A i \in 0..n : i \in 0..m => f[i] = g[i]
      BY <2>2, <3>2, LevelsAgree
    <3> QED BY <2>1, <3>2, <3>3, Zenon
  <2> QED BY <2>2, <2>3, <2>4, <2>5, Zenon
<1> QED BY <1>2, <1>3, Zenon

\* A resolved call of a function is a call from its body into that of another.
LEMMA CalleeCalled ==
  ASSUME TabInv, NEW f \in DOMAIN syms, NEW i \in DOMAIN callees(f), callees(f)[i] # 0
  PROVE  callees(f)[i] \in DOMAIN syms /\ Calls(elf, syms, f, callees(f)[i])
<1>0. PICK e \in Files : e = elf /\ FileOK(e)
  BY CallGraphAssumption, Zenon DEF TabInv
<1>1. PICK w : w = Window(e, syms, f)
  BY Zenon
<1>2. /\ i \in (w.from + 1)..(w.from + w.avail - CallSize + 1) /\ w.sec.bytes[i] = "e8"
      /\ callees(f)[i] = FindSymAtAddr(syms, e.target[w.sec.addr + i - 1])
  BY <1>0, <1>1, Zenon DEF callees, Callees
<1>3. CallSize = 5 /\ Rows(syms)
  BY SymsRows, Zenon DEF CallSize
<1>4. ~(w.from = 0 /\ w.avail = 0)
  BY <1>2, <1>3
<1>5. PICK k \in ExecSections(e) :
        /\ w.sec = e.sections[k] /\ w.from \in Nat /\ w.avail \in Int
        /\ e.sections[k].addr + w.from = syms[f].addr
        /\ e.sections[k].addr + w.from + w.avail <= End(e.sections[k])
        /\ w.avail <= syms[f].size
  <2>1. Clipped(e, syms[f], w)
    BY <1>0, <1>1, <1>3, WindowIs, Zenon
  <2> QED BY <1>4, <2>1, Zenon DEF Clipped
<1>6. PICK b \in Nat, l \in Nat : b = e.sections[k].addr /\ l = Len(e.sections[k].bytes)
  BY <1>0, Shapes, Zenon
<1>7. PICK from \in Nat, avail \in Int, a \in Nat, s \in Nat :
        from = w.from /\ avail = w.avail /\ a = syms[f].addr /\ s = syms[f].size
  BY <1>3, <1>5, Zenon DEF Rows
<1>8. b + from = a /\ b + from + avail <= b + l /\ avail <= s
  BY <1>5, <1>6, <1>7, Zenon DEF End
<1>9. i \in (from + 1)..(from + avail - 5 + 1)
  BY <1>2, <1>3, <1>7, Zenon
<1>10. PICK c \in Nat : c = b + i - 1
  BY <1>9
<1>11. i \in 1..(l - 5 + 1)
  BY <1>8, <1>9
<1>12. c \in DOMAIN e.target
  BY <1>2, <1>3, <1>5, <1>6, <1>10, <1>11, CallGraphAssumption, Zenon
<1>13. Holds(syms[f], c) /\ Holds(syms[f], c + CallSize - 1)
  <2>1. a <= c /\ c < a + s /\ a <= c + 5 - 1 /\ c + 5 - 1 < a + s
    BY <1>8, <1>9, <1>10
  <2> QED BY <1>3, <1>7, <2>1, Zenon DEF Holds
<1>14. ASSUME NEW x \in 0..(CallSize - 1) PROVE ByteAt(e, c + x) # "--"
  <2>1. x \in 0..(5 - 1)
    BY <1>3, Zenon
  <2>2. /\ c + x \in Int /\ b <= c + x /\ c + x < b + l
        /\ (c + x) - b + 1 \in 1..l
    BY <1>10, <1>11, <2>1
  <2>3. Spans(e.sections[k], c + x)
    BY <1>6, <2>2, Zenon DEF Spans, End
  <2>4. ByteAt(e, c + x) = e.sections[k].bytes[(c + x) - b + 1]
    BY <1>0, <1>6, <2>2, <2>3, ByteIn, Zenon
  <2>5. e.sections[k].bytes[(c + x) - b + 1] # "--"
    BY <1>6, <2>2, CallGraphAssumption, Zenon
  <2> QED BY <2>4, <2>5, Zenon
<1>15. PICK y \in Int : y = e.target[c]
  <2>1. e.target[c] \in Nat
    BY <1>12, CallGraphAssumption, Zenon
  <2>2. e.target[c] \in Int
    BY <2>1
  <2> QED BY <2>2, Zenon
<1>16. callees(f)[i] = FindSymAtAddr(syms, y)
  BY <1>2, <1>5, <1>6, <1>10, <1>15, Zenon
<1>17. callees(f)[i] \in DOMAIN syms /\ Holds(syms[callees(f)[i]], y)
  BY <1>3, <1>16, FindExact, Zenon
<1> QED BY <1>0, <1>12, <1>13, <1>14, <1>15, <1>17, Zenon DEF Calls

\* When no two functions overlap, the scan of a function sees all its calls.
LEMMA CallsFound ==
  ASSUME WellCut, TabInv, phase # "symtab", Disjoint,
         NEW f \in DOMAIN syms, NEW g \in DOMAIN syms, Calls(elf, syms, f, g)
  PROVE  \E i \in DOMAIN callees(f) : callees(f)[i] = g
<1>0. PICK e \in Files : e = elf /\ FileOK(e) /\ syms = SymTab(e)
  BY CallGraphAssumption, Zenon DEF TabInv
<1>1. CallSize = 5 /\ Rows(syms)
  BY SymsRows, Zenon DEF CallSize
<1>2. PICK c \in DOMAIN e.target :
        /\ Holds(syms[f], c) /\ Holds(syms[f], c + 5 - 1)
        /\ \A i \in 0..(5 - 1) : ByteAt(e, c + i) # "--"
        /\ Holds(syms[g], e.target[c])
  BY <1>0, <1>1, Zenon DEF Calls
<1>3. c \in Nat /\ ByteAt(e, c) = "e8" /\ e.target[c] \in Nat
  BY CallGraphAssumption, Zenon
<1>4. PICK a \in Nat, s \in Nat : a = syms[f].addr /\ s = syms[f].size
  BY <1>1, Zenon DEF Rows
<1>5. a <= c /\ c + 5 - 1 < a + s
  BY <1>2, <1>4, Zenon DEF Holds
<1>6. PICK d \in Int : d = c + 4 /\ d = c + 5 - 1
  BY <1>3
<1>7. c \in Int /\ a \in Int /\ ByteAt(e, d) # "--" /\ ByteAt(e, c) # "--"
  <2>1. c \in Int /\ a \in Int /\ 4 \in 0..(5 - 1)
    BY <1>3, <1>4
  <2>2. ByteAt(e, c) # "--"
    BY <1>3
  <2> QED BY <1>2, <1>6, <2>1, <2>2, Zenon
<1>8. ASSUME NEW x \in Int, Holds(syms[f], x), ByteAt(e, x) # "--"
      PROVE  \E k \in ExecSections(e) : Spans(e.sections[k], x) /\ Spans(e.sections[k], a)
  <2>1. PICK k \in ExecSections(e) : Spans(e.sections[k], x)
    BY <1>8, TextSpanned, Zenon
  <2>2. PICK b \in Nat, z \in Nat : b = e.sections[k].addr /\ z = End(e.sections[k])
    BY <1>0, Shapes, Zenon
  <2>3. b <= x /\ x < z
    BY <2>1, <2>2, Zenon DEF Spans
  <2>4. x \in b..(z - 1)
    BY <2>2, <2>3
  <2> QED BY <1>0, <1>4, <1>8, <2>1, <2>2, <2>4, Zenon DEF WellCut
<1>9. PICK k \in ExecSections(e) : Spans(e.sections[k], c) /\ Spans(e.sections[k], a)
  BY <1>2, <1>7, <1>8, Zenon
<1>10. PICK j \in ExecSections(e) : Spans(e.sections[j], d) /\ Spans(e.sections[j], a)
  BY <1>2, <1>6, <1>7, <1>8, Zenon
<1>11. j = k
  BY <1>0, <1>7, <1>9, <1>10, OneSection, Zenon
<1>12. PICK w : w = Window(e, syms, f)
  BY Zenon
<1>13. PICK m \in ExecSections(e) :
         /\ w.sec = e.sections[m] /\ w.from \in Nat /\ w.avail \in Int
         /\ Spans(e.sections[m], syms[f].addr)
         /\ e.sections[m].addr + w.from = syms[f].addr
         /\ w.avail = syms[f].size \/ e.sections[m].addr + w.from + w.avail = End(e.sections[m])
  <2>1. Clipped(e, syms[f], w)
    BY <1>0, <1>1, <1>12, WindowIs, Zenon
  <2> QED BY <1>4, <1>9, <2>1, Zenon DEF Clipped
<1>14. m = k
  BY <1>0, <1>4, <1>7, <1>9, <1>13, OneSection, Zenon
<1>15. PICK b \in Nat, l \in Nat, from \in Nat, avail \in Int :
         /\ b = e.sections[k].addr /\ l = Len(e.sections[k].bytes)
         /\ from = w.from /\ avail = w.avail
  BY <1>0, <1>13, Shapes, Zenon
<1>16. b + from = a /\ (avail = s \/ b + from + avail = b + l) /\ d < b + l
  BY <1>4, <1>10, <1>11, <1>13, <1>14, <1>15, Zenon DEF Spans, End
<1>17. PICK i \in Nat : i = c - b + 1 /\ b + i - 1 = c
  <2>1. c - b + 1 \in Nat /\ b + (c - b + 1) - 1 = c
    <3>1. c \in Nat /\ b <= c
      BY <1>3, <1>5, <1>16
    <3> QED BY <3>1
  <2> QED BY <2>1, Zenon
<1>18. i \in (from + 1)..(from + avail - 5 + 1)
  <2>1. /\ c \in Nat /\ a <= c /\ c + 5 - 1 < a + s /\ b + from = a
        /\ avail = s \/ b + from + avail = b + l
        /\ c + 4 < b + l /\ i = c - b + 1
    BY <1>3, <1>5, <1>6, <1>16, <1>17, Zenon
  <2> QED BY <2>1
<1>19. w.sec.bytes[i] = "e8"
  <2>1. ByteAt(e, c) = e.sections[k].bytes[c - e.sections[k].addr + 1]
    BY <1>0, <1>7, <1>9, ByteIn, Zenon
  <2> QED BY <1>3, <1>13, <1>14, <1>15, <1>17, <2>1, Zenon
<1>20. PICK y \in Int : y = e.target[c]
  <2>1. e.target[c] \in Int
    BY <1>3
  <2> QED BY <2>1, Zenon
<1>21. i \in DOMAIN callees(f) /\ callees(f)[i] = FindSymAtAddr(syms, y)
  <2>1. i \in (w.from + 1)..(w.from + w.avail - CallSize + 1)
    BY <1>1, <1>15, <1>18, Zenon
  <2>2. y = e.target[w.sec.addr + i - 1]
    BY <1>13, <1>14, <1>15, <1>17, <1>20, Zenon
  <2> QED BY <1>0, <1>12, <1>19, <2>1, <2>2, Zenon DEF callees, Callees
<1>22. PICK h : h = FindSymAtAddr(syms, y) /\ h \in DOMAIN syms /\ Holds(syms[h], y)
  <2>1. Apart(syms)
    BY Zenon DEF Disjoint, Apart
  <2>2. Holds(syms[g], y)
    BY <1>2, <1>20, Zenon
  <2> QED BY <1>1, <2>1, <2>2, FindExact, Zenon
<1>23. h = g
  <2>1. h \in Nat /\ g \in Nat
    <3>1. DOMAIN syms \subseteq Nat
      BY <1>1 DEF Rows
    <3> QED BY <1>22, <3>1, Zenon
  <2>2. PICK p \in Nat, q \in Nat, u \in Nat, v \in Nat :
          p = syms[g].addr /\ q = syms[g].size /\ u = syms[h].addr /\ v = syms[h].size
    BY <1>1, <1>22, Zenon DEF Rows
  <2>3. (h < g => u + v <= p) /\ (g < h => p + q <= u)
    BY <1>22, <2>2, Zenon DEF Disjoint
  <2>4. p <= y /\ y < p + q /\ u <= y /\ y < u + v
    BY <1>2, <1>20, <1>22, <2>2, Zenon DEF Holds
  <2> QED BY <2>1, <2>2, <2>3, <2>4
<1> QED BY <1>21, <1>22, <1>23, Zenon

Near(n) == Within(elf, syms, Seeds, n)

LEMMA NearLevels ==
  /\ Near(0) = Seeds
  /\ \A n \in Nat : Near(n + 1) = Near(n) \cup Called(elf, syms, Near(n))
<1>1. Within(elf, syms, Seeds, 0) = Seeds
  BY WithinLevels
<1>2. ASSUME NEW n \in Nat
      PROVE  Within(elf, syms, Seeds, n + 1)
               = Within(elf, syms, Seeds, n) \cup Called(elf, syms, Within(elf, syms, Seeds, n))
  BY WithinLevels
<1> QED BY <1>1, <1>2, Zenon DEF Near

\* The seeds and whatever is near them are functions of the table.
LEMMA NearIn ==
  ASSUME TabInv
  PROVE  \A n \in Nat : Near(n) \subseteq DOMAIN syms
<1> DEFINE Bad == {k \in Nat : ~(Near(k) \subseteq DOMAIN syms)}
<1>1. Near(0) = Seeds /\ \A n \in Nat : Near(n + 1) = Near(n) \cup Called(elf, syms, Near(n))
  BY NearLevels, Zenon
<1>2. Seeds \subseteq DOMAIN syms
  <2>1. Rows(syms) /\ imports \in ImportLists
    BY SymsRows, Zenon DEF TabInv
  <2>2. \A i \in DOMAIN candidates : candidates[i] \in DOMAIN syms \cup {0}
    BY <2>1, CandidateIn, Zenon DEF candidates
  <2> QED BY <2>2, Zenon DEF Seeds
<1>3. \A X : Called(elf, syms, X) \subseteq DOMAIN syms
  BY Zenon DEF Called
<1>4. Bad = {}
  <2> SUFFICES ASSUME Bad # {} PROVE FALSE
    BY Zenon
  <2>1. PICK k \in Bad : \A j \in Bad : k <= j
    <3>1. Bad \in SUBSET Nat
      BY Zenon
    <3> HIDE DEF Bad
    <3> QED BY <3>1, LeastNat, Zenon
  <2>2. k \in Nat /\ ~(Near(k) \subseteq DOMAIN syms)
    BY <2>1, Zenon
  <2>3. k # 0
    BY <1>1, <1>2, <2>2, Zenon
  <2>4. k - 1 \in Nat /\ ~(k <= k - 1) /\ (k - 1) + 1 = k
    BY <2>2, <2>3
  <2>5. Near(k - 1) \subseteq DOMAIN syms /\ Near(k) = Near(k - 1) \cup Called(elf, syms, Near(k - 1))
    BY <1>1, <2>1, <2>4, Zenon
  <2> QED BY <1>3, <2>2, <2>5, Zenon
<1> QED BY <1>4, Zenon

\* A set that holds the seeds and all its calls holds whatever is near them.
LEMMA NearClosed ==
  ASSUME WellCut, TabInv, phase # "symtab", Disjoint, NEW R \in SUBSET DOMAIN syms,
         Closed(R), Seeds \subseteq R, 0 \notin DOMAIN syms
  PROVE  \A n \in Nat : Near(n) \subseteq R
<1> DEFINE Bad == {k \in Nat : ~(Near(k) \subseteq R)}
<1>1. Near(0) = Seeds /\ \A n \in Nat : Near(n + 1) = Near(n) \cup Called(elf, syms, Near(n))
  BY NearLevels, Zenon
<1>2. ASSUME NEW X \in SUBSET R PROVE Called(elf, syms, X) \subseteq R
  <2> SUFFICES ASSUME NEW g \in DOMAIN syms, NEW f \in X, Calls(elf, syms, f, g) PROVE g \in R
    BY Zenon DEF Called
  <2>1. f \in DOMAIN syms /\ f \in R
    BY <1>2, Zenon
  <2>2. PICK i \in DOMAIN callees(f) : callees(f)[i] = g
    BY <2>1, CallsFound, Zenon
  <2>3. g \in R \cup {0}
    BY <2>1, <2>2, Zenon DEF Closed
  <2> QED BY <2>3, Zenon
<1>3. Bad = {}
  <2> SUFFICES ASSUME Bad # {} PROVE FALSE
    BY Zenon
  <2>1. PICK k \in Bad : \A j \in Bad : k <= j
    <3>1. Bad \in SUBSET Nat
      BY Zenon
    <3> HIDE DEF Bad
    <3> QED BY <3>1, LeastNat, Zenon
  <2>2. k \in Nat /\ ~(Near(k) \subseteq R)
    BY <2>1, Zenon
  <2>3. k # 0
    BY <1>1, <2>2, Zenon
  <2>4. k - 1 \in Nat /\ ~(k <= k - 1) /\ (k - 1) + 1 = k
    BY <2>2, <2>3
  <2>5. Near(k - 1) \subseteq R /\ Near(k) = Near(k - 1) \cup Called(elf, syms, Near(k - 1))
    BY <1>1, <2>1, <2>4, Zenon
  <2> QED BY <1>2, <2>2, <2>5, Zenon
<1> QED BY <1>3, Zenon

\* More calls reach no less.
LEMMA NearGrows ==
  ASSUME NEW m \in Nat, NEW n \in Nat, m <= n
  PROVE  Near(m) \subseteq Near(n)
<1> DEFINE Bad == {k \in Nat : m <= k /\ ~(Near(m) \subseteq Near(k))}
<1>1. \A k \in Nat : Near(k) \subseteq Near(k + 1)
  BY NearLevels, Zenon
<1>2. Bad = {}
  <2> SUFFICES ASSUME Bad # {} PROVE FALSE
    BY Zenon
  <2>1. PICK k \in Bad : \A j \in Bad : k <= j
    <3>1. Bad \in SUBSET Nat
      BY Zenon
    <3> HIDE DEF Bad
    <3> QED BY <3>1, LeastNat, Zenon
  <2>2. k \in Nat /\ m <= k /\ ~(Near(m) \subseteq Near(k))
    BY <2>1, Zenon
  <2>3. k # m
    BY <2>2, Zenon
  <2>4. k - 1 \in Nat /\ ~(k <= k - 1) /\ (k - 1) + 1 = k /\ m <= k - 1
    BY <2>2, <2>3
  <2>5. Near(m) \subseteq Near(k - 1) /\ Near(k - 1) \subseteq Near(k)
    BY <1>1, <2>1, <2>4, Zenon
  <2> QED BY <2>2, <2>5, Zenon
<1> QED BY <1>2, Zenon

\* A level is complete when the search counts it: the queue up to boundary holds
\* what is at most depth calls away, and nothing beyond one call more.
LevelInv ==
  /\ \A k \in 1..boundary : queue[k] \in Near(depth)
  /\ visited \subseteq Near(depth + 1)
  /\ Disjoint /\ ~Full => \A f \in Near(depth) : \E k \in 1..boundary : queue[k] = f

DepthInv ==
  /\ phase \in {"symtab", "seed"} => depth = 0 /\ visited \subseteq Seeds
  /\ phase = "scan" => head <= boundary
  /\ phase \in {"loop", "scan", "bind"} => LevelInv
  /\ phase = "bind" => head = Len(queue) \/ depth = DepthLimit

\* Steps that leave the table and the inputs alone leave the levels alone.
LEMMA NearSame ==
  ASSUME elf' = elf, imports' = imports, syms' = syms
  PROVE  /\ Seeds' = Seeds /\ (Disjoint' <=> Disjoint)
         /\ depth' = depth => Near(depth)' = Near(depth) /\ Near(depth + 1)' = Near(depth + 1)
         /\ depth' = depth + 1 => /\ Near(depth)' = Near(depth + 1)
                                  /\ Near(depth + 1)' = Near((depth + 1) + 1)
<1>1. Seeds' = Seeds /\ (Disjoint' <=> Disjoint)
  BY Zenon DEF Seeds, candidates, Disjoint
<1> HIDE DEF Seeds
<1> QED BY <1>1, Zenon DEF Near

\* What a function of the last counted level calls is one call further away.
LEMMA CalleeNear ==
  ASSUME TabInv, NEW n \in Nat, NEW f \in Near(n), NEW i \in DOMAIN callees(f), callees(f)[i] # 0
  PROVE  callees(f)[i] \in Near(n + 1)
<1>1. f \in DOMAIN syms
  BY NearIn, Zenon
<1>2. callees(f)[i] \in DOMAIN syms /\ Calls(elf, syms, f, callees(f)[i])
  BY <1>1, CalleeCalled, Zenon
<1>3. callees(f)[i] \in Called(elf, syms, Near(n))
  BY <1>2, Zenon DEF Called
<1> QED BY <1>3, NearLevels, Zenon

\* When every function of a level has been scanned, the next level is queued.
LEMMA LevelQueued ==
  ASSUME WellCut, TabInv, QueueInv, ScanInv, phase = "loop", Disjoint, ~Full,
         NEW n \in Nat, \A f \in Near(n) : \E k \in 1..head : queue[k] = f
  PROVE  Near(n + 1) \subseteq visited
<1>1. Near(n) \subseteq visited
  <2>1. \A k \in 1..head : queue[k] \in visited
    BY DEF QueueInv
  <2> QED BY <2>1, Zenon
<1>2. ASSUME NEW g \in Called(elf, syms, Near(n)) PROVE g \in visited
  <2>1. PICK f \in Near(n) : Calls(elf, syms, f, g) /\ g \in DOMAIN syms
    BY Zenon DEF Called
  <2>2. f \in DOMAIN syms
    BY NearIn, Zenon
  <2>3. phase # "symtab" /\ phase # "scan"
    OBVIOUS
  <2>4. PICK i \in DOMAIN callees(f) : callees(f)[i] = g
    BY <2>1, <2>2, <2>3, CallsFound, Zenon
  <2>5. PICK k \in 1..head : queue[k] = f
    BY Zenon
  <2>6. Tried(g)
    BY <2>3, <2>4, <2>5, Zenon DEF ScanInv
  <2>7. g # 0
    <3>1. 0 \notin DOMAIN syms
      BY SymsRows DEF Rows
    <3> QED BY <2>1, <3>1, Zenon
  <2> QED BY <2>6, <2>7, Zenon DEF Tried
<1> QED BY <1>1, <1>2, NearLevels, Zenon

\* The first level is that of the seeds.
LEMMA FirstLevel ==
  ASSUME QueueInv, SeedInv, DepthInv, StartSearch
  PROVE  LevelInv'
<1>1. /\ phase = "seed" /\ unseeded = {} /\ elf' = elf /\ imports' = imports /\ syms' = syms
      /\ queue' = queue /\ visited' = visited /\ depth' = depth /\ boundary' = Len(queue)
  BY Zenon DEF StartSearch, input
<1>2. depth = 0 /\ visited \subseteq Seeds
  BY <1>1, Zenon DEF DepthInv
<1>3. Near(0) = Seeds /\ Near(0) \subseteq Near(0 + 1)
  <2>1. 0 \in Nat
    OBVIOUS
  <2> QED BY <2>1, NearLevels, Zenon
<1>4. Near(depth)' = Seeds /\ Seeds \subseteq Near(depth + 1)' /\ (Disjoint' <=> Disjoint)
  BY <1>1, <1>2, <1>3, NearSame, Zenon
<1>5. \A k \in 1..Len(queue) : queue[k] \in visited
  BY DEF QueueInv
<1>6. ASSUME ~Full PROVE Seeds \subseteq visited
  <2>1. \A i \in DOMAIN candidates : Tried(candidates[i])
    BY <1>1, Zenon DEF SeedInv
  <2> QED BY <1>6, <2>1, Zenon DEF Seeds, Tried
<1>7. ~Full => \A f \in Seeds : \E k \in 1..Len(queue) : queue[k] = f
  BY <1>6, Zenon DEF QueueInv
<1>8. Full' <=> Full
  BY <1>1, Zenon DEF Full
<1> QED BY <1>1, <1>2, <1>4, <1>5, <1>7, <1>8, Zenon DEF LevelInv

\* A level is counted when the first function beyond it is taken.
LEMMA NextLevel ==
  ASSUME WellCut, TabInv, QueueInv, SizeInv, ScanInv, LevelInv, Take
  PROVE  LevelInv' /\ head' <= boundary'
<1>1. /\ phase = "loop" /\ elf' = elf /\ imports' = imports /\ syms' = syms
      /\ queue' = queue /\ visited' = visited /\ head' = head + 1 /\ head < Len(queue)
      /\ AdvanceDepth
  BY Zenon DEF Take, MoreWork, input
<1>2. (Full' <=> Full) /\ (Disjoint' <=> Disjoint)
  BY <1>1, NearSame, Zenon DEF Full
<1>3. /\ head \in Nat /\ Len(queue) \in Nat /\ boundary \in Nat /\ depth \in Nat
      /\ \A k \in 1..Len(queue) : queue[k] \in visited
  <2>1. DepthLimit \in Nat
    BY CallGraphAssumption, Zenon
  <2>2. Len(queue) \in Nat /\ \A k \in 1..Len(queue) : queue[k] \in visited
    BY DEF QueueInv
  <2>3. head \in 0..Len(queue) /\ boundary \in 0..Len(queue) /\ depth \in 0..DepthLimit
    BY Zenon DEF QueueInv, SizeInv
  <2> QED BY <2>1, <2>2, <2>3
<1>4. CASE head + 1 > boundary
  <2>1. depth' = depth + 1 /\ boundary' = Len(queue)
    BY <1>1, <1>4, Zenon DEF AdvanceDepth
  <2>2. Near(depth)' = Near(depth + 1) /\ Near(depth + 1)' = Near((depth + 1) + 1)
    BY <1>1, <2>1, NearSame, Zenon
  <2>3. depth + 1 \in Nat /\ head + 1 <= Len(queue) /\ \A k \in 1..boundary : k \in 1..head
    BY <1>1, <1>3, <1>4
  <2>4. Near(depth + 1) \subseteq Near((depth + 1) + 1)
    BY <2>3, NearLevels, Zenon
  <2>5. ASSUME Disjoint, ~Full, NEW f \in Near(depth + 1)
        PROVE  \E k \in 1..Len(queue) : queue[k] = f
    <3>1. \A g \in Near(depth) : \E k \in 1..head : queue[k] = g
      BY <2>3, <2>5, Zenon DEF LevelInv
    <3>2. PICK d \in Nat : d = depth
      BY <1>3, Zenon
    <3>3. Near(d + 1) \subseteq visited
      BY <1>1, <2>5, <3>1, <3>2, LevelQueued, Zenon
    <3> QED BY <3>2, <3>3, Zenon DEF QueueInv
  <2>6. visited \subseteq Near(depth + 1)
    BY Zenon DEF LevelInv
  <2>7. /\ \A k \in 1..boundary' : queue'[k] \in Near(depth)'
        /\ visited' \subseteq Near(depth + 1)'
        /\ Disjoint' /\ ~Full' => \A f \in Near(depth)' : \E k \in 1..boundary' : queue'[k] = f
    BY <1>1, <1>2, <1>3, <2>1, <2>2, <2>4, <2>5, <2>6, Zenon
  <2> QED BY <1>1, <2>1, <2>3, <2>7, Zenon DEF LevelInv
<1>5. CASE ~(head + 1 > boundary)
  <2>1. depth' = depth /\ boundary' = boundary
    BY <1>1, <1>5, Zenon DEF AdvanceDepth
  <2>2. Near(depth)' = Near(depth) /\ Near(depth + 1)' = Near(depth + 1)
    BY <1>1, <2>1, NearSame, Zenon
  <2>3. head + 1 <= boundary
    BY <1>3, <1>5
  <2> QED BY <1>1, <1>2, <2>1, <2>2, <2>3, Zenon DEF LevelInv
<1> QED BY <1>4, <1>5, Zenon

\* What the scan of a counted function adds to the queue is one call further.
LEMMA FollowLevel ==
  ASSUME TabInv, QueueInv, SizeInv, LevelInv, head <= boundary, Follow
  PROVE  LevelInv'
<1>1. PICK i \in pending : Enqueue(callees(queue[head])[i])
  BY Zenon DEF Follow
<1>2. /\ phase = "scan" /\ elf' = elf /\ imports' = imports /\ syms' = syms
      /\ depth' = depth /\ boundary' = boundary
  BY Zenon DEF Follow, input
<1>3. PICK f, g : f = queue[head] /\ g = callees(f)[i] /\ Enqueue(g)
  BY <1>1, Zenon
<1>4. i \in DOMAIN callees(f) /\ head \in 1..Len(queue)
  BY <1>2, <1>3, Zenon DEF QueueInv
<1>5. /\ Len(queue) \in Nat /\ boundary \in 0..Len(queue) /\ depth \in Nat
  <2>1. DepthLimit \in Nat
    BY CallGraphAssumption, Zenon
  <2>2. Len(queue) \in Nat
    BY DEF QueueInv
  <2>3. boundary \in 0..Len(queue) /\ depth \in 0..DepthLimit
    BY Zenon DEF SizeInv
  <2> QED BY <2>1, <2>2, <2>3
<1>6. head \in 1..boundary /\ \A k \in 1..boundary : k \in 1..Len(queue)
  BY <1>4, <1>5
<1>7. f \in Near(depth)
  BY <1>3, <1>6, Zenon DEF LevelInv
<1>8. g # 0 => g \in Near(depth + 1)
  <2>1. PICK d \in Nat : d = depth
    BY <1>5, Zenon
  <2> QED BY <1>3, <1>4, <1>7, <2>1, CalleeNear, Zenon
<1>9. visited' \subseteq Near(depth + 1)
  <2>1. visited' = visited \/ (g # 0 /\ visited' = visited \cup {g})
    BY <1>3, Zenon DEF Enqueue
  <2>2. visited \subseteq Near(depth + 1)
    BY Zenon DEF LevelInv
  <2> QED BY <1>8, <2>1, <2>2, Zenon
<1>10. \A k \in 1..Len(queue) : queue'[k] = queue[k]
  BY <1>3, EnqueueQueue, Zenon DEF QueueInv
<1>11. \A k \in 1..boundary : queue'[k] = queue[k]
  BY <1>6, <1>10, Zenon
<1>12. ~Full' => ~Full
  <2>1. Len(queue) \in Nat /\ Len(queue') \in Nat /\ Len(queue) <= Len(queue')
    BY <1>3, EnqueueQueue, Zenon DEF QueueInv
  <2>2. MaxReachable \in Nat
    BY CallGraphAssumption, Zenon
  <2> QED BY <2>1, <2>2 DEF Full
<1>13. Near(depth)' = Near(depth) /\ Near(depth + 1)' = Near(depth + 1) /\ (Disjoint' <=> Disjoint)
  BY <1>2, NearSame, Zenon
<1>14. /\ \A k \in 1..boundary' : queue'[k] \in Near(depth)'
       /\ visited' \subseteq Near(depth + 1)'
  BY <1>2, <1>9, <1>11, <1>13, Zenon DEF LevelInv
<1>15. Disjoint' /\ ~Full' => \A x \in Near(depth)' : \E k \in 1..boundary' : queue'[k] = x
  BY <1>2, <1>11, <1>12, <1>13, Zenon DEF LevelInv
<1> QED BY <1>14, <1>15, Zenon DEF LevelInv

LEMMA DepthStep ==
  ASSUME WellCut, TabInv, QueueInv, SizeInv, ScanInv, SeedInv, DepthInv, [Next]_vars
  PROVE  DepthInv'
<1>1. CASE BuildSymtab
  <2>1. /\ phase = "symtab" /\ phase' \in {"done", "seed"} /\ visited' = visited /\ depth' = depth
    BY <1>1, Zenon DEF BuildSymtab
  <2>2. visited' = {} /\ depth' = 0
    BY <2>1 DEF QueueInv, DepthInv
  <2>3. phase' \notin {"loop", "scan", "bind"} /\ phase' # "scan" /\ phase' # "bind"
    BY <2>1
  <2> QED BY <2>2, <2>3, Zenon DEF DepthInv
<1>2. CASE Seed
  <2>1. PICK i \in unseeded : Enqueue(candidates[i])
    BY <1>2, Zenon DEF Seed
  <2>2. /\ phase = "seed" /\ phase' = "seed" /\ depth' = depth
        /\ elf' = elf /\ imports' = imports /\ syms' = syms
    BY <1>2, Zenon DEF Seed, input
  <2>3. PICK f : f = candidates[i] /\ Enqueue(f) /\ (f # 0 => f \in Seeds)
    <3>1. i \in DOMAIN candidates
      BY <2>1, <2>2, Zenon DEF QueueInv
    <3> QED BY <2>1, <3>1, Zenon DEF Seeds
  <2>4. visited' = visited \/ (f # 0 /\ visited' = visited \cup {f})
    BY <2>3, Zenon DEF Enqueue
  <2>5. depth = 0 /\ visited \subseteq Seeds /\ Seeds' = Seeds
    BY <2>2, NearSame, Zenon DEF DepthInv
  <2>6. visited' \subseteq Seeds' /\ depth' = 0
    BY <2>2, <2>3, <2>4, <2>5, Zenon
  <2>7. phase' \notin {"loop", "scan", "bind"} /\ phase' # "scan" /\ phase' # "bind"
    BY <2>2
  <2> QED BY <2>6, <2>7, Zenon DEF DepthInv
<1>3. CASE StartSearch
  <2>1. phase' = "loop"
    BY <1>3, Zenon DEF StartSearch
  <2>2. phase' \notin {"symtab", "seed"} /\ phase' # "scan" /\ phase' # "bind"
    BY <2>1
  <2>3. LevelInv'
    BY <1>3, FirstLevel, Zenon
  <2> QED BY <2>2, <2>3, Zenon DEF DepthInv
<1>4. CASE Take
  <2>1. phase = "loop" /\ phase' = "scan"
    BY <1>4, Zenon DEF Take
  <2>2. phase' \notin {"symtab", "seed"} /\ phase' # "bind"
    BY <2>1
  <2>3. LevelInv' /\ head' <= boundary'
    BY <1>4, <2>1, NextLevel, Zenon DEF DepthInv
  <2> QED BY <2>2, <2>3, Zenon DEF DepthInv
<1>5. CASE Follow
  <2>1. phase = "scan" /\ phase' = "scan" /\ head' = head /\ boundary' = boundary
    BY <1>5, Zenon DEF Follow
  <2>2. phase' \notin {"symtab", "seed"} /\ phase' # "bind"
    BY <2>1
  <2>3. LevelInv' /\ head <= boundary
    BY <1>5, <2>1, FollowLevel, Zenon DEF DepthInv
  <2> QED BY <2>1, <2>2, <2>3, Zenon DEF DepthInv
<1>6. ASSUME elf' = elf, imports' = imports, syms' = syms, queue' = queue, visited' = visited,
             depth' = depth, boundary' = boundary, LevelInv
      PROVE  LevelInv'
  <2>1. /\ Near(depth)' = Near(depth) /\ Near(depth + 1)' = Near(depth + 1)
        /\ Disjoint' <=> Disjoint
    BY <1>6, NearSame, Zenon
  <2>2. Full' <=> Full
    BY <1>6, Zenon DEF Full
  <2> QED BY <1>6, <2>1, <2>2, Zenon DEF LevelInv
<1>7. CASE Scanned
  <2>1. phase = "scan" /\ phase' = "loop"
    BY <1>7, Zenon DEF Scanned
  <2>2. /\ elf' = elf /\ imports' = imports /\ syms' = syms /\ queue' = queue /\ visited' = visited
        /\ depth' = depth /\ boundary' = boundary
    BY <1>7, Zenon DEF Scanned, input, search
  <2>3. phase' \notin {"symtab", "seed"} /\ phase' # "bind" /\ phase' # "scan"
    BY <2>1
  <2>4. LevelInv'
    BY <1>6, <2>1, <2>2, Zenon DEF DepthInv
  <2> QED BY <2>3, <2>4, Zenon DEF DepthInv
<1>8. CASE Collect
  <2>1. phase = "loop" /\ phase' = "bind" /\ ~MoreWork
    BY <1>8, Zenon DEF Collect
  <2>2. /\ elf' = elf /\ imports' = imports /\ syms' = syms /\ queue' = queue /\ visited' = visited
        /\ depth' = depth /\ boundary' = boundary /\ head' = head
    BY <1>8, Zenon DEF Collect, input, search
  <2>3. phase' \notin {"symtab", "seed"} /\ phase' # "scan"
    BY <2>1
  <2>4. LevelInv'
    BY <1>6, <2>1, <2>2, Zenon DEF DepthInv
  <2>5. head = Len(queue) \/ depth = DepthLimit
    <3>1. DepthLimit \in Nat
      BY CallGraphAssumption, Zenon
    <3>2. PICK n \in Nat : n = Len(queue)
      BY DEF QueueInv
    <3>3. head \in 0..n /\ depth \in 0..DepthLimit
      BY <3>2, Zenon DEF QueueInv, SizeInv
    <3>4. ~(head < n /\ depth < DepthLimit)
      BY <2>1, <3>2, Zenon DEF MoreWork
    <3>5. head = n \/ depth = DepthLimit
      BY <3>1, <3>3, <3>4
    <3> QED BY <3>2, <3>5, Zenon
  <2> QED BY <2>2, <2>3, <2>4, <2>5, Zenon DEF DepthInv
<1>9. CASE Bind
  <2>1. phase' = "done"
    BY <1>9, Zenon DEF Bind
  <2>2. /\ phase' \notin {"symtab", "seed"} /\ phase' # "scan" /\ phase' # "bind"
        /\ phase' \notin {"loop", "scan", "bind"}
    BY <2>1
  <2> QED BY <2>2, Zenon DEF DepthInv
<1>10. CASE UNCHANGED vars
  <2>1. /\ elf' = elf /\ imports' = imports /\ syms' = syms /\ queue' = queue /\ visited' = visited
        /\ depth' = depth /\ boundary' = boundary /\ head' = head /\ phase' = phase
    BY <1>10, Zenon DEF vars, input, search
  <2>2. Seeds' = Seeds
    BY <2>1, NearSame, Zenon
  <2>3. LevelInv => LevelInv'
    BY <1>6, <2>1, Zenon
  <2> QED BY <2>1, <2>2, <2>3, Zenon DEF DepthInv
<1> QED BY <1>1, <1>2, <1>3, <1>4, <1>5, <1>7, <1>8, <1>9, <1>10, Zenon DEF Next

\* The depth limit of trace_libc_callgraph cuts where it says: with room in the
\* queue and functions that do not overlap, what is within DepthLimit calls of a
\* seed is visited, and nothing more than one call further away.  WithinDepth,
\* for every file in which no function runs on into another section.
THEOREM DepthExact == ASSUME WellCut PROVE Spec => []WithinDepth
<1>1. Init => DepthInv /\ ScanInv /\ SeedInv
  <2> SUFFICES ASSUME Init PROVE DepthInv /\ ScanInv /\ SeedInv
    OBVIOUS
  <2>1. phase = "symtab" /\ visited = {} /\ depth = 0 /\ head = 0
    BY Zenon DEF Init
  <2>2. /\ phase \notin {"loop", "scan", "bind"} /\ phase # "scan" /\ phase # "bind"
        /\ phase \notin {"seed", "loop", "scan", "bind"} /\ 1..0 = {}
    BY <2>1
  <2> QED BY <2>1, <2>2, Zenon DEF DepthInv, ScanInv, SeedInv
<1>2. TabInv /\ QueueInv /\ SizeInv /\ CompleteSearch /\ DepthInv => WithinDepth
  <2> SUFFICES ASSUME TabInv, QueueInv, SizeInv, CompleteSearch, DepthInv,
                      phase = "bind", ~Full, Disjoint
               PROVE  Near(DepthLimit) \subseteq visited /\ visited \subseteq Near(DepthLimit + 1)
    BY Zenon DEF WithinDepth, Near
  <2>1. LevelInv /\ (head = Len(queue) \/ depth = DepthLimit)
    BY Zenon DEF DepthInv
  <2>2. DepthLimit \in Nat /\ depth \in 0..DepthLimit /\ boundary \in 0..Len(queue)
    BY CallGraphAssumption, Zenon DEF SizeInv
  <2>3. \A k \in 1..boundary : queue[k] \in visited
    BY <2>2 DEF QueueInv
  <2>4. CASE depth = DepthLimit
    BY <2>1, <2>3, <2>4, Zenon DEF LevelInv
  <2>5. CASE head = Len(queue)
    <3>1. Closed(visited) /\ Seeds \subseteq visited
      BY <2>5, Zenon DEF CompleteSearch
    <3>2. phase # "symtab" /\ 0 \notin DOMAIN syms
      BY SymsRows DEF Rows
    <3>3. visited \in SUBSET DOMAIN syms
      BY Zenon DEF SizeInv
    <3>4. Near(DepthLimit) \subseteq visited
      BY <2>2, <3>1, <3>2, <3>3, NearClosed, Zenon
    <3>5. depth + 1 \in Nat /\ DepthLimit + 1 \in Nat /\ depth + 1 <= DepthLimit + 1
      BY <2>2
    <3>6. PICK m \in Nat, n \in Nat : m = depth + 1 /\ n = DepthLimit + 1 /\ m <= n
      BY <3>5, Zenon
    <3>7. Near(m) \subseteq Near(n)
      BY <3>6, NearGrows, Zenon
    <3> QED BY <2>1, <3>4, <3>6, <3>7, Zenon DEF LevelInv
  <2> QED BY <2>1, <2>4, <2>5, Zenon
<1>3. TabInv /\ QueueInv /\ SizeInv /\ ScanInv /\ SeedInv /\ DepthInv /\ [Next]_vars => DepthInv'
  BY DepthStep, Zenon
<1> QED BY <1>1, <1>2, <1>3, TabInit, TabStep, QueueInit, QueueStep, SizeInit, SizeStep,
           ScanStep, SeedStep, SearchComplete, PTL DEF Spec

=============================================================================
