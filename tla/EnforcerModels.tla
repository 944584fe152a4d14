-------------------------- MODULE EnforcerModels --------------------------
(* Small instances of Enforcer: 64 addresses in blocks of 4.               *)
EXTENDS Enforcer, TLC

Region(lo, size) == [lo |-> lo, hi |-> lo + size]

\* Each search string matches its own module only.
ExactMatching == [m \in Modules |-> {m}]

\* A binary linked at address 6, over a block boundary; its site 9 sits in
\* do_write and may only be reached from safe_caller.
ExecDeclared == << [site |-> 7, nr |-> 1], [site |-> 0, nr |-> AnyNr],
                   [site |-> 8, nr |-> AnyNr], [site |-> 9, nr |-> 0] >>
ExecDoWrite    == [addr |-> 9, size |-> 1]
ExecSafeCaller == [addr |-> 7, size |-> 1]
NoSymbol       == [addr |-> 0, size |-> 0]

Text(addr, bytes) == [exec |-> TRUE, addr |-> addr, bytes |-> bytes]
Symbol(n, a, s)   == [name |-> n, func |-> TRUE, addr |-> a, size |-> s]

\* A file with one syscall instruction, at 1.
OneSite == [sections |-> <<Text(1, <<"0f", "05">>)>>, symbols |-> << >>]

\* libc: write, read with an alias, a trampoline, a site outside any wrapper,
\* and the same bytes in a data section.
Libc ==
  [sections |-> << Text(1, <<"0f", "05", "0f", "05">>),
                   [exec |-> FALSE, addr |-> 9, bytes |-> <<"0f", "05">>],
                   Text(5, <<"0f", "05", "0f", "05">>) >>,
   symbols  |-> << Symbol("read", 0, 0), Symbol("__read", 3, 2), Symbol("write", 1, 2),
                   Symbol("__syscall_cancel_arch", 5, 2), Symbol("read", 3, 2) >>]
Files == [m \in Modules |-> IF m = "libc" THEN Libc ELSE OneSite]

\* Placements in which no two modules share a block, in several orders.
ExecPlaced(libc, ld, a, late) ==
  [m \in Modules |->
     CASE m = "main" -> Region(6, 4) [] m = "libc" -> Region(libc, 11)
       [] m = "ld" -> Region(ld, 3) [] m = "liba" -> Region(a, 3)
       [] OTHER -> Region(late, 3)]
ApartLayouts ==
  {ExecPlaced(24, 36, 40, 52), ExecPlaced(49, 34, 40, 20),
   ExecPlaced(33, 44, 21, 56), ExecPlaced(14, 56, 28, 40)}

\* A position independent binary with one site and .sentinel_cfi.
PieDeclared == << [site |-> 1, nr |-> 1] >>
PieCfi      == << [site |-> 0, func |-> 0, size |-> 0],
                  [site |-> 1, func |-> 1, size |-> 0] >>

\* libc with a wrapper of unknown size at the end of a section, and one more
\* site than the scan keeps.
ShortLibc ==
  [sections |-> <<Text(1, <<"0f", "05">>), Text(3, <<"0f", "05">>)>>,
   symbols  |-> <<Symbol("write", 1, 0)>>]
PieFiles == [m \in Modules |-> IF m = "libc" THEN ShortLibc ELSE OneSite]

\* Modules of five addresses at any distinct positions: neighbours share
\* blocks of four.
Slots == {3, 8, 13, 18, 23}
PackedLayouts ==
  {[m \in Modules |-> Region(at[m], 5)] :
     at \in {f \in [Modules -> Slots] : \A m, n \in Modules : m # n => f[m] # f[n]}}

NoEntries == << >>

\* The threads of the child are interchangeable.
Siblings == Permutations(Child)

FewAddrs    == {9, 27}
FewCallers  == {8, NoStack}
ExecCallers == {6, 8, 30, NoStack}
PieCallers  == {4, 10, NoStack}

=============================================================================
