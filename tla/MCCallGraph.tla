---------------------------- MODULE MCCallGraph ----------------------------
(* CallGraph on a libc of five functions, with every choice of call targets. *)
EXTENDS CallGraph, TLC

ASSUME InstanceSound == WellCut

Jump == <<"e8", "..", "..", "..", "..">>
Trap == <<"0f", "05">>

\* write, __write and helper end in a syscall; exit is one; short ends within
\* the operand of a call.  The bytes 0f 05 of the data section do not count.
Text == Jump \o Trap \o Jump \o Trap \o Jump \o Jump \o Trap \o Trap \o <<"e8", "..", "0f", "05">>
Sections == << [exec |-> FALSE, addr |-> 60, bytes |-> Trap],
               [exec |-> TRUE, addr |-> 1, bytes |-> Text] >>

Symbol(n, a, s) == [name |-> n, func |-> TRUE, addr |-> a, size |-> s]

DisjointSyms ==
  << Symbol("helper", 15, 12), [name |-> "table", func |-> FALSE, addr |-> 60, size |-> 2],
     Symbol("write", 1, 7), Symbol("undefined", 0, 0), Symbol("__libc_write", 1, 7),
     Symbol("__write", 8, 7), Symbol("exit", 27, 2), Symbol("short", 29, 4) >>

\* helper has no size and its default window reaches over exit; write encloses
\* __write.
OverlappingSyms ==
  << Symbol("helper", 15, 0), Symbol("write", 1, 14), Symbol("__write", 8, 7),
     Symbol("exit", 27, 0), Symbol("short", 29, 4) >>

CallSites == {1, 8, 15, 20}
Targets   == {1, 14, 15, 28, 90}

AllFiles ==
  {[sections |-> Sections, symbols |-> syms0, target |-> t @@ (29 :> 1)] :
     syms0 \in {DisjointSyms, OverlappingSyms}, t \in [CallSites -> Targets]}

SomeImports == {<<"write", "short">>, <<"open", "helper">>}
SomeVariants == [n \in {"write", "short", "open", "helper"} |->
                   IF n = "write" THEN {"write", "__write"} ELSE {}]
NoSeeds     == << "missing" >>
SomeNumbers == [write |-> 1, __write |-> 1, exit |-> 60]

=============================================================================
