-------------------------- MODULE MCPolicySection --------------------------
(* PolicySection for three units of up to three instructions.              *)
EXTENDS PolicySection

Out(code)        == [dir |-> "out", indirect |-> FALSE, code |-> code, const |-> FALSE, val |-> 0]
OutPtr(code)     == [dir |-> "out", indirect |-> TRUE, code |-> code, const |-> FALSE, val |-> 0]
Const(code, val) == [dir |-> "in", indirect |-> FALSE, code |-> code, const |-> TRUE, val |-> val]
Value(code)      == [dir |-> "in", indirect |-> FALSE, code |-> code, const |-> FALSE, val |-> 0]

Asm(text, ops) == [kind |-> "asm", text |-> text, ops |-> ops]
Call(f)        == [kind |-> "call", callee |-> f]
Pointer        == [kind |-> "indirect"]

\* A unit without syscalls, plain assembly, operands behind an indirect output,
\* a tied operand, a number that is not constant and one that is negative.
SomeBodies ==
  {<< Call("helper"), Pointer, Asm("nop", << >>) >>,
   << Asm("syscall", <<Out("a"), Const("a", 0), Value("D")>>), Call("write"), Call("printf") >>,
   << Asm(".byte 15,5", <<OutPtr("m"), Const("{rax}", 257), Const("D", 2)>>), Pointer,
      Asm("syscall", <<Out("a"), Const("0", 39)>>) >>,
   << Asm("int $$0x80", <<Out("a"), Const("D", 5), Value("a")>>),
      Asm("syscall", <<OutPtr("m"), OutPtr("m"), Const("D", 7), Const("{eax}", -3)>>) >>}

\* Whole, cut inside an entry, inside a header and by a block, padded by less
\* and by more than a header.
SomeTails == {0, -1, -30, -33, 4, 33}

\* docs/ARCHITECTURE.md: the loader extracts the .llvm.syscall.bounds metadata.
LoaderExtracts ==
  (pc = "args" /\ tail = 0) =>
    [k \in DOMAIN LoaderEntries |->
       [site |-> LoaderEntries[k].site, nr |-> DecodedNr(LoaderEntries[k].enc)]]
      = SelectSeq(Declared, LAMBDA d : d.site # NullSite)

=============================================================================
