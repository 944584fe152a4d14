---------------------------- MODULE PolicyCodec ----------------------------
(***************************************************************************)
(* How a syscall number travels from the compiler pass through the policy  *)
(* section and the loader into the value the BPF program tests.  A 64-bit  *)
(* policy value is represented by its two 32-bit halves.                   *)
(***************************************************************************)
EXTENDS Integers

CONSTANT Word  \* 2^32, the number of values of a u32

ASSUME WordAssumption == Word \in Nat /\ Word > 1

\* The pass could not tell which syscall the site makes (SyscallNr = -1).
AnyNr == -1

\* What the compiler can declare of a site.
DeclaredNrs == {AnyNr} \cup 0..(Word - 1)

\* SentinelPass.cpp: 0 = any, > 0 = nr + 1
EncodedNr(nr) == IF nr >= 0 THEN nr + 1 ELSE 0

\* Mutant: the test for "any" includes the encoding of syscall 0.
DecodedNrOffByOne(enc) == IF enc > 1 THEN enc - 1 ELSE AnyNr

\* loader.c, parse_sentinel_section
DecodedNr(enc) == IF enc > 0 THEN enc - 1 ELSE AnyNr

\* loader.c: POLICY_FLAG_CHECK_NR | (uint32_t) nr, or 1 for the wildcard
PolicyValue(nr) ==
  IF nr >= 0 THEN [hi |-> 1, lo |-> nr % Word] ELSE [hi |-> 0, lo |-> 1]

\* sentinel.bpf.c: policy_val & POLICY_FLAG_CHECK_NR tests the lowest bit of
\* the upper half, and expected_nr is the lower half.
NrPermitted(val, nr) == val.hi % 2 = 1 => val.lo = nr

=============================================================================
