--------------------------- MODULE SectionProofs ---------------------------
(***************************************************************************)
(* The policy section, for every program, every number of units and every  *)
(* link order: the numbers the pass declares, and that sentinel_dump shows *)
(* the declared entries, in order and separated.                           *)
(***************************************************************************)
EXTENDS PolicySection, RankProofs

\* One time limit for the SMT solver on every leaf.
USE SMTT(30)

-----------------------------------------------------------------------------
(* The numbers of the pass.                                                *)

\* The number a reader of the section sees for a resolved one.
Resolved(nr) == IF nr >= 0 THEN nr ELSE AnyNr

\* argIdx when the loop reaches an argument is the place of that argument.
LEMMA ArgumentPlace ==
  ASSUME NEW ops \in Seq(Operands)
  PROVE  /\ Len(Arguments(ops)) \in Nat
         /\ Arguments(ops) \in [1..Len(Arguments(ops)) -> DOMAIN ops]
         /\ \A k \in DOMAIN ops : IsArg(ops[k]) =>
              /\ ArgIdx(ops, k) \in Nat /\ ArgIdx(ops, k) < Len(Arguments(ops))
              /\ Arguments(ops)[ArgIdx(ops, k) + 1] = k
<1> DEFINE A == {k \in DOMAIN ops : IsArg(ops[k])}
           n == Cardinality(A)
           list == Ranked(A)
<1>1. DOMAIN ops = 1..Len(ops) /\ Len(ops) \in Nat
  OBVIOUS
<1>2. IsFiniteSet(A) /\ A \subseteq Int
  <2>1. IsFiniteSet(1..Len(ops))
    BY <1>1, FS_Interval
  <2>2. A \subseteq 1..Len(ops)
    BY <1>1, Zenon
  <2>3. 1..Len(ops) \subseteq Int
    BY <1>1
  <2> QED BY <2>1, <2>2, <2>3, FS_Subset, Zenon
<1>3. Enumerates(A, Below(A), list)
  <2> HIDE DEF A
  <2> QED BY <1>2, RankedListed, Zenon
<1>4. n \in Nat /\ list \in [1..n -> A]
  <2> HIDE DEF A, list
  <2> QED BY <1>3, Zenon DEF Enumerates
<1>5. Arguments(ops) = list
  BY Zenon DEF Arguments
<1>6. Len(list) = n
  <2> HIDE DEF A, list
  <2> QED BY <1>4
<1>7. ASSUME NEW k \in DOMAIN ops, IsArg(ops[k])
      PROVE  ArgIdx(ops, k) = Cardinality(Below(A)[k])
  <2>1. k \in A
    BY <1>7, Zenon
  <2>2. {j \in 1..(k - 1) : IsArg(ops[j])} = {j \in A : j < k}
    BY <1>1
  <2> QED BY <2>1, <2>2, Zenon DEF Below, ArgIdx
<1>8. ASSUME NEW k \in DOMAIN ops, IsArg(ops[k])
      PROVE  /\ ArgIdx(ops, k) \in Nat /\ ArgIdx(ops, k) < n
             /\ list[ArgIdx(ops, k) + 1] = k
  <2>1. k \in A
    BY <1>8, Zenon
  <2>2. Cardinality(Below(A)[k]) + 1 \in 1..n /\ list[Cardinality(Below(A)[k]) + 1] = k
    <3> HIDE DEF A, list
    <3> QED BY <1>3, <2>1, Zenon DEF Enumerates
  <2>3. Cardinality(Below(A)[k]) \in Nat
    <3>1. IsFiniteSet(Below(A)[k])
      <4>1. Below(A)[k] \subseteq A
        BY <2>1, Zenon DEF Below
      <4> QED BY <1>2, <4>1, FS_Subset, Zenon
    <3> QED BY <3>1, FS_CardinalityType, Zenon
  <2> QED BY <1>4, <1>7, <1>8, <2>2, <2>3
<1> QED BY <1>4, <1>5, <1>6, <1>8, Zenon

\* extractSyscallNumberFromAsm returns the constant in RAX.
LEMMA AsmNrIs ==
  ASSUME NEW ops \in Seq(Operands), \A i, j \in InRax(ops) : i = j
  PROVE  /\ AsmNr(ops) \in Int
         /\ \A k \in InRax(ops) :
              IF ops[k].code \in RaxCodes /\ ops[k].const THEN AsmNr(ops) = ops[k].val
                                                          ELSE AsmNr(ops) = AnyNr
<1> DEFINE R == {j \in DOMAIN ops : ops[j].dir = "in" /\ ops[j].code \in RaxCodes}
           k == Lowest(R)
           arg == ops[Arguments(ops)[ArgIdx(ops, k) + 1]]
<1>1. DOMAIN ops = 1..Len(ops) /\ Len(ops) \in Nat /\ \A j \in DOMAIN ops : ops[j] \in Operands
  OBVIOUS
<1>2. R \subseteq Nat /\ 0 \notin R
  BY <1>1
<1>3. (k = 0 <=> R = {}) /\ (k # 0 => k \in R)
  <2> HIDE DEF R
  <2> QED BY <1>2, LowestIs, Zenon
<1>4. AsmNr(ops) = IF k # 0 /\ ArgIdx(ops, k) < Len(Arguments(ops)) /\ arg.const THEN arg.val ELSE AnyNr
  BY Zenon DEF AsmNr
<1>5. R \subseteq InRax(ops)
  BY Zenon DEF InRax
<1>6. CASE R = {}
  <2>1. AsmNr(ops) = AnyNr
    BY <1>3, <1>4, <1>6, Zenon
  <2>2. \A i \in InRax(ops) : ops[i].code \notin RaxCodes
    BY <1>6, Zenon DEF InRax
  <2> QED BY <2>1, <2>2 DEF AnyNr
<1>7. CASE R # {}
  <2>1. k \in DOMAIN ops /\ k \in InRax(ops) /\ ops[k].dir = "in" /\ ops[k].code \in RaxCodes
    BY <1>3, <1>5, <1>7, Zenon
  <2>2. ArgIdx(ops, k) < Len(Arguments(ops)) /\ Arguments(ops)[ArgIdx(ops, k) + 1] = k
    <3>1. IsArg(ops[k])
      BY <2>1, Zenon DEF IsArg
    <3> HIDE DEF k
    <3> QED BY <2>1, <3>1, ArgumentPlace, Zenon
  <2>3. AsmNr(ops) = IF ops[k].const THEN ops[k].val ELSE AnyNr
    BY <1>3, <1>4, <1>7, <2>2, Zenon
  <2>4. ops[k].val \in Int
    BY <1>1, <2>1, Zenon DEF Operands
  <2>5. \A i \in InRax(ops) : i = k
    BY <2>1, Zenon
  <2> HIDE DEF k
  <2> QED BY <2>1, <2>3, <2>4, <2>5 DEF AnyNr
<1> QED BY <1>6, <1>7, Zenon

\* Every instruction has a number, and the readers decode what the pass encodes.
LEMMA NrIs ==
  ASSUME NEW code \in Bodies, NEW k \in DOMAIN code
  PROVE  /\ SyscallNr(code[k]) \in Int
         /\ DecodedNr(EncodedNr(SyscallNr(code[k])))
              = IF SyscallNr(code[k]) >= 0 THEN SyscallNr(code[k]) ELSE AnyNr
<1> DEFINE i == code[k]
<1>1. i \in Instructions
  BY SectionAssumption
<1>2. CASE i.kind = "asm"
  <2>1. i.ops \in Seq(Operands)
    BY <1>1, <1>2, Zenon DEF Instructions
  <2>2. \A a, b \in InRax(i.ops) : a = b
    BY <1>2, SectionAssumption, Zenon
  <2>3. AsmNr(i.ops) \in Int
    BY <2>1, <2>2, AsmNrIs, Zenon
  <2> QED BY <1>2, <2>3 DEF SyscallNr, AnyNr, EncodedNr, DecodedNr
<1>3. CASE i.kind # "asm"
  <2>1. \A c \in DOMAIN WrapperNr : WrapperNr[c] \in Int
    BY DEF WrapperNr
  <2>2. SyscallNr(i) \in Int
    BY <1>3, <2>1 DEF SyscallNr, AnyNr
  <2> QED BY <2>2 DEF AnyNr, EncodedNr, DecodedNr
<1> QED BY <1>2, <1>3, Zenon

-----------------------------------------------------------------------------
(* A block declares what its unit's program says.                          *)

\* The number of entries of a unit.
Count(code) == Cardinality(Marks(code))

LEMMA MarksAre ==
  ASSUME NEW code \in Bodies
  PROVE  /\ Marks(code) \subseteq Nat /\ IsFiniteSet(Marks(code))
         /\ Count(code) \in Nat /\ Count(code) > 0
         /\ Enumerates(Marks(code), Below(Marks(code)), Ranked(Marks(code)))
<1>1. DOMAIN code = 1..Len(code) /\ Len(code) \in Nat
  BY SectionAssumption
<1>2. Marks(code) \subseteq 0..Len(code) /\ Marks(code) # {}
  BY <1>1 DEF Marks, Sites
<1>3. Marks(code) \subseteq Nat /\ Marks(code) \subseteq Int
  BY <1>1, <1>2
<1>4. IsFiniteSet(0..Len(code))
  BY <1>1, FS_Interval
<1>5. IsFiniteSet(Marks(code))
  BY <1>2, <1>4, FS_Subset, Zenon
<1>6. Count(code) \in Nat /\ Count(code) # 0
  BY <1>2, <1>5, FS_CardinalityType, FS_EmptySet, Zenon DEF Count
<1>7. Enumerates(Marks(code), Below(Marks(code)), Ranked(Marks(code)))
  BY <1>3, <1>5, RankedListed, Zenon
<1> QED BY <1>3, <1>5, <1>6, <1>7

\* The block of a unit: one entry per mark, in order.
LEMMA BlockIs ==
  ASSUME NEW u, NEW code \in Bodies
  PROVE  /\ DOMAIN Block(u, code) = 1..Count(code)
         /\ Len(Block(u, code)) = Count(code)
         /\ \A m \in 1..Count(code) :
              [site |-> Block(u, code)[m].site, nr |-> DecodedNr(Block(u, code)[m].enc)]
                = Declares(u, code, Ranked(Marks(code))[m])
<1> DEFINE at == Ranked(Marks(code))
           n  == Count(code)
           e(m) == [site |-> <<u, at[m]>>, enc |-> EncodedNr(SyscallNr(code[at[m]]))]
<1>1. n \in Nat /\ at \in [1..n -> Marks(code)]
  BY MarksAre, Zenon DEF Enumerates, Count
<1>2. CASE Sites(code) = {}
  <2>1. Block(u, code) = <<Dummy>>
    BY <1>2, Zenon DEF Block
  <2>2. Marks(code) = {0} /\ n = 1
    BY <1>2, FS_Singleton, Zenon DEF Marks, Count
  <2>3. at[1] = 0
    BY <1>1, <2>2
  <2>4. \A m \in 1..n : m = 1
    BY <2>2
  <2>5. [site |-> Dummy.site, nr |-> DecodedNr(Dummy.enc)] = Declares(u, code, 0)
    BY DEF Dummy, DecodedNr, Declares
  <2>6. DOMAIN <<Dummy>> = 1..1 /\ Len(<<Dummy>>) = 1 /\ <<Dummy>>[1] = Dummy
    OBVIOUS
  <2> QED BY <2>1, <2>2, <2>3, <2>4, <2>5, <2>6, Zenon
<1>3. CASE Sites(code) # {}
  <2>1. Marks(code) = Sites(code)
    BY <1>3, Zenon DEF Marks
  <2>2. DOMAIN at = 1..n
    BY <1>1, Zenon
  <2>3. Block(u, code) = [m \in 1..n |-> e(m)]
    BY <1>3, <2>1, <2>2, Zenon DEF Block
  <2>4. Len(Block(u, code)) = n /\ DOMAIN Block(u, code) = 1..n
    <3> HIDE DEF e, n
    <3> QED BY <1>1, <2>3
  <2>5. ASSUME NEW m \in 1..n
        PROVE  [site |-> e(m).site, nr |-> DecodedNr(e(m).enc)] = Declares(u, code, at[m])
    <3>1. at[m] \in DOMAIN code /\ at[m] # 0
      <4>1. at[m] \in Sites(code)
        BY <1>1, <2>1, Zenon
      <4>2. DOMAIN code = 1..Len(code)
        BY SectionAssumption
      <4> QED BY <4>1, <4>2 DEF Sites
    <3>2. DecodedNr(EncodedNr(SyscallNr(code[at[m]])))
            = IF SyscallNr(code[at[m]]) >= 0 THEN SyscallNr(code[at[m]]) ELSE AnyNr
      BY <3>1, NrIs, Zenon
    <3> HIDE DEF at
    <3> QED BY <3>1, <3>2, Zenon DEF Declares
  <2>6. \A m \in 1..n : Block(u, code)[m] = e(m)
    BY <2>3, Zenon
  <2> HIDE DEF e
  <2> QED BY <2>4, <2>5, <2>6, Zenon
<1> QED BY <1>2, <1>3, Zenon

-----------------------------------------------------------------------------
(* The order of all entries.                                               *)

\* An entry that names a site names an instruction of its unit, and its number.
LEMMA EntryIs ==
  ASSUME NEW u, NEW code \in Bodies, NEW m \in 1..Count(code),
         Block(u, code)[m].site # NullSite
  PROVE  \E n \in DOMAIN code : /\ Block(u, code)[m].site = <<u, n>>
                                /\ DecodedNr(Block(u, code)[m].enc) = Resolved(SyscallNr(code[n]))
<1> DEFINE n == Ranked(Marks(code))[m]
           e == Block(u, code)[m]
<1>1. [site |-> e.site, nr |-> DecodedNr(e.enc)] = Declares(u, code, n)
  BY BlockIs, Zenon
<1>2. n \in Marks(code)
  BY MarksAre, Zenon DEF Enumerates, Count
<1> HIDE DEF n, e
<1>3. n # 0 /\ e.site = <<u, n>> /\ DecodedNr(e.enc) = Resolved(SyscallNr(code[n]))
  <2>1. n # 0
    BY <1>1 DEF Declares, e
  <2> QED BY <1>1, <2>1 DEF Declares, Resolved
<1>4. n \in DOMAIN code
  BY <1>2, <1>3, Zenon DEF Marks, Sites
<1> QED BY <1>3, <1>4, Zenon DEF e

\* What the operands of inline assembly say of the number.
LEMMA AsmSays ==
  ASSUME NEW ops \in Seq(Operands), \A i, j \in InRax(ops) : i = j, NEW k \in InRax(ops)
  PROVE  \/ ops[k].const /\ ops[k].val = Resolved(AsmNr(ops))
         \/ /\ Resolved(AsmNr(ops)) = AnyNr
            /\ ~ops[k].const \/ ops[k].val < 0 \/ ops[k].code = "0"
<1>1. k \in DOMAIN ops /\ (ops[k].code \in RaxCodes \/ ops[k].code = "0")
  BY Zenon DEF InRax
<1>2. ops[k] \in Operands
  BY <1>1
<1>3. ops[k].const \in BOOLEAN /\ ops[k].val \in Int
  BY <1>2, Zenon DEF Operands
<1>4. IF ops[k].code \in RaxCodes /\ ops[k].const THEN AsmNr(ops) = ops[k].val
                                                 ELSE AsmNr(ops) = AnyNr
  BY AsmNrIs, Zenon
<1> QED BY <1>1, <1>3, <1>4 DEF AnyNr, Resolved

LEMMA PairsAre ==
  ASSUME NEW b \in [Units -> Bodies], NEW ord \in Seq(Units)
  PROVE  /\ Pairs(b, ord) \subseteq Nat \X Nat /\ IsFiniteSet(Pairs(b, ord))
         /\ \A p, k : <<p, k>> \in Pairs(b, ord) <=> p \in DOMAIN ord /\ k \in Marks(b[ord[p]])
<1>1. DOMAIN ord = 1..Len(ord) /\ Len(ord) \in Nat /\ \A p \in DOMAIN ord : b[ord[p]] \in Bodies
  OBVIOUS
<1> DEFINE M(p) == Marks(b[ord[p]])
           f == [p \in DOMAIN ord |-> {p} \X M(p)]
           T == {{p} \X M(p) : p \in DOMAIN ord}
<1>2. \A p \in DOMAIN ord : M(p) \subseteq Nat /\ IsFiniteSet(M(p))
  BY <1>1, MarksAre, Zenon
<1>3. Pairs(b, ord) = UNION T
  BY Zenon DEF Pairs
<1> HIDE DEF M
<1>4. \A p, k : <<p, k>> \in UNION T <=> p \in DOMAIN ord /\ k \in M(p)
  OBVIOUS
<1>5. UNION T \subseteq Nat \X Nat
  BY <1>1, <1>2
<1>6. IsFiniteSet(T)
  <2>1. f \in Surjection(DOMAIN ord, T)
    BY Zenon DEF Surjection
  <2>2. IsFiniteSet(DOMAIN ord)
    BY <1>1, FS_Interval
  <2> HIDE DEF f, T
  <2> QED BY <2>1, <2>2, FS_Surjection, Zenon
<1>7. \A t \in T : IsFiniteSet(t)
  <2>1. ASSUME NEW p \in DOMAIN ord PROVE IsFiniteSet({p} \X M(p))
    BY <1>2, FS_Singleton, FS_Product, Zenon
  <2> QED BY <2>1, Zenon
<1>8. IsFiniteSet(UNION T)
  <2> HIDE DEF T
  <2> QED BY <1>6, <1>7, FS_UNION, Zenon
<1> HIDE DEF T
<1> QED BY <1>3, <1>4, <1>5, <1>8, Zenon DEF M

\* The entries of the first p - 1 blocks and the first i of block p.
Done(b, ord, p, i) ==
  {x \in Pairs(b, ord) : \/ x[1] < p
                         \/ x[1] = p /\ Cardinality(Below(Marks(b[ord[p]]))[x[2]]) < i}

\* The first place, the last, and the end of a block.
LEMMA DoneEnds ==
  ASSUME NEW b \in [Units -> Bodies], NEW ord \in Seq(Units)
  PROVE  /\ Done(b, ord, 1, 0) = {}
         /\ Done(b, ord, Len(ord) + 1, 0) = Pairs(b, ord)
         /\ \A p \in DOMAIN ord :
              Done(b, ord, p, Count(b[ord[p]])) = Done(b, ord, p + 1, 0)
<1> DEFINE R(p, k) == Cardinality(Below(Marks(b[ord[p]]))[k])
           P == Pairs(b, ord)
<1>1. DOMAIN ord = 1..Len(ord) /\ Len(ord) \in Nat /\ \A p \in DOMAIN ord : b[ord[p]] \in Bodies
  OBVIOUS
<1>2. ASSUME NEW x \in P
      PROVE  x[1] \in 1..Len(ord) /\ x[2] \in Marks(b[ord[x[1]]])
  <2>1. x = <<x[1], x[2]>>
    BY PairsAre
  <2> QED BY <1>1, <2>1, PairsAre, Zenon
<1>3. ASSUME NEW p \in DOMAIN ord, NEW k \in Marks(b[ord[p]])
      PROVE  R(p, k) + 1 \in 1..Count(b[ord[p]]) /\ Count(b[ord[p]]) \in Nat
  BY <1>1, MarksAre, Zenon DEF Enumerates, Count
<1>4. ASSUME NEW p \in DOMAIN ord, NEW k \in Marks(b[ord[p]])
      PROVE  R(p, k) \in Nat /\ R(p, k) < Count(b[ord[p]])
  <2>1. IsFiniteSet(Below(Marks(b[ord[p]]))[k])
    <3>1. Below(Marks(b[ord[p]]))[k] \subseteq Marks(b[ord[p]])
      BY Zenon DEF Below
    <3> QED BY <1>1, <3>1, MarksAre, FS_Subset, Zenon
  <2>2. R(p, k) \in Nat
    BY <2>1, FS_CardinalityType, Zenon
  <2> HIDE DEF R
  <2> QED BY <1>3, <2>2
<1>5. \A p, i : Done(b, ord, p, i) = {x \in P : x[1] < p \/ (x[1] = p /\ R(p, x[2]) < i)}
  BY Zenon DEF Done
<1>6. ASSUME NEW x \in P PROVE R(x[1], x[2]) \in Nat /\ R(x[1], x[2]) < Count(b[ord[x[1]]])
  BY <1>1, <1>2, <1>4, Zenon
<1> HIDE DEF R, P
<1>7. Done(b, ord, 1, 0) = {}
  BY <1>2, <1>5, <1>6
<1>8. Done(b, ord, Len(ord) + 1, 0) = P
  <2>1. Done(b, ord, Len(ord) + 1, 0)
          = {x \in P : x[1] < Len(ord) + 1 \/ (x[1] = Len(ord) + 1 /\ R(Len(ord) + 1, x[2]) < 0)}
    BY <1>5, Zenon
  <2>2. \A x \in P : x[1] < Len(ord) + 1
    BY <1>1, <1>2
  <2> QED BY <2>1, <2>2, Zenon
<1>9. ASSUME NEW p \in DOMAIN ord
      PROVE  Done(b, ord, p, Count(b[ord[p]])) = Done(b, ord, p + 1, 0)
  <2> DEFINE c == Count(b[ord[p]])
  <2>1. Done(b, ord, p, c) = {x \in P : x[1] < p \/ (x[1] = p /\ R(p, x[2]) < c)}
    BY <1>5, Zenon
  <2>2. Done(b, ord, p + 1, 0) = {x \in P : x[1] < p + 1 \/ (x[1] = p + 1 /\ R(p + 1, x[2]) < 0)}
    BY <1>5, Zenon
  <2>3. \A x \in P : x[1] < p + 1 <=> x[1] < p \/ x[1] = p
    BY <1>1, <1>2
  <2>4. \A x \in P : x[1] = p => R(p, x[2]) < c
    BY <1>6, Zenon
  <2>5. \A x \in P : x[1] = p + 1 => ~(R(p + 1, x[2]) < 0)
    BY <1>6
  <2> QED BY <2>1, <2>2, <2>3, <2>4, <2>5, Zenon
<1> QED BY <1>7, <1>8, <1>9, Zenon DEF P

\* Entry i of block p.
Nth(b, ord, p, i) == <<p, Ranked(Marks(b[ord[p]]))[i]>>

NextDone(b, ord, p, i) ==
  /\ Nth(b, ord, p, i + 1) \in Pairs(b, ord)
  /\ Before(Pairs(b, ord), Nth(b, ord, p, i + 1)) = Done(b, ord, p, i)
  /\ Nth(b, ord, p, i + 1) \notin Done(b, ord, p, i)
  /\ Done(b, ord, p, i + 1) = Done(b, ord, p, i) \cup {Nth(b, ord, p, i + 1)}

\* Entry i + 1 of block p: its place among all entries, and what is done
\* before and after it.
LEMMA NextPair ==
  ASSUME NEW b \in [Units -> Bodies], NEW ord \in Seq(Units),
         NEW p \in DOMAIN ord, NEW i \in Nat, i < Count(b[ord[p]])
  PROVE  NextDone(b, ord, p, i)
<1> DEFINE M == Marks(b[ord[p]])
           R(k) == Cardinality(Below(M)[k])
           k == Ranked(M)[i + 1]
           P == Pairs(b, ord)
<1>1. b[ord[p]] \in Bodies /\ p \in Nat
  OBVIOUS
<1>2. M \subseteq Nat /\ IsFiniteSet(M) /\ Enumerates(M, Below(M), Ranked(M))
  BY <1>1, MarksAre, Zenon
<1>3. i + 1 \in 1..Cardinality(M)
  BY <1>1, MarksAre DEF Count
<1>4. k \in M /\ R(k) = i
  <2>1. k \in M /\ R(k) = i + 1 - 1
    <3> HIDE DEF M
    <3>1. \A m \in 1..Cardinality(M) :
            Ranked(M)[m] \in M /\ Cardinality(Below(M)[Ranked(M)[m]]) = m - 1
      BY <1>2, Zenon DEF Enumerates
    <3> QED BY <1>3, <3>1
  <2> HIDE DEF R
  <2> QED BY <2>1
<1>5. \A l, m \in M : R(l) \in Nat /\ (l # m => R(l) # R(m)) /\ (l < m => R(l) < R(m))
  <2>1. Ordered(M, Below(M))
    <3>1. M \subseteq Int
      BY <1>2
    <3> HIDE DEF M
    <3> QED BY <3>1, BelowOrders, Zenon
  <2>2. \A l, m \in M : l < m => l \in Below(M)[m]
    BY Zenon DEF Below
  <2>3. \A l \in M : R(l) \in 0..(Cardinality(M) - 1)
    <3> HIDE DEF M
    <3> QED BY <1>2, <2>1, RankInjective, Zenon
  <2>4. \A l \in M : R(l) \in Nat
    <3> HIDE DEF M, R
    <3> QED BY <2>3
  <2>5. \A l, m \in M : (l # m => R(l) # R(m)) /\ (l \in Below(M)[m] => R(l) < R(m))
    <3> HIDE DEF M
    <3> QED BY <1>2, <2>1, RankInjective, Zenon
  <2> HIDE DEF M, R
  <2> QED BY <2>2, <2>4, <2>5, Zenon
<1>6. \A x \in P : /\ x[1] \in Nat /\ x[2] \in Nat /\ x = <<x[1], x[2]>>
                   /\ x[1] = p => x[2] \in M
  <2>1. \A x \in P : x[1] \in Nat /\ x[2] \in Nat /\ x = <<x[1], x[2]>>
    BY PairsAre
  <2>2. ASSUME NEW x \in P, x[1] = p PROVE x[2] \in M
    <3>1. <<p, x[2]>> \in P
      BY <2>1, <2>2, Zenon
    <3> QED BY <3>1, PairsAre, Zenon
  <2> QED BY <2>1, <2>2, Zenon
<1>7. <<p, k>> \in P
  <2> HIDE DEF k
  <2> QED BY <1>4, PairsAre, Zenon
<1>8. \A j : Done(b, ord, p, j) = {x \in P : x[1] < p \/ (x[1] = p /\ R(x[2]) < j)}
  BY Zenon DEF Done
<1> HIDE DEF M, R, k, P
<1>9. \A l \in M : /\ l < k <=> R(l) < i
                   /\ R(l) < i + 1 <=> R(l) < i \/ l = k
  BY <1>2, <1>4, <1>5
<1>10. Before(P, <<p, k>>) = {x \in P : x[1] < p \/ (x[1] = p /\ x[2] < k)}
  BY Zenon DEF Before
<1>11. Before(P, <<p, k>>) = Done(b, ord, p, i)
  BY <1>6, <1>8, <1>9, <1>10, Zenon
<1>12. <<p, k>> \notin Done(b, ord, p, i)
  BY <1>1, <1>4, <1>8
<1>13. Done(b, ord, p, i + 1) = Done(b, ord, p, i) \cup {<<p, k>>}
  <2>1. Done(b, ord, p, i + 1) = {x \in P : x[1] < p \/ (x[1] = p /\ R(x[2]) < i + 1)}
    BY <1>8, Zenon
  <2>2. Done(b, ord, p, i) = {x \in P : x[1] < p \/ (x[1] = p /\ R(x[2]) < i)}
    BY <1>8, Zenon
  <2>3. \A x \in P : x[1] = p => (R(x[2]) < i + 1 <=> R(x[2]) < i \/ x[2] = k)
    BY <1>6, <1>9, Zenon
  <2>4. \A x \in P : x = <<p, k>> <=> x[1] = p /\ x[2] = k
    BY <1>6
  <2> QED BY <1>7, <2>1, <2>2, <2>3, <2>4, Zenon
<1> QED BY <1>7, <1>11, <1>12, <1>13, Zenon DEF P, M, k, Nth, NextDone

\* The number of entries done grows by one per entry, gives the place of the
\* next one in the list, and reaches the number of all entries with the last
\* entry of the last block.
Counted(b, ord, p, i, P, c) ==
  /\ c \in Nat /\ Cardinality(Done(b, ord, p, i + 1)) = c + 1
  /\ Cardinality(P) \in Nat /\ c + 1 <= Cardinality(P)
  /\ RankedPairs(P)[c + 1] = Nth(b, ord, p, i + 1)
  /\ c + 1 = Cardinality(P) <=> p = Len(ord) /\ i + 1 = Count(b[ord[p]])

LEMMA DoneCount ==
  ASSUME NEW b \in [Units -> Bodies], NEW ord \in Seq(Units),
         NEW p \in DOMAIN ord, NEW i \in Nat, i < Count(b[ord[p]])
  PROVE  Counted(b, ord, p, i, Pairs(b, ord), Cardinality(Done(b, ord, p, i)))
<1> DEFINE P == Pairs(b, ord)
           D(j) == Done(b, ord, p, j)
           x == Nth(b, ord, p, i + 1)
           c == Cardinality(D(i))
<1>1. x \in P /\ Before(P, x) = D(i) /\ x \notin D(i) /\ D(i + 1) = D(i) \cup {x}
  <2>1. NextDone(b, ord, p, i)
    BY NextPair, Zenon
  <2> QED BY <2>1, Zenon DEF NextDone
<1>2. P \subseteq Int \X Int /\ IsFiniteSet(P)
  <2>1. P \subseteq Nat \X Nat /\ IsFiniteSet(P)
    BY PairsAre, Zenon
  <2> QED BY <2>1
<1>3. \A j : D(j) \subseteq P /\ IsFiniteSet(D(j))
  <2>1. \A j : D(j) \subseteq P
    BY Zenon DEF Done
  <2> QED BY <1>2, <2>1, FS_Subset, Zenon
<1>4. c \in Nat /\ Cardinality(D(i + 1)) = c + 1
  <2> HIDE DEF D, x
  <2> QED BY <1>1, <1>3, FS_AddElement, FS_CardinalityType, Zenon
<1>5. Enumerates(P, Earlier(P), RankedPairs(P)) /\ Earlier(P)[x] = Before(P, x)
  <2> HIDE DEF P, x
  <2> QED BY <1>1, <1>2, RankedPairsListed, Zenon DEF Earlier
<1>6. /\ Cardinality(P) \in Nat /\ c + 1 \in 1..Cardinality(P) /\ RankedPairs(P)[c + 1] = x
  <2> HIDE DEF P, x, D
  <2> QED BY <1>1, <1>5, Zenon DEF Enumerates
<1>7. c + 1 = Cardinality(P) <=> D(i + 1) = P
  <2> HIDE DEF P, D
  <2>1. D(i + 1) # P => Cardinality(D(i + 1)) # Cardinality(P)
    BY <1>2, <1>3, FS_Subset, Zenon
  <2> QED BY <1>4, <2>1, Zenon
<1>8. ASSUME p = Len(ord), i + 1 = Count(b[ord[p]]) PROVE D(i + 1) = P
  <2>1. D(i + 1) = Done(b, ord, p + 1, 0)
    BY <1>8, DoneEnds, Zenon
  <2> QED BY <1>8, <2>1, DoneEnds, Zenon
<1>9. ASSUME ~(p = Len(ord) /\ i + 1 = Count(b[ord[p]])) PROVE \E y \in P : y \notin D(i + 1)
  <2>1. \A q \in DOMAIN ord : b[ord[q]] \in Bodies
    OBVIOUS
  <2>2. CASE p # Len(ord)
    <3>1. p + 1 \in DOMAIN ord /\ 0 \in Nat /\ 0 < Count(b[ord[p + 1]])
      BY <2>1, <2>2, MarksAre
    <3>2. PICK k : <<p + 1, k>> \in P
      BY <3>1, NextPair, Zenon DEF Nth, NextDone
    <3>3. <<p + 1, k>> \notin D(i + 1)
      BY DEF Done
    <3> QED BY <3>2, <3>3, Zenon
  <2>3. CASE i + 1 # Count(b[ord[p]])
    <3>1. i + 1 \in Nat /\ i + 1 < Count(b[ord[p]])
      BY <2>1, <2>3, MarksAre
    <3> QED BY <3>1, NextPair, Zenon DEF NextDone
  <2> QED BY <1>9, <2>2, <2>3, Zenon
<1>10. c + 1 <= Cardinality(P)
  <2> HIDE DEF c, P
  <2> QED BY <1>6
<1> HIDE DEF D, P, x
<1> QED BY <1>4, <1>6, <1>7, <1>8, <1>9, <1>10, Zenon DEF D, P, x, Counted

-----------------------------------------------------------------------------
(* The layout of the linked section.                                       *)

\* The offset of entry i of a block at offset o.
Slot(o, i) == o + HeaderSize + EntrySize * (i - 1)

\* A section grown by a block of n entries.
Grown(sec, block, n, new) ==
  /\ new.size = sec.size + HeaderSize + EntrySize * n
  /\ DOMAIN new.count = DOMAIN sec.count \cup {sec.size}
  /\ new.count[sec.size] = n
  /\ \A o \in DOMAIN sec.count : o # sec.size => new.count[o] = sec.count[o]
  /\ \A i \in 1..n : /\ Slot(sec.size, i) \in DOMAIN new.entry
                     /\ new.entry[Slot(sec.size, i)] = block[i]
  /\ \A o \in DOMAIN sec.entry : (o \in Nat /\ o < sec.size)
       => o \in DOMAIN new.entry /\ new.entry[o] = sec.entry[o]

LEMMA AppendedIs ==
  ASSUME NEW sec, NEW block, NEW n \in Nat, sec.size \in Nat,
         DOMAIN block = 1..n, Len(block) = n
  PROVE  Grown(sec, block, n, Appended(sec, block))
<1> DEFINE new == Appended(sec, block)
           S == {Slot(sec.size, i) : i \in DOMAIN block}
           old == DOMAIN sec.entry
           val(o) == IF o \in S THEN block[CHOOSE i \in DOMAIN block : Slot(sec.size, i) = o] ELSE sec.entry[o]
           cnt == [o \in DOMAIN sec.count \cup {sec.size} |->
                     IF o = sec.size THEN Len(block) ELSE sec.count[o]]
           ent == [o \in old \cup S |-> val(o)]
<1>1. new = [size |-> sec.size + HeaderSize + EntrySize * Len(block), count |-> cnt, entry |-> ent]
  BY Zenon DEF Appended, Slot
<1>2. new.size = sec.size + HeaderSize + EntrySize * Len(block) /\ new.count = cnt /\ new.entry = ent
  <2> HIDE DEF new, cnt, ent
  <2> QED BY <1>1, Zenon
<1>3. /\ DOMAIN cnt = DOMAIN sec.count \cup {sec.size} /\ cnt[sec.size] = n
      /\ \A o \in DOMAIN sec.count : o # sec.size => cnt[o] = sec.count[o]
  BY Zenon
<1>4. \A i, j \in 1..n : Slot(sec.size, i) = Slot(sec.size, j) => i = j
  BY DEF Slot, HeaderSize, EntrySize
<1>5. \A i \in 1..n : Slot(sec.size, i) > sec.size /\ Slot(sec.size, i) \in Nat
  BY DEF Slot, HeaderSize, EntrySize
<1>6. ASSUME NEW i \in 1..n
      PROVE  Slot(sec.size, i) \in old \cup S /\ ent[Slot(sec.size, i)] = block[i]
  <2>1. Slot(sec.size, i) \in S
    BY Zenon
  <2>2. (CHOOSE j \in DOMAIN block : Slot(sec.size, j) = Slot(sec.size, i)) = i
    BY <1>4, Zenon
  <2>3. ent[Slot(sec.size, i)] = val(Slot(sec.size, i))
    BY <2>1, Zenon
  <2> QED BY <2>1, <2>2, <2>3, Zenon
<1>7. ASSUME NEW o \in old, o \in Nat, o < sec.size
      PROVE  o \in old \cup S /\ ent[o] = sec.entry[o]
  <2>1. o \notin S
    <3>1. \A i \in 1..n : Slot(sec.size, i) # o
      BY <1>5, <1>7
    <3> QED BY <3>1, Zenon
  <2> QED BY <2>1, Zenon
<1>8. DOMAIN ent = old \cup S
  BY Zenon
<1> HIDE DEF new, cnt, ent, S
<1> QED BY <1>2, <1>3, <1>6, <1>7, <1>8, Zenon DEF new, Grown

\* Where block p ends, when start[p] is the offset of its header.
Stop(b, ord, start, p) == start[p] + HeaderSize + EntrySize * Count(b[ord[p]])

\* The blocks follow each other without a gap, the header of each gives its
\* number of entries, and the entries are those the pass emitted.
Placed(b, ord, sec, start, p) ==
  /\ Stop(b, ord, start, p) <= sec.size
  /\ Stop(b, ord, start, p) = IF p = Len(ord) THEN sec.size ELSE start[p + 1]
  /\ start[p] \in DOMAIN sec.count /\ sec.count[start[p]] = Count(b[ord[p]])
  /\ \A i \in 1..Count(b[ord[p]]) :
       /\ Slot(start[p], i) \in DOMAIN sec.entry
       /\ sec.entry[Slot(start[p], i)] = Block(ord[p], b[ord[p]])[i]

Laid(b, ord, sec, start) ==
  /\ sec.size \in Nat /\ start \in [DOMAIN ord -> Nat]
  /\ IF ord = << >> THEN sec.size = 0 ELSE start[1] = 0
  /\ \A o \in DOMAIN sec.count : \E p \in DOMAIN ord : o = start[p]
  /\ \A p \in DOMAIN ord : Placed(b, ord, sec, start, p)

\* A header lies before the end of the section, and so do the entries.
LEMMA Within ==
  ASSUME NEW b \in [Units -> Bodies], NEW ord \in Seq(Units), NEW sec, NEW start,
         Laid(b, ord, sec, start), NEW p \in DOMAIN ord
  PROVE  /\ start[p] \in Nat /\ start[p] < sec.size /\ Count(b[ord[p]]) \in Nat
         /\ start[p] < Stop(b, ord, start, p) /\ Stop(b, ord, start, p) \in Nat
         /\ \A i \in 1..Count(b[ord[p]]) :
              Slot(start[p], i) \in Nat /\ Slot(start[p], i) < sec.size
<1>1. start[p] \in Nat /\ sec.size \in Nat /\ Stop(b, ord, start, p) <= sec.size
  BY Zenon DEF Laid, Placed
<1>2. b[ord[p]] \in Bodies
  OBVIOUS
<1>3. Count(b[ord[p]]) \in Nat
  BY <1>2, MarksAre, Zenon
<1>4. /\ start[p] < Stop(b, ord, start, p) /\ Stop(b, ord, start, p) \in Nat
      /\ start[p] < sec.size
  BY <1>1, <1>3 DEF Stop, HeaderSize, EntrySize
<1>5. ASSUME NEW i \in 1..Count(b[ord[p]])
      PROVE  Slot(start[p], i) \in Nat /\ Slot(start[p], i) < sec.size
  <2>1. Slot(start[p], i) \in Nat /\ Slot(start[p], i) < Stop(b, ord, start, p)
    BY <1>1, <1>3 DEF Stop, Slot, HeaderSize, EntrySize
  <2> QED BY <1>1, <1>4, <2>1
<1> QED BY <1>1, <1>3, <1>4, <1>5, Zenon

\* Linking one more object.
LEMMA LaidAppend ==
  ASSUME NEW b \in [Units -> Bodies], NEW ord \in Seq(Units), NEW sec, NEW start,
         Laid(b, ord, sec, start), NEW u \in Units
  PROVE  \E s : Laid(b, Append(ord, u), Appended(sec, Block(u, b[u])), s)
<1> DEFINE n == Len(ord)
           ord2 == Append(ord, u)
           block == Block(u, b[u])
           sec2 == Appended(sec, block)
           c == Count(b[u])
           s == [p \in 1..(n + 1) |-> IF p = n + 1 THEN sec.size ELSE start[p]]
<1>1. n \in Nat /\ DOMAIN ord = 1..n /\ b[u] \in Bodies
  OBVIOUS
<1>2. /\ ord2 \in Seq(Units) /\ DOMAIN ord2 = 1..(n + 1) /\ Len(ord2) = n + 1 /\ ord2 # << >>
      /\ ord2[n + 1] = u /\ \A p \in 1..n : ord2[p] = ord[p]
  OBVIOUS
<1>3. sec.size \in Nat /\ start \in [1..n -> Nat]
  BY <1>1, Zenon DEF Laid
<1>4. c \in Nat /\ DOMAIN block = 1..c /\ Len(block) = c
  BY <1>1, MarksAre, BlockIs, Zenon
<1>5. /\ sec2.size = sec.size + HeaderSize + EntrySize * c
      /\ \A o \in DOMAIN sec2.count : o \in DOMAIN sec.count \/ o = sec.size
      /\ \A o \in DOMAIN sec.count : o \in DOMAIN sec2.count
      /\ sec.size \in DOMAIN sec2.count
      /\ sec2.count[sec.size] = c
      /\ \A o \in DOMAIN sec.count : o # sec.size => sec2.count[o] = sec.count[o]
      /\ \A i \in 1..c : Slot(sec.size, i) \in DOMAIN sec2.entry /\ sec2.entry[Slot(sec.size, i)] = block[i]
      /\ \A o \in DOMAIN sec.entry : (o \in Nat /\ o < sec.size)
           => o \in DOMAIN sec2.entry /\ sec2.entry[o] = sec.entry[o]
  <2>1. Grown(sec, block, c, sec2)
    <3> HIDE DEF block
    <3> QED BY <1>3, <1>4, AppendedIs, Zenon
  <2> HIDE DEF sec2, block, c
  <2> QED BY <2>1, Zenon DEF Grown
<1>6. /\ s[n + 1] = sec.size /\ DOMAIN s = 1..(n + 1) /\ s \in [1..(n + 1) -> Nat]
      /\ \A p \in 1..n : s[p] = start[p]
  BY <1>1, <1>3
<1> HIDE DEF ord2, block, sec2, c, s, n
<1>7. Placed(b, ord2, sec2, s, n + 1)
  <2>1. Stop(b, ord2, s, n + 1) = sec2.size
    BY <1>2, <1>5, <1>6, Zenon DEF Stop, c
  <2>2. sec2.size \in Nat
    BY <1>3, <1>4, <1>5 DEF HeaderSize, EntrySize
  <2>3. Stop(b, ord2, s, n + 1) <= sec2.size
    BY <2>1, <2>2
  <2> QED BY <1>2, <1>5, <1>6, <2>1, <2>3, Zenon DEF Placed, c, block
<1>8. ASSUME NEW p \in 1..n PROVE Placed(b, ord2, sec2, s, p)
  <2>1. Placed(b, ord, sec, start, p)
    BY <1>1, Zenon DEF Laid
  <2>2. /\ start[p] \in Nat /\ start[p] < sec.size
        /\ \A i \in 1..Count(b[ord[p]]) : Slot(start[p], i) \in Nat /\ Slot(start[p], i) < sec.size
    BY <1>1, Within, Zenon
  <2>3. ord2[p] = ord[p] /\ s[p] = start[p] /\ p \in 1..(n + 1) /\ p # n + 1
    BY <1>1, <1>2, <1>6
  <2>4. Stop(b, ord2, s, p) = Stop(b, ord, start, p)
    BY <2>3, Zenon DEF Stop
  <2>5. Stop(b, ord, start, p) <= sec2.size
    <3>1. Stop(b, ord, start, p) <= sec.size /\ Stop(b, ord, start, p) \in Nat
      BY <1>1, <2>1, Within, Zenon DEF Placed
    <3> QED BY <1>3, <1>4, <1>5, <3>1 DEF HeaderSize, EntrySize
  <2>6. Stop(b, ord, start, p) = s[p + 1]
    <3>1. CASE p = n
      BY <1>6, <2>1, <3>1, Zenon DEF Placed, n
    <3>2. CASE p # n
      <4>1. p + 1 \in 1..n
        BY <1>1, <3>2
      <4> QED BY <1>6, <2>1, <3>2, <4>1, Zenon DEF Placed, n
    <3> QED BY <3>1, <3>2, Zenon
  <2>7. start[p] \in DOMAIN sec2.count /\ sec2.count[start[p]] = Count(b[ord[p]])
    <3>1. start[p] # sec.size
      BY <1>3, <2>2
    <3> QED BY <1>5, <2>1, <3>1, Zenon DEF Placed
  <2>8. ASSUME NEW i \in 1..Count(b[ord[p]])
        PROVE  /\ Slot(start[p], i) \in DOMAIN sec2.entry
               /\ sec2.entry[Slot(start[p], i)] = Block(ord[p], b[ord[p]])[i]
    BY <1>5, <2>1, <2>2, Zenon DEF Placed
  <2> QED BY <1>2, <2>3, <2>4, <2>5, <2>6, <2>7, <2>8, Zenon DEF Placed
<1>9. \A o \in DOMAIN sec2.count : \E p \in DOMAIN ord2 : o = s[p]
  <2>1. \A o \in DOMAIN sec.count : \E p \in 1..n : o = start[p]
    BY <1>1, Zenon DEF Laid
  <2>2. n + 1 \in 1..(n + 1) /\ \A p \in 1..n : p \in 1..(n + 1)
    BY <1>1
  <2>3. ASSUME NEW o \in DOMAIN sec2.count PROVE \E p \in 1..(n + 1) : o = s[p]
    <3>1. CASE o = sec.size
      BY <1>6, <2>2, <3>1, Zenon
    <3>2. CASE o \in DOMAIN sec.count
      BY <1>6, <2>1, <2>2, <3>2, Zenon
    <3> QED BY <1>5, <3>1, <3>2, Zenon
  <2> QED BY <1>2, <2>3, Zenon
<1>10. s[1] = 0
  <2>1. CASE n = 0
    <3>1. ord = << >>
      BY <2>1 DEF n
    <3>2. sec.size = 0
      BY <3>1, Zenon DEF Laid
    <3> QED BY <1>6, <2>1, <3>2
  <2>2. CASE n # 0
    <3>1. ord # << >> /\ 1 \in 1..n
      BY <1>1, <2>2 DEF n
    <3> QED BY <1>6, <3>1, Zenon DEF Laid
  <2> QED BY <2>1, <2>2, Zenon
<1>11. sec2.size \in Nat
  BY <1>3, <1>4, <1>5 DEF HeaderSize, EntrySize
<1>12. \A p \in DOMAIN ord2 : Placed(b, ord2, sec2, s, p)
  <2>1. \A p \in 1..(n + 1) : p \in 1..n \/ p = n + 1
    BY <1>1
  <2> QED BY <1>2, <1>7, <1>8, <2>1, Zenon
<1>13. Laid(b, ord2, sec2, s)
  BY <1>2, <1>6, <1>9, <1>10, <1>11, <1>12, Zenon DEF Laid
<1> QED BY <1>13, Zenon DEF ord2, sec2, block

-----------------------------------------------------------------------------
(* What the reader finds at a place of the section.                        *)

\* The list of all declared entries has one place per pair.
LEMMA ListingDomain ==
  ASSUME NEW b \in [Units -> Bodies], NEW ord \in Seq(Units)
  PROVE  /\ Cardinality(Pairs(b, ord)) \in Nat
         /\ DOMAIN Listing(b, ord) = 1..Cardinality(Pairs(b, ord))
<1> DEFINE P == Pairs(b, ord)
<1>1. P \subseteq Int \X Int /\ IsFiniteSet(P)
  <2>1. P \subseteq Nat \X Nat /\ IsFiniteSet(P)
    BY PairsAre, Zenon
  <2> QED BY <2>1
<1>2. Cardinality(P) \in Nat /\ DOMAIN RankedPairs(P) = 1..Cardinality(P)
  <2> HIDE DEF P
  <2> QED BY <1>1, RankedPairsListed, Zenon DEF Enumerates
<1>3. DOMAIN Listing(b, ord) = DOMAIN RankedPairs(P)
  BY Zenon DEF Listing
<1> QED BY <1>2, <1>3, Zenon

\* Entry i + 1 of block p is the next of the list.
Stands(b, ord, j, e) ==
  /\ j \in DOMAIN Listing(b, ord)
  /\ [site |-> e.site, nr |-> DecodedNr(e.enc)] = Listing(b, ord)[j]

LEMMA EntryShown ==
  ASSUME NEW b \in [Units -> Bodies], NEW ord \in Seq(Units),
         NEW p \in DOMAIN ord, NEW i \in Nat, i < Count(b[ord[p]]),
         NEW j, j = Cardinality(Done(b, ord, p, i)) + 1
  PROVE  Stands(b, ord, j, Block(ord[p], b[ord[p]])[i + 1])
<1> DEFINE P == Pairs(b, ord)
           code == b[ord[p]]
           k == Ranked(Marks(code))[i + 1]
           e == Block(ord[p], code)[i + 1]
<1>1. code \in Bodies
  OBVIOUS
<1>2. /\ Cardinality(P) \in Nat /\ Cardinality(Done(b, ord, p, i)) \in Nat
      /\ j <= Cardinality(P) /\ RankedPairs(P)[j] = Nth(b, ord, p, i + 1)
  <2>1. Counted(b, ord, p, i, P, Cardinality(Done(b, ord, p, i)))
    BY DoneCount, Zenon
  <2> QED BY <2>1, Zenon DEF Counted
<1>3. j \in DOMAIN Listing(b, ord) /\ DOMAIN Listing(b, ord) = DOMAIN RankedPairs(P)
  <2>1. j \in 1..Cardinality(P)
    BY <1>2
  <2> QED BY <2>1, ListingDomain, Zenon DEF Listing
<1>4. Nth(b, ord, p, i + 1)[1] = p /\ Nth(b, ord, p, i + 1)[2] = k
  BY Zenon DEF Nth
<1>5. Listing(b, ord)[j] = Declares(ord[p], code, k)
  BY <1>2, <1>3, <1>4, Zenon DEF Listing
<1>6. i + 1 \in 1..Count(code)
  BY <1>1, MarksAre
<1>7. [site |-> e.site, nr |-> DecodedNr(e.enc)] = Declares(ord[p], code, k)
  BY <1>1, <1>6, BlockIs, Zenon
<1> QED BY <1>3, <1>5, <1>7, Zenon DEF Stands

\* The reader stands at the header of block p, or behind the last block.
Standing(ord, sec, s, p, o) ==
  /\ p \in 1..(Len(ord) + 1)
  /\ o = IF p = Len(ord) + 1 THEN sec.size ELSE s[p]

\* There is a header exactly where a block begins; it leads to the next one.
HeaderAt(b, ord, sec, s, p, o) ==
  /\ o \in Nat /\ o <= sec.size
  /\ o \in DOMAIN sec.count <=> p \in DOMAIN ord
  /\ p \in DOMAIN ord =>
       /\ sec.count[o] = Count(b[ord[p]]) /\ Count(b[ord[p]]) \in Nat
       /\ o + HeaderSize + EntrySize * sec.count[o] = Stop(b, ord, s, p)
       /\ Stop(b, ord, s, p) \in Nat /\ Stop(b, ord, s, p) <= sec.size
       /\ Stop(b, ord, s, p) = sec.size <=> p = Len(ord)
       /\ Standing(ord, sec, s, p + 1, Stop(b, ord, s, p))

LEMMA HeaderRead ==
  ASSUME NEW b \in [Units -> Bodies], NEW ord \in Seq(Units), NEW sec, NEW s,
         Laid(b, ord, sec, s), NEW p, NEW o, Standing(ord, sec, s, p, o)
  PROVE  HeaderAt(b, ord, sec, s, p, o)
<1> DEFINE n == Len(ord)
<1>1. n \in Nat /\ DOMAIN ord = 1..n
  OBVIOUS
<1>2. \A q \in DOMAIN ord : s[q] \in Nat /\ s[q] < sec.size
  BY Within, Zenon
<1>3. sec.size \in Nat
  BY Zenon DEF Laid
<1>4. CASE p = n + 1
  <2>1. o = sec.size /\ p \notin DOMAIN ord
    BY <1>1, <1>4 DEF Standing
  <2>2. \A q \in DOMAIN ord : s[q] # sec.size
    BY <1>2, <1>3
  <2>3. o \notin DOMAIN sec.count
    BY <2>1, <2>2, Zenon DEF Laid
  <2> QED BY <1>3, <2>1, <2>3 DEF HeaderAt
<1>5. CASE p # n + 1
  <2>1. o = s[p] /\ p \in DOMAIN ord
    BY <1>1, <1>5 DEF Standing
  <2>2. Placed(b, ord, sec, s, p)
    BY <2>1, Zenon DEF Laid
  <2>3. /\ Count(b[ord[p]]) \in Nat /\ Stop(b, ord, s, p) \in Nat
    BY <2>1, Within, Zenon
  <2>4. o \in DOMAIN sec.count /\ sec.count[o] = Count(b[ord[p]]) /\ Stop(b, ord, s, p) <= sec.size
    BY <2>1, <2>2, Zenon DEF Placed
  <2>5. o + HeaderSize + EntrySize * sec.count[o] = Stop(b, ord, s, p)
    BY <2>1, <2>4, Zenon DEF Stop
  <2>6. Stop(b, ord, s, p) = sec.size <=> p = n
    <3>1. CASE p = n
      BY <2>2, <3>1, Zenon DEF Placed
    <3>2. CASE p # n
      <4>1. p + 1 \in DOMAIN ord
        BY <1>1, <2>1, <3>2
      <4>2. Stop(b, ord, s, p) = s[p + 1]
        BY <2>2, <3>2, Zenon DEF Placed
      <4> QED BY <1>2, <1>3, <3>2, <4>1, <4>2
    <3> QED BY <3>1, <3>2, Zenon
  <2>7. Standing(ord, sec, s, p + 1, Stop(b, ord, s, p))
    <3>1. p + 1 \in 1..(n + 1) /\ (p + 1 = n + 1 <=> p = n)
      BY <1>1, <2>1
    <3>2. Stop(b, ord, s, p) = IF p = n THEN sec.size ELSE s[p + 1]
      BY <2>2, Zenon DEF Placed
    <3> QED BY <3>1, <3>2, Zenon DEF Standing
  <2>8. o \in Nat /\ o <= sec.size
    BY <1>2, <1>3, <2>1
  <2> QED BY <2>1, <2>3, <2>4, <2>5, <2>6, <2>7, <2>8, Zenon DEF HeaderAt
<1> QED BY <1>4, <1>5, Zenon

-----------------------------------------------------------------------------
(* The inductive invariant.                                                *)

Prints == [site : {NullSite} \cup (Units \X Nat), nr : Int, comma : BOOLEAN]

\* What is compiled and linked.
BuildInv ==
  /\ body \in [Units -> Bodies] /\ todo \subseteq Units /\ order \in Seq(Units) /\ tail \in Int
  /\ todo # {} => pc = "build"
  /\ object = [u \in Units |-> object[u]]
  /\ \A u \in Units : object[u] = << >> \/ object[u] = Block(u, body[u])

\* The reader at block p, i of whose entries it has printed, and len in all.
Place(b, ord, sec, t, st, s, p, o, i, len) ==
  /\ Standing(ord, sec, s, p, o) /\ o <= sec.size + t
  /\ st = "loop" => len = Cardinality(Done(b, ord, p, 0))
  /\ st = "entries" => /\ p \in DOMAIN ord /\ i <= Count(b[ord[p]])
                       /\ len = Cardinality(Done(b, ord, p, i))
                       /\ Stop(b, ord, s, p) <= sec.size + t

Walking(b, ord, sec, t, st, o, i, len) ==
  \E s : /\ Laid(b, ord, sec, s)
         /\ st \in {"loop", "entries"} => \E p : Place(b, ord, sec, t, st, s, p, o, i, len)

WalkInv ==
  /\ pc \in {"build", "args", "open", "find", "loop", "entries", "done"}
  /\ json \in BOOLEAN /\ exit \in {0, 1} /\ offset \in Nat /\ index \in Nat
  /\ pc \in {"build", "args", "open", "find"} => offset = 0 /\ printed = << >>
  /\ Walking(body, order, section, tail, pc, offset, index, Len(printed))

\* Line j of the output.
Fits(b, ord, t, js, j, r) ==
  /\ j \in DOMAIN Listing(b, ord)
  /\ [site |-> r.site, nr |-> r.nr] = Listing(b, ord)[j]
  /\ t = 0 => (r.comma <=> js /\ j < Cardinality(Pairs(b, ord)))

PrintInv ==
  /\ printed \in Seq(Prints)
  /\ \A j \in DOMAIN printed : Fits(body, order, tail, json, j, printed[j])
  /\ pc = "done" => \/ printed = << >> \/ tail < 0
                    \/ Len(printed) = Cardinality(Pairs(body, order))

SectionInv == BuildInv /\ WalkInv /\ PrintInv

LEMMA SectionInit == Init => SectionInv
<1> SUFFICES ASSUME Init PROVE SectionInv
  BY Zenon
<1>1. BuildInv
  BY DEF Init, BuildInv
<1>2. Laid(body, order, section, [p \in {} |-> 0])
  BY DEF Init, Laid, NoSection
<1>3. Walking(body, order, section, tail, pc, offset, index, Len(printed))
  <2>1. pc = "build"
    BY Zenon DEF Init
  <2> QED BY <1>2, <2>1, Zenon DEF Walking
<1>4. WalkInv
  <2>1. /\ pc = "build" /\ json = FALSE /\ exit = 0 /\ offset = 0 /\ index = 0 /\ printed = << >>
    BY Zenon DEF Init
  <2>2. offset \in Nat /\ index \in Nat
    BY <2>1, Zenon
  <2> QED BY <1>3, <2>1, <2>2, Zenon DEF WalkInv
<1>5. PrintInv
  BY DEF Init, PrintInv
<1> QED BY <1>1, <1>4, <1>5, Zenon DEF SectionInv

\* Compiling, linking and the steps before the walk.
LEMMA BuildStep ==
  ASSUME SectionInv,
         \/ \E u \in Units : Compile(u) \/ CompileBare(u) \/ Link(u)
         \/ Emit \/ ParseArgs \/ OpenFile
  PROVE  SectionInv'
<1> USE DEF SectionInv
<1>1. BuildInv'
  <2>1. ASSUME NEW u \in Units, Compile(u) PROVE BuildInv'
    BY <2>1, Zenon DEF BuildInv, Compile
  <2>2. ASSUME NEW u \in Units, CompileBare(u) PROVE BuildInv'
    BY <2>2, Zenon DEF BuildInv, CompileBare
  <2>3. ASSUME NEW u \in Units, Link(u) PROVE BuildInv'
    BY <2>3 DEF BuildInv, Link
  <2>4. ASSUME Emit PROVE BuildInv'
    BY <2>4, SectionAssumption DEF BuildInv, Emit
  <2>5. ASSUME ParseArgs \/ OpenFile PROVE BuildInv'
    BY <2>5, Zenon DEF BuildInv, ParseArgs, OpenFile, build, Finish
  <2> QED BY <2>1, <2>2, <2>3, <2>4, <2>5, Zenon
<1>2. /\ printed = << >> /\ printed' = << >> /\ offset = 0 /\ offset' = 0 /\ index' = index
      /\ pc' \in {"build", "args", "open", "find", "done"} /\ json' \in BOOLEAN /\ exit' \in {0, 1}
  <2> USE DEF WalkInv, dump
  <2>1. ASSUME NEW u \in Units, Compile(u) \/ CompileBare(u) \/ Link(u)
        PROVE  pc = "build" /\ pc' = pc /\ UNCHANGED dump
    BY <2>1, Zenon DEF BuildInv, Compile, CompileBare, Link
  <2>2. ASSUME Emit PROVE pc = "build" /\ pc' = "args" /\ UNCHANGED dump
    BY <2>2, Zenon DEF Emit
  <2>3. ASSUME ParseArgs \/ OpenFile
        PROVE  /\ pc \in {"args", "open"} /\ pc' \in {"open", "find", "done"}
               /\ json' \in BOOLEAN /\ exit' \in {0, 1} /\ UNCHANGED <<offset, index, printed>>
    BY <2>3, Zenon DEF ParseArgs, OpenFile, Finish
  <2> QED BY <2>1, <2>2, <2>3, Zenon
<1>3. \E s : Laid(body', order', section', s)
  <2>1. PICK s : Laid(body, order, section, s)
    BY Zenon DEF WalkInv, Walking
  <2>2. ASSUME NEW u \in Units, Link(u) PROVE \E r : Laid(body', order', section', r)
    <3>1. /\ object[u] = Block(u, body[u]) /\ body' = body
          /\ order' = Append(order, u) /\ section' = Appended(section, object[u])
      BY <2>2, Zenon DEF BuildInv, Link, Unlinked
    <3>2. body \in [Units -> Bodies] /\ order \in Seq(Units)
      BY Zenon DEF BuildInv
    <3> QED BY <2>1, <3>1, <3>2, LaidAppend, Zenon
  <2>3. ASSUME UNCHANGED <<body, order, section>> PROVE \E r : Laid(body', order', section', r)
    BY <2>1, <2>3, Zenon
  <2>4. ASSUME NEW u \in Units, Compile(u) \/ CompileBare(u) PROVE UNCHANGED <<body, order, section>>
    BY <2>4, Zenon DEF Compile, CompileBare
  <2>5. ASSUME Emit \/ ParseArgs \/ OpenFile PROVE UNCHANGED <<body, order, section>>
    BY <2>5, Zenon DEF Emit, ParseArgs, OpenFile, build
  <2> QED BY <2>2, <2>3, <2>4, <2>5, Zenon
<1>4. WalkInv'
  <2>1. Walking(body', order', section', tail', pc', offset', index', Len(printed'))
    BY <1>2, <1>3, Zenon DEF Walking
  <2> QED BY <1>2, <2>1, Zenon DEF WalkInv
<1>5. PrintInv'
  BY <1>2 DEF PrintInv
<1> QED BY <1>1, <1>4, <1>5, Zenon

\* The walk begins at the first header.
LEMMA FindStep == SectionInv /\ FindSection => SectionInv'
<1> SUFFICES ASSUME SectionInv, FindSection PROVE SectionInv'
  BY Zenon
<1> USE DEF SectionInv
<1>1. /\ UNCHANGED build /\ UNCHANGED <<json, offset, index, printed>> /\ pc = "find"
      /\ exit' \in {0, 1} /\ offset = 0 /\ printed = << >>
      /\ \/ pc' = "done"
         \/ pc' = "loop" /\ order # << >> /\ section.size + tail >= HeaderSize
  BY Zenon DEF FindSection, Finish, WalkInv, Size
<1>2. UNCHANGED <<body, object, todo, order, section, tail>>
  BY <1>1, Zenon DEF build
<1>3. BuildInv'
  BY <1>1, <1>2, Zenon DEF BuildInv
<1>4. PrintInv'
  BY <1>1, <1>2, Zenon DEF PrintInv
<1>5. Walking(body, order, section, tail, pc', 0, index, 0)
  <2>1. PICK s : Laid(body, order, section, s)
    BY Zenon DEF WalkInv, Walking
  <2>2. CASE pc' = "done"
    BY <2>1, <2>2, Zenon DEF Walking
  <2>3. CASE pc' = "loop" /\ order # << >> /\ section.size + tail >= HeaderSize
    <3>1. 0 <= section.size + tail
      <4>1. section.size \in Nat /\ tail \in Int
        BY <2>1, Zenon DEF Laid, BuildInv
      <4> QED BY <2>3, <4>1 DEF HeaderSize
    <3>2. Standing(order, section, s, 1, 0)
      <4>1. s[1] = 0
        BY <2>1, <2>3, Zenon DEF Laid
      <4>2. 1 \in 1..(Len(order) + 1) /\ 1 # Len(order) + 1
        BY <2>3 DEF BuildInv
      <4> QED BY <4>1, <4>2, Zenon DEF Standing
    <3>3. Cardinality(Done(body, order, 1, 0)) = 0
      BY DoneEnds, FS_EmptySet, Zenon DEF BuildInv
    <3>4. Place(body, order, section, tail, "loop", s, 1, 0, index, 0)
      BY <3>1, <3>2, <3>3, Zenon DEF Place
    <3> QED BY <2>1, <2>3, <3>4, Zenon DEF Walking
  <2> QED BY <1>1, <2>2, <2>3, Zenon
<1>6. WalkInv'
  <2>1. Walking(body', order', section', tail', pc', offset', index', Len(printed'))
    <3>1. Len(printed') = 0 /\ offset' = 0 /\ index' = index
      BY <1>1, Zenon
    <3> QED BY <1>2, <1>5, <3>1, Zenon
  <2> QED BY <1>1, <2>1, Zenon DEF WalkInv
<1> QED BY <1>3, <1>4, <1>6, Zenon

\* What a step of the walk leaves alone.
LEMMA WalkFrame ==
  ASSUME SectionInv, ReadHeader \/ LeaveLoop \/ PrintEntry \/ NextBlock
  PROVE  /\ UNCHANGED <<body, order, section, tail, json>> /\ BuildInv'
         /\ pc \in {"loop", "entries"} /\ pc' \in {"loop", "entries", "done"}
         /\ exit' \in {0, 1}
<1>1. UNCHANGED build /\ json' = json /\ pc \in {"loop", "entries"} /\ pc' \in {"loop", "entries", "done"}
  BY Zenon DEF ReadHeader, LeaveLoop, PrintEntry, NextBlock, Finish
<1>2. exit' = exit \/ exit' = 0
  BY Zenon DEF ReadHeader, LeaveLoop, PrintEntry, NextBlock, Finish
<1>3. exit' \in {0, 1}
  BY <1>2, Zenon DEF SectionInv, WalkInv
<1>4. UNCHANGED <<body, object, todo, order, section, tail>>
  BY <1>1, Zenon DEF build
<1>5. todo = {}
  BY <1>1, Zenon DEF SectionInv, BuildInv
<1>6. BuildInv'
  BY <1>4, <1>5, Zenon DEF SectionInv, BuildInv
<1> QED BY <1>1, <1>3, <1>4, <1>6, Zenon

\* Where the walk stands.
LEMMA WalkPlace ==
  ASSUME SectionInv, pc \in {"loop", "entries"}
  PROVE  \E s, p : /\ Laid(body, order, section, s)
                   /\ Place(body, order, section, tail, pc, s, p, offset, index, Len(printed))
  BY Zenon DEF SectionInv, WalkInv, Walking

\* A header is read: the block fits into the section.
LEMMA HeaderStep == SectionInv /\ ReadHeader => SectionInv'
<1> SUFFICES ASSUME SectionInv, ReadHeader PROVE SectionInv'
  BY Zenon
<1>1. /\ UNCHANGED <<body, order, section, tail, json>> /\ BuildInv' /\ exit' \in {0, 1}
  BY WalkFrame, Zenon
<1>2. /\ pc = "loop" /\ pc' = "entries" /\ index' = 0 /\ offset' = offset /\ printed' = printed
      /\ offset \in DOMAIN section.count
      /\ offset + HeaderSize + EntrySize * section.count[offset] <= section.size + tail
  BY Zenon DEF ReadHeader, HasMagic, BlockFits, BlockEnd, Size
<1>3. PICK s, p : /\ Laid(body, order, section, s)
                  /\ Place(body, order, section, tail, pc, s, p, offset, index, Len(printed))
  BY <1>2, WalkPlace, Zenon
<1>4. body \in [Units -> Bodies] /\ order \in Seq(Units)
  BY Zenon DEF SectionInv, BuildInv
<1>5. /\ Standing(order, section, s, p, offset) /\ offset <= section.size + tail
      /\ Len(printed) = Cardinality(Done(body, order, p, 0))
  BY <1>2, <1>3, Zenon DEF Place
<1>6. /\ p \in DOMAIN order /\ Count(body[order[p]]) \in Nat
      /\ offset + HeaderSize + EntrySize * section.count[offset] = Stop(body, order, s, p)
  <2>1. HeaderAt(body, order, section, s, p, offset)
    BY <1>3, <1>4, <1>5, HeaderRead, Zenon
  <2> QED BY <1>2, <2>1, Zenon DEF HeaderAt
<1>7. 0 <= Count(body[order[p]])
  BY <1>6
<1>8. Place(body, order, section, tail, "entries", s, p, offset, 0, Len(printed))
  <2>1. "entries" # "loop"
    BY Zenon
  <2> QED BY <1>2, <1>5, <1>6, <1>7, <2>1, Zenon DEF Place
<1>9. Walking(body, order, section, tail, "entries", offset, 0, Len(printed))
  BY <1>3, <1>8, Zenon DEF Walking
<1>10. WalkInv'
  <2>1. Walking(body', order', section', tail', pc', offset', index', Len(printed'))
    BY <1>1, <1>2, <1>9, Zenon
  <2>2. index' \in Nat
    BY <1>2, Zenon
  <2>3. offset' \in Nat /\ json' \in BOOLEAN
    BY <1>1, <1>2, Zenon DEF SectionInv, WalkInv
  <2>4. pc' \notin {"build", "args", "open", "find"}
    BY <1>2, Zenon
  <2> QED BY <1>1, <1>2, <2>1, <2>2, <2>3, <2>4, Zenon DEF WalkInv
<1>11. PrintInv'
  <2>1. pc' # "done"
    BY <1>2, Zenon
  <2> QED BY <1>1, <1>2, <2>1, Zenon DEF SectionInv, PrintInv
<1> QED BY <1>1, <1>10, <1>11, Zenon DEF SectionInv

\* The walk ends behind the last block, unless the section was cut short.
LEMMA LeaveStep == SectionInv /\ LeaveLoop => SectionInv'
<1> SUFFICES ASSUME SectionInv, LeaveLoop PROVE SectionInv'
  BY Zenon
<1>1. /\ UNCHANGED <<body, order, section, tail, json>> /\ BuildInv' /\ exit' \in {0, 1}
  BY WalkFrame, Zenon
<1>2. /\ pc = "loop" /\ pc' = "done" /\ index' = index /\ offset' = offset /\ printed' = printed
      /\ ~(/\ offset + HeaderSize <= section.size + tail
           /\ offset \in DOMAIN section.count
           /\ offset + HeaderSize + EntrySize * section.count[offset] <= section.size + tail)
  BY Zenon DEF LeaveLoop, Finish, HeaderFits, HasMagic, BlockFits, BlockEnd, Size
<1>3. PICK s, p : /\ Laid(body, order, section, s)
                  /\ Place(body, order, section, tail, pc, s, p, offset, index, Len(printed))
  BY <1>2, WalkPlace, Zenon
<1>4. body \in [Units -> Bodies] /\ order \in Seq(Units) /\ tail \in Int
  BY Zenon DEF SectionInv, BuildInv
<1>5. /\ Standing(order, section, s, p, offset)
      /\ Len(printed) = Cardinality(Done(body, order, p, 0))
  BY <1>2, <1>3, Zenon DEF Place
<1>6. HeaderAt(body, order, section, s, p, offset)
  BY <1>3, <1>4, <1>5, HeaderRead, Zenon
<1>7. ASSUME tail >= 0 PROVE Len(printed) = Cardinality(Pairs(body, order))
  <2>1. p \notin DOMAIN order
    <3> SUFFICES ASSUME p \in DOMAIN order PROVE FALSE
      BY Zenon
    <3>1. /\ offset \in Nat /\ offset \in DOMAIN section.count
          /\ Stop(body, order, s, p) <= section.size /\ Stop(body, order, s, p) \in Nat
          /\ offset + HeaderSize + EntrySize * section.count[offset] = Stop(body, order, s, p)
          /\ section.count[offset] \in Nat
      BY <1>6, Zenon DEF HeaderAt
    <3>2. section.size \in Nat
      BY <1>3, Zenon DEF Laid
    <3>3. offset + HeaderSize <= offset + HeaderSize + EntrySize * section.count[offset]
      BY <3>1 DEF HeaderSize, EntrySize
    <3>4. Stop(body, order, s, p) <= section.size + tail
      BY <1>4, <1>7, <3>1, <3>2
    <3>5. offset + HeaderSize <= section.size + tail
      BY <1>4, <3>1, <3>2, <3>3, <3>4 DEF HeaderSize
    <3> QED BY <1>2, <3>1, <3>4, <3>5, Zenon
  <2>2. p = Len(order) + 1
    BY <1>4, <1>5, <2>1 DEF Standing
  <2> QED BY <1>4, <1>5, <2>2, DoneEnds, Zenon
<1>8. Walking(body, order, section, tail, "done", offset, index, Len(printed))
  BY <1>3, Zenon DEF Walking
<1>9. WalkInv'
  <2>1. Walking(body', order', section', tail', pc', offset', index', Len(printed'))
    BY <1>1, <1>2, <1>8, Zenon
  <2>2. pc' \notin {"build", "args", "open", "find"}
    BY <1>2, Zenon
  <2> QED BY <1>1, <1>2, <2>1, <2>2, Zenon DEF SectionInv, WalkInv
<1>10. PrintInv'
  <2>1. tail < 0 \/ Len(printed) = Cardinality(Pairs(body, order))
    BY <1>4, <1>7
  <2> QED BY <1>1, <1>2, <2>1, Zenon DEF SectionInv, PrintInv
<1> QED BY <1>1, <1>9, <1>10, Zenon DEF SectionInv

\* The next header follows the last entry.
LEMMA BlockStep == SectionInv /\ NextBlock => SectionInv'
<1> SUFFICES ASSUME SectionInv, NextBlock PROVE SectionInv'
  BY Zenon
<1>1. /\ UNCHANGED <<body, order, section, tail, json>> /\ BuildInv' /\ exit' \in {0, 1}
  BY WalkFrame, Zenon
<1>2. /\ pc = "entries" /\ pc' = "loop" /\ index' = index /\ printed' = printed
      /\ index = section.count[offset]
      /\ offset' = offset + HeaderSize + EntrySize * section.count[offset]
  BY Zenon DEF NextBlock, BlockEnd
<1>3. PICK s, p : /\ Laid(body, order, section, s)
                  /\ Place(body, order, section, tail, pc, s, p, offset, index, Len(printed))
  BY <1>2, WalkPlace, Zenon
<1>4. body \in [Units -> Bodies] /\ order \in Seq(Units)
  BY Zenon DEF SectionInv, BuildInv
<1>5. /\ Standing(order, section, s, p, offset) /\ p \in DOMAIN order
      /\ Len(printed) = Cardinality(Done(body, order, p, index))
      /\ Stop(body, order, s, p) <= section.size + tail
  BY <1>2, <1>3, Zenon DEF Place
<1>6. HeaderAt(body, order, section, s, p, offset)
  BY <1>3, <1>4, <1>5, HeaderRead, Zenon
<1>7. /\ offset' = Stop(body, order, s, p) /\ offset' \in Nat
      /\ Standing(order, section, s, p + 1, offset')
      /\ index = Count(body[order[p]])
  BY <1>2, <1>5, <1>6, Zenon DEF HeaderAt
<1>8. Len(printed) = Cardinality(Done(body, order, p + 1, 0))
  BY <1>4, <1>5, <1>7, DoneEnds, Zenon
<1>9. Place(body, order, section, tail, "loop", s, p + 1, offset', index, Len(printed))
  <2>1. "entries" # "loop"
    BY Zenon
  <2> QED BY <1>5, <1>7, <1>8, <2>1, Zenon DEF Place
<1>10. Walking(body, order, section, tail, "loop", offset', index, Len(printed))
  BY <1>3, <1>9, Zenon DEF Walking
<1>11. WalkInv'
  <2>1. Walking(body', order', section', tail', pc', offset', index', Len(printed'))
    BY <1>1, <1>2, <1>10, Zenon
  <2>2. pc' \notin {"build", "args", "open", "find"}
    BY <1>2, Zenon
  <2> QED BY <1>1, <1>2, <1>7, <2>1, <2>2, Zenon DEF SectionInv, WalkInv
<1>12. PrintInv'
  <2>1. pc' # "done"
    BY <1>2, Zenon
  <2> QED BY <1>1, <1>2, <2>1, Zenon DEF SectionInv, PrintInv
<1> QED BY <1>1, <1>11, <1>12, Zenon DEF SectionInv

\* What a unit declares is a site of it, or none, and a number.
LEMMA DeclaresTyped ==
  ASSUME NEW u \in Units, NEW code \in Bodies, NEW k \in Marks(code)
  PROVE  /\ Declares(u, code, k).site \in {NullSite} \cup (Units \X Nat)
         /\ Declares(u, code, k).nr \in Int
<1>1. CASE k = 0
  BY <1>1 DEF Declares, AnyNr
<1>2. CASE k # 0
  <2>1. k \in Nat
    BY MarksAre, Zenon
  <2>2. k \in DOMAIN code
    BY <1>2, Zenon DEF Marks, Sites
  <2>3. SyscallNr(code[k]) \in Int
    BY <2>2, NrIs, Zenon
  <2> QED BY <1>2, <2>1, <2>3 DEF Declares, AnyNr
<1> QED BY <1>1, <1>2, Zenon

\* An entry is printed: it is the next of the list.
LEMMA EntryStep == SectionInv /\ PrintEntry => SectionInv'
<1> SUFFICES ASSUME SectionInv, PrintEntry PROVE SectionInv'
  BY Zenon
<1> DEFINE len == Len(printed)
           e == EntryAt(offset + HeaderSize + EntrySize * index)
           r == [site |-> e.site, nr |-> DecodedNr(e.enc), comma |-> json /\ Separated]
           total == Cardinality(Pairs(body, order))
<1>1. /\ UNCHANGED <<body, order, section, tail, json>> /\ BuildInv' /\ exit' \in {0, 1}
  BY WalkFrame, Zenon
<1>2. /\ pc = "entries" /\ pc' = "entries" /\ index' = index + 1 /\ offset' = offset
      /\ index < section.count[offset] /\ printed' = Append(printed, r)
  BY Zenon DEF PrintEntry
<1>3. PICK s, p : /\ Laid(body, order, section, s)
                  /\ Place(body, order, section, tail, pc, s, p, offset, index, len)
  BY <1>2, WalkPlace, Zenon
<1>4. /\ body \in [Units -> Bodies] /\ order \in Seq(Units) /\ tail \in Int
      /\ index \in Nat /\ json \in BOOLEAN /\ printed \in Seq(Prints)
  BY Zenon DEF SectionInv, BuildInv, WalkInv, PrintInv
<1>5. /\ Standing(order, section, s, p, offset) /\ p \in DOMAIN order
      /\ len = Cardinality(Done(body, order, p, index))
      /\ Stop(body, order, s, p) <= section.size + tail /\ offset <= section.size + tail
  BY <1>2, <1>3, Zenon DEF Place
<1>6. HeaderAt(body, order, section, s, p, offset)
  BY <1>3, <1>4, <1>5, HeaderRead, Zenon
<1> DEFINE u == order[p]
           code == body[u]
           c == Count(code)
<1>7. /\ c = section.count[offset] /\ c \in Nat /\ index < c /\ index + 1 \in 1..c
      /\ u \in Units /\ code \in Bodies
  <2>1. c = section.count[offset] /\ c \in Nat
    BY <1>5, <1>6, Zenon DEF HeaderAt
  <2>2. u \in Units /\ code \in Bodies
    BY <1>4, <1>5
  <2> HIDE DEF c
  <2> QED BY <1>2, <1>4, <2>1, <2>2
<1>8. e = Block(u, code)[index + 1]
  <2>1. offset = s[p]
    <3>1. p # Len(order) + 1
      BY <1>4, <1>5
    <3> QED BY <1>5, <3>1, Zenon DEF Standing
  <2>2. offset + HeaderSize + EntrySize * index = Slot(s[p], index + 1)
    <3>1. offset \in Nat
      BY <1>6, Zenon DEF HeaderAt
    <3> QED BY <1>4, <2>1, <3>1 DEF Slot, HeaderSize, EntrySize
  <2>3. Placed(body, order, section, s, p)
    BY <1>3, <1>5, Zenon DEF Laid
  <2> QED BY <1>7, <2>2, <2>3, Zenon DEF Placed, EntryAt
<1>9. /\ len + 1 \in DOMAIN Listing(body, order)
      /\ [site |-> e.site, nr |-> DecodedNr(e.enc)] = Listing(body, order)[len + 1]
  <2>1. Stands(body, order, len + 1, e)
    BY <1>4, <1>5, <1>7, <1>8, EntryShown, Zenon
  <2> QED BY <2>1, Zenon DEF Stands
<1>10. /\ len \in Nat /\ total \in Nat /\ len + 1 <= total
       /\ Cardinality(Done(body, order, p, index + 1)) = len + 1
       /\ len + 1 = total <=> p = Len(order) /\ index + 1 = c
  <2>1. Counted(body, order, p, index, Pairs(body, order), Cardinality(Done(body, order, p, index)))
    BY <1>4, <1>5, <1>7, DoneCount, Zenon
  <2> QED BY <1>5, <2>1, Zenon DEF Counted
<1>11. r \in Prints
  <2>1. Ranked(Marks(code))[index + 1] \in Marks(code)
    BY <1>7, MarksAre, Zenon DEF Enumerates, Count
  <2>2. [site |-> e.site, nr |-> DecodedNr(e.enc)] = Declares(u, code, Ranked(Marks(code))[index + 1])
    BY <1>7, <1>8, BlockIs, Zenon
  <2>3. /\ [site |-> e.site, nr |-> DecodedNr(e.enc)].site \in {NullSite} \cup (Units \X Nat)
        /\ [site |-> e.site, nr |-> DecodedNr(e.enc)].nr \in Int
    BY <1>7, <2>1, <2>2, DeclaresTyped, Zenon
  <2>4. (json /\ Separated) \in BOOLEAN
    BY Zenon
  <2> HIDE DEF e
  <2> QED BY <2>3, <2>4, Zenon DEF Prints
<1>12. tail = 0 => (r.comma <=> json /\ len + 1 < total)
  <2>1. ASSUME tail = 0
        PROVE  Separated <=> len + 1 < total
    <3>1. /\ BlockEnd = Stop(body, order, s, p) /\ Stop(body, order, s, p) \in Nat
          /\ Stop(body, order, s, p) <= section.size
          /\ Stop(body, order, s, p) = section.size <=> p = Len(order)
      BY <1>5, <1>6, Zenon DEF HeaderAt, BlockEnd
    <3>2. section.size \in Nat
      BY <1>3, Zenon DEF Laid
    <3>3. BlockEnd >= Size <=> p = Len(order)
      BY <2>1, <3>1, <3>2 DEF Size
    <3>4. Separated <=> ~(p = Len(order) /\ index + 1 = c)
      BY <1>7, <3>3, Zenon DEF Separated
    <3> HIDE DEF len, total, c
    <3> QED BY <1>10, <3>4
  <2>2. r.comma = (json /\ Separated)
    BY Zenon
  <2> QED BY <2>1, <2>2, Zenon
<1>13. Fits(body, order, tail, json, len + 1, r)
  <2>1. r.site = e.site /\ r.nr = DecodedNr(e.enc)
    BY Zenon
  <2> HIDE DEF e, r
  <2> QED BY <1>9, <1>12, <2>1, Zenon DEF Fits
<1> HIDE DEF r, e
<1>14. /\ printed' \in Seq(Prints) /\ Len(printed') = len + 1
       /\ DOMAIN printed' = 1..(len + 1) /\ printed'[len + 1] = r
       /\ \A j \in 1..len : j \in DOMAIN printed /\ printed'[j] = printed[j]
  BY <1>2, <1>4, <1>11
<1>15. PrintInv'
  <2>1. \A j \in DOMAIN printed' : Fits(body, order, tail, json, j, printed'[j])
    <3>1. \A j \in 1..len : Fits(body, order, tail, json, j, printed'[j])
      BY <1>14, Zenon DEF SectionInv, PrintInv
    <3>2. \A j \in 1..(len + 1) : j \in 1..len \/ j = len + 1
      BY <1>10
    <3> QED BY <1>13, <1>14, <3>1, <3>2, Zenon
  <2>2. pc' # "done"
    BY <1>2, Zenon
  <2> QED BY <1>1, <1>14, <2>1, <2>2, Zenon DEF PrintInv
<1>16. Place(body, order, section, tail, "entries", s, p, offset, index + 1, len + 1)
  <2>1. index + 1 <= c /\ "entries" # "loop"
    BY <1>7
  <2> QED BY <1>5, <1>10, <2>1, Zenon DEF Place
<1>17. Walking(body, order, section, tail, "entries", offset, index + 1, len + 1)
  BY <1>3, <1>16, Zenon DEF Walking
<1>18. WalkInv'
  <2>1. Walking(body', order', section', tail', pc', offset', index', Len(printed'))
    BY <1>1, <1>2, <1>14, <1>17, Zenon
  <2>2. pc' \notin {"build", "args", "open", "find"} /\ index' \in Nat
    BY <1>2, <1>4
  <2> QED BY <1>1, <1>2, <2>1, <2>2, Zenon DEF SectionInv, WalkInv
<1> QED BY <1>1, <1>15, <1>18, Zenon DEF SectionInv

LEMMA SectionStep == SectionInv /\ [Next]_vars => SectionInv'
<1> SUFFICES ASSUME SectionInv, [Next]_vars PROVE SectionInv'
  BY Zenon
<1>1. ASSUME NEW u \in Units, Compile(u) \/ CompileBare(u) \/ Link(u) PROVE SectionInv'
  BY <1>1, BuildStep, Zenon
<1>2. CASE Emit \/ ParseArgs \/ OpenFile
  BY <1>2, BuildStep, Zenon
<1>3. CASE FindSection
  BY <1>3, FindStep, Zenon
<1>4. CASE ReadHeader \/ LeaveLoop
  BY <1>4, HeaderStep, LeaveStep, Zenon
<1>5. CASE PrintEntry \/ NextBlock
  BY <1>5, EntryStep, BlockStep, Zenon
<1>6. CASE UNCHANGED vars
  <2>1. /\ UNCHANGED <<body, object, todo, order, section, tail>>
        /\ UNCHANGED <<pc, json, offset, index, printed, exit>>
    BY <1>6, Zenon DEF vars, build, dump
  <2>2. BuildInv'
    BY <2>1, Zenon DEF SectionInv, BuildInv
  <2>3. WalkInv'
    BY <2>1, Zenon DEF SectionInv, WalkInv
  <2>4. PrintInv'
    BY <2>1, Zenon DEF SectionInv, PrintInv
  <2> QED BY <2>2, <2>3, <2>4, Zenon DEF SectionInv
<1> QED BY <1>1, <1>2, <1>3, <1>4, <1>5, <1>6, Zenon DEF Next

LEMMA SectionAlways == Spec => []SectionInv
  BY SectionInit, SectionStep, PTL DEF Spec

-----------------------------------------------------------------------------
(* The theorems.                                                           *)

\* The reader's position stays within the section, and within the block whose
\* entries it prints, whatever bytes follow the blocks or are cut off them
\* (sentinel_dump.c:80-132).
THEOREM SectionTyped == Spec => []TypeOK
<1>1. SectionInv => TypeOK
  <2> SUFFICES ASSUME SectionInv PROVE TypeOK
    BY Zenon
  <2>1. ASSUME pc \in {"loop", "entries"}
        PROVE  offset <= Size /\ (pc = "entries" => index <= section.count[offset])
    <3>1. PICK s, p : /\ Laid(body, order, section, s)
                      /\ Place(body, order, section, tail, pc, s, p, offset, index, Len(printed))
      BY <2>1, WalkPlace, Zenon
    <3>2. body \in [Units -> Bodies] /\ order \in Seq(Units)
      BY Zenon DEF SectionInv, BuildInv
    <3>3. HeaderAt(body, order, section, s, p, offset)
      BY <3>1, <3>2, HeaderRead, ZenonT(30) DEF Place
    <3> QED BY <3>1, <3>3, Zenon DEF Place, HeaderAt, Size
  <2> QED BY <2>1, Zenon DEF SectionInv, BuildInv, WalkInv, TypeOK
<1> QED BY <1>1, SectionAlways, PTL

\* sentinel_dump shows what the units declare: the entries printed are the
\* first of the list read off the programs, in link order and with the numbers
\* the pass found, and all of them when the walk has passed a section made of
\* whole blocks (SentinelPass.cpp:205-362, sentinel_dump.c:60-139).
THEOREM DumpIsFaithful == Spec => []DumpFaithful
<1>1. SectionInv => DumpFaithful
  <2> SUFFICES ASSUME SectionInv PROVE DumpFaithful
    BY Zenon
  <2>1. \A j \in DOMAIN printed : Fits(body, order, tail, json, j, printed[j])
    BY Zenon DEF SectionInv, PrintInv
  <2>2. \A j \in DOMAIN printed : j \in DOMAIN Declared /\ Shown[j] = Declared[j]
    BY <2>1, Zenon DEF Fits, Shown, Declared
  <2>3. ASSUME pc = "done", printed # << >>, tail >= 0 PROVE Shown = Declared
    <3>1. body \in [Units -> Bodies] /\ order \in Seq(Units) /\ tail \in Int /\ printed \in Seq(Prints)
      BY Zenon DEF SectionInv, BuildInv, PrintInv
    <3>2. Len(printed) = Cardinality(Pairs(body, order))
      BY <2>3, <3>1 DEF SectionInv, PrintInv
    <3>3. DOMAIN printed = 1..Cardinality(Pairs(body, order))
      BY <3>1, <3>2
    <3>4. DOMAIN Declared = DOMAIN printed
      BY <3>1, <3>3, ListingDomain, Zenon DEF Declared
    <3>5. Declared = [j \in DOMAIN Declared |-> Declared[j]]
      BY Zenon DEF Declared, Listing
    <3>6. Shown = [j \in DOMAIN printed |-> Shown[j]]
      BY Zenon DEF Shown
    <3> HIDE DEF Declared, Shown
    <3> QED BY <2>2, <3>4, <3>5, <3>6, Zenon
  <2> QED BY <2>2, <2>3, Zenon DEF DumpFaithful
<1> QED BY <1>1, SectionAlways, PTL

\* The JSON list is well formed: for a section made of whole blocks a comma
\* follows every entry but the last, across the blocks of all units
\* (sentinel_dump.c:113).
THEOREM JsonIsSeparated == Spec => []JsonSeparated
<1>1. SectionInv => JsonSeparated
  <2> SUFFICES ASSUME SectionInv, pc = "done", json, tail = 0, NEW j \in DOMAIN printed
               PROVE  printed[j].comma <=> j < Len(printed)
    BY Zenon DEF JsonSeparated
  <2>1. printed \in Seq(Prints)
    BY Zenon DEF SectionInv, PrintInv
  <2>2. printed # << >>
    BY <2>1
  <2>3. Len(printed) = Cardinality(Pairs(body, order))
    BY <2>2 DEF SectionInv, PrintInv
  <2>4. printed[j].comma <=> json /\ j < Cardinality(Pairs(body, order))
    BY Zenon DEF SectionInv, PrintInv, Fits
  <2> QED BY <2>3, <2>4, Zenon
<1> QED BY <1>1, SectionAlways, PTL

\* The number declared for inline assembly is the constant in RAX, whatever
\* operands come before it; it is "any" only when RAX holds no constant or is
\* reached through a tied operand (SentinelPass.cpp:135-163).
THEOREM NumbersAreRax == Spec => []NumberIsRax
<1>1. SectionInv => NumberIsRax
  <2> SUFFICES ASSUME SectionInv, NEW u \in Units, NEW j \in DOMAIN object[u],
                      object[u][j].site # NullSite,
                      body[u][object[u][j].site[2]].kind = "asm",
                      NEW k \in InRax(body[u][object[u][j].site[2]].ops)
               PROVE  LET ops == body[u][object[u][j].site[2]].ops
                          nr  == DecodedNr(object[u][j].enc)
                      IN  \/ ops[k].const /\ ops[k].val = nr
                          \/ nr = AnyNr /\ (~ops[k].const \/ ops[k].val < 0 \/ ops[k].code = "0")
    BY Zenon DEF NumberIsRax
  <2> DEFINE code == body[u]
  <2>1. code \in Bodies
    BY Zenon DEF SectionInv, BuildInv
  <2>2. object[u] = Block(u, code)
    <3>1. object[u] # << >>
      OBVIOUS
    <3> QED BY <3>1, ZenonT(30) DEF SectionInv, BuildInv
  <2>3. j \in 1..Count(code) /\ Block(u, code)[j].site # NullSite
    BY <2>1, <2>2, BlockIs, Zenon
  <2> HIDE DEF code
  <2>a. PICK n \in DOMAIN code : /\ Block(u, code)[j].site = <<u, n>>
                                /\ DecodedNr(Block(u, code)[j].enc) = Resolved(SyscallNr(code[n]))
    BY <2>1, <2>3, EntryIs, Zenon
  <2>4. n \in DOMAIN code /\ object[u][j].site = <<u, n>>
        /\ DecodedNr(object[u][j].enc) = Resolved(SyscallNr(code[n]))
    BY <2>2, <2>a, Zenon
  <2>5. object[u][j].site[2] = n
    BY <2>4
  <2>6. code[n] \in Instructions /\ (code[n].kind = "asm" => \A a, b \in InRax(code[n].ops) : a = b)
    <3>1. code \in Seq(Instructions)
      BY <2>1, SectionAssumption, Zenon
    <3>2. code[n] \in Instructions
      BY <2>4, <3>1
    <3> QED BY <2>1, <2>4, <3>2, SectionAssumption, Zenon
  <2>7. code[n].kind = "asm" /\ k \in InRax(code[n].ops)
    BY <2>5, Zenon DEF code
  <2>8. code[n].ops \in Seq(Operands)
    BY <2>6, <2>7, Zenon DEF Instructions
  <2>9. SyscallNr(code[n]) = AsmNr(code[n].ops)
    BY <2>7, Zenon DEF SyscallNr
  <2> QED BY <2>4, <2>5, <2>6, <2>7, <2>8, <2>9, AsmSays, ZenonT(30) DEF code
<1> QED BY <1>1, SectionAlways, PTL

=============================================================================
