------------------------------- MODULE VmaMap -------------------------------
(***************************************************************************)
(* vma_map: the LPM trie that takes an address to a module.  The loader    *)
(* stores fixed-size blocks (VMA_BLOCK_SIZE, prefix length 44), so the     *)
(* longest match of a full address is the entry of its block.  The trie is *)
(* a function from block numbers to values [id, base].                     *)
(***************************************************************************)
EXTENDS Ranks

CONSTANTS
  Space,      \* size of the address space, 2^64
  BlockSize,  \* VMA_BLOCK_SIZE
  VmaCap      \* max_entries of vma_map

ASSUME VmaAssumption ==
  /\ BlockSize \in Nat /\ BlockSize > 0
  /\ Space \in Nat /\ Space > 0 /\ Space % BlockSize = 0
  /\ VmaCap \in Nat

Addresses == 0..(Space - 1)

BlockOf(addr) == addr \div BlockSize

\* u64 subtraction
Offset(addr, base) == (addr - base) % Space

\* Mutant: the first block starts at min_addr, not at its block boundary.
KeysUnaligned(lo, hi) ==
  {BlockOf(a) : a \in {lo + i * BlockSize : i \in 0..((hi - lo - 1) \div BlockSize)}}

\* The blocks from the one that contains lo up to hi, exclusive.
Keys(lo, hi) ==
  {BlockOf(a) : a \in {b \in (BlockOf(lo) * BlockSize)..(hi - 1) : b % BlockSize = 0}}

\* Mutant: the trie has room for every key.
AcceptedAll(vma, keys) == keys

\* bpf_map_update_elem on each key in ascending order: an update of a present
\* key succeeds, a new key only as long as there is room; a failure is ignored.
Accepted(vma, keys) ==
  (keys \cap DOMAIN vma)
    \cup FirstFew(keys \ DOMAIN vma, VmaCap - Cardinality(DOMAIN vma))

Populated(vma, keys, val) ==
  LET acc == Accepted(vma, keys)
  IN  [k \in DOMAIN vma \cup acc |-> IF k \in acc THEN val ELSE vma[k]]

=============================================================================
