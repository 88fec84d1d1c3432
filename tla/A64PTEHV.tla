------------------------------ MODULE A64PTEHV ------------------------------
(***************************************************************************)
(* The AArch64 stage-2 descriptor (src/npt/arch/aarch64.rs), in the same   *)
(* representation as EPTEntry: a word is the set of its 1 bits.            *)
(***************************************************************************)
EXTENDS Integers

MappingFlags == {"READ", "WRITE", "EXECUTE", "USER", "DEVICE", "UNCACHED"}

VALID == {0}
NON_BLOCK == {1}
ATTR == 2..5
S2AP_RO == {6}
S2AP_WO == {7}
SHAREABLE == {9}
AF == {10}
XN == {54}
AllAttrs == (0..11) \cup {52, 54, 55} \cup (59..63)
PHYS_ADDR_MASK == 12..47

INNER_WRITE_BACK_CACHEABLE == {2, 3}
OUTER_WRITE_BACK_CACHEABLE == {4, 5}
OUTER_WRITE_BACK_NOCACHEABLE == {4}
NORMAL_BIT == INNER_WRITE_BACK_CACHEABLE \cup OUTER_WRITE_BACK_CACHEABLE

from_bits_truncate(w) == w \cap AllAttrs

from_mem_type(t) ==
    SHAREABLE \cup
    CASE t = "Normal" -> NORMAL_BIT
      [] t = "NormalNonCache" -> INNER_WRITE_BACK_CACHEABLE \cup OUTER_WRITE_BACK_NOCACHEABLE
      [] t = "Device" -> {}

mem_type(attr) ==
    CASE attr \cap ATTR = NORMAL_BIT -> "Normal"
      [] attr \cap ATTR = OUTER_WRITE_BACK_NOCACHEABLE -> "NormalNonCache"
      [] attr \cap ATTR = {} -> "Device"
      [] OTHER -> "panic"

\* impl From<DescriptorAttr> for MappingFlags
ToMappingFlags(attr) ==
    {x \in MappingFlags : \/ x = "READ" /\ VALID \subseteq attr
                          \/ x = "WRITE" /\ ~ S2AP_WO \subseteq attr
                          \/ x = "EXECUTE" /\ ~ XN \subseteq attr
                          \/ x = "DEVICE" /\ mem_type(attr) = "Device"}

\* impl From<MappingFlags> for DescriptorAttr
FromMappingFlags(f) ==
    from_mem_type(IF "DEVICE" \notin f THEN "Normal"
                  ELSE IF "UNCACHED" \in f THEN "NormalNonCache" ELSE "Device")
      \cup (IF "READ" \in f THEN VALID \cup S2AP_RO ELSE {})
      \cup (IF "WRITE" \in f THEN S2AP_WO ELSE {})

PageAttr(flags, huge) ==
    FromMappingFlags(flags) \cup AF \cup (IF huge THEN {} ELSE NON_BLOCK)

new_page(paddr, flags, huge) == PageAttr(flags, huge) \cup (paddr \cap PHYS_ADDR_MASK)

new_table(paddr) == NON_BLOCK \cup VALID \cup (paddr \cap PHYS_ADDR_MASK)

paddr_of(w) == w \cap PHYS_ADDR_MASK

\* flags() reads the memory type first, so it panics where mem_type does.
flags_panics(w) == mem_type(from_bits_truncate(w)) = "panic"

flags_of(w) == ToMappingFlags(from_bits_truncate(w))

set_paddr(w, paddr) == (w \ PHYS_ADDR_MASK) \cup (paddr \cap PHYS_ADDR_MASK)

set_flags(w, flags, huge) == (w \cap PHYS_ADDR_MASK) \cup PageAttr(flags, huge)

is_unused(w) == w = {}

\* Mutant: every entry in use is present.
IsUsed(w) == w # {}
is_present(w) == VALID \subseteq from_bits_truncate(w)

is_huge(w) == ~ NON_BLOCK \subseteq from_bits_truncate(w)

clear == {}

\* What the processor's stage-2 walk allows: a valid descriptor, the S2AP bit
\* of a read or a write, and no XN for an instruction fetch.
Permits(w, access) ==
    /\ VALID \subseteq w
    /\ "READ" \in access => S2AP_RO \subseteq w
    /\ "WRITE" \in access => S2AP_WO \subseteq w
    /\ "EXECUTE" \in access => ~ XN \subseteq w
=============================================================================
