------------------------------ MODULE EPTEntry ------------------------------
(***************************************************************************)
(* The x86_64 nested page-table entry (src/npt/arch/x86_64.rs).            *)
(*                                                                         *)
(* A 64-bit word, a flag word and a host physical address are each the set *)
(* of the positions of their 1 bits: `|` is \cup, `&` is \cap, `&!` is \,  *)
(* and the word 0 is the empty set.  MappingFlags (crate page_table_entry) *)
(* is the set of the flags' names.                                         *)
(***************************************************************************)
EXTENDS Integers

MappingFlags == {"READ", "WRITE", "EXECUTE", "USER", "DEVICE", "UNCACHED"}

READ == {0}
WRITE == {1}
EXECUTE == {2}
MEM_TYPE_MASK == 3..5
HUGE_PAGE == {7}
AllFlags == 0..10
PHYS_ADDR_MASK == 12..51

\* EPTMemType: the value shifted into bits 3..5 (0 is Uncached, 6 WriteBack).
Uncached == {}
WriteBack == {4, 5}

from_bits_truncate(w) == w \cap AllFlags

\* Mutant: the memory type is not set.
KeepMemType(attr, type) == attr
set_mem_type(attr, type) == from_bits_truncate((attr \ MEM_TYPE_MASK) \cup type)

mem_type(attr) == attr \cap MEM_TYPE_MASK

\* Mutant: WRITE does not set its bit.
FromMappingFlagsNoWrite(f) ==
    IF f = {} THEN {}
    ELSE (IF "READ" \in f THEN READ ELSE {}) \cup (IF "EXECUTE" \in f THEN EXECUTE ELSE {})
           \cup (IF "DEVICE" \in f THEN {} ELSE WriteBack)

\* impl From<MappingFlags> for EPTFlags
FromMappingFlags(f) ==
    LET rwx == (IF "READ" \in f THEN READ ELSE {})
                 \cup (IF "WRITE" \in f THEN WRITE ELSE {})
                 \cup (IF "EXECUTE" \in f THEN EXECUTE ELSE {})
    IN IF f = {} THEN {}
       ELSE IF "DEVICE" \in f THEN rwx ELSE set_mem_type(rwx, WriteBack)

\* impl From<EPTFlags> for MappingFlags
ToMappingFlags(attr) ==
    {x \in MappingFlags : \/ x = "READ" /\ READ \subseteq attr
                          \/ x = "WRITE" /\ WRITE \subseteq attr
                          \/ x = "EXECUTE" /\ EXECUTE \subseteq attr
                          \/ x = "DEVICE" /\ mem_type(attr) = Uncached}

\* Mutant: the huge bit is forgotten.
NewSmallPage(paddr, flags, huge) ==
    FromMappingFlags(flags) \cup (paddr \cap PHYS_ADDR_MASK)
new_page(paddr, flags, huge) ==
    FromMappingFlags(flags) \cup (IF huge THEN HUGE_PAGE ELSE {})
                            \cup (paddr \cap PHYS_ADDR_MASK)

new_table(paddr) == READ \cup WRITE \cup EXECUTE \cup (paddr \cap PHYS_ADDR_MASK)

paddr_of(w) == w \cap PHYS_ADDR_MASK

flags_of(w) == ToMappingFlags(from_bits_truncate(w))

\* EPTFlags::mem_type only returns an error value: flags() never panics.
flags_panics(w) == FALSE

set_paddr(w, paddr) == (w \ PHYS_ADDR_MASK) \cup (paddr \cap PHYS_ADDR_MASK)

\* Mutant: the old flags are not masked out.
AddFlags(w, flags, huge) ==
    w \cup FromMappingFlags(flags) \cup (IF huge THEN HUGE_PAGE ELSE {})
set_flags(w, flags, huge) ==
    (w \cap PHYS_ADDR_MASK) \cup FromMappingFlags(flags)
                            \cup (IF huge THEN HUGE_PAGE ELSE {})

is_unused(w) == w = {}

is_present(w) == w \cap (0..2) # {}

is_huge(w) == HUGE_PAGE \subseteq from_bits_truncate(w)

clear == {}

\* What the processor's EPT walk allows: each access needs its bit, and an entry
\* with WRITE but not READ is a misconfiguration, which allows none.  (EXECUTE
\* alone is allowed: processors with execute-only translations are assumed.)
Permits(w, access) ==
    /\ WRITE \subseteq w => READ \subseteq w
    /\ "READ" \in access => READ \subseteq w
    /\ "WRITE" \in access => WRITE \subseteq w
    /\ "EXECUTE" \in access => EXECUTE \subseteq w
=============================================================================
