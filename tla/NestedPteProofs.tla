-------------------------- MODULE NestedPteProofs --------------------------
(***************************************************************************)
(* What the address space needs to know of either entry format, proved     *)
(* from the bits.                                                          *)
(***************************************************************************)
EXTENDS NestedPte, TLAPS

\* The bits EPTEntry::new_page sets for a 4K page at address 0.
LEMMA EPTBits ==
    ASSUME NEW flags
    PROVE  X86!FromMappingFlags(flags) \subseteq 0..5
  <1>1. X86!READ \subseteq 0..5 /\ X86!WRITE \subseteq 0..5 /\ X86!EXECUTE \subseteq 0..5
    BY DEF X86!READ, X86!WRITE, X86!EXECUTE
  <1>2. \A S \in SUBSET (0..5) : X86!set_mem_type(S, X86!WriteBack) \subseteq 0..5
    BY DEF X86!set_mem_type, X86!WriteBack, X86!MEM_TYPE_MASK, X86!from_bits_truncate,
           X86!AllFlags
  <1> QED
    BY <1>1, <1>2 DEF X86!FromMappingFlags

\* The bits A64PTEHV::new_page sets for a 4K page at address 0.
LEMMA A64Bits ==
    ASSUME NEW flags
    PROVE  A64!PageAttr(flags, FALSE) \subseteq 0..10
  <1>1. A64!from_mem_type("Normal") \subseteq 0..10
    BY DEF A64!from_mem_type, A64!SHAREABLE, A64!NORMAL_BIT,
           A64!INNER_WRITE_BACK_CACHEABLE, A64!OUTER_WRITE_BACK_CACHEABLE
  <1>2. A64!from_mem_type("NormalNonCache") \subseteq 0..10
    BY DEF A64!from_mem_type, A64!SHAREABLE, A64!INNER_WRITE_BACK_CACHEABLE,
           A64!OUTER_WRITE_BACK_NOCACHEABLE
  <1>3. A64!from_mem_type("Device") \subseteq 0..10
    BY DEF A64!from_mem_type, A64!SHAREABLE
  <1>4. /\ A64!VALID \subseteq 0..10 /\ A64!S2AP_RO \subseteq 0..10
        /\ A64!S2AP_WO \subseteq 0..10 /\ A64!AF \subseteq 0..10
        /\ A64!NON_BLOCK \subseteq 0..10
    BY DEF A64!VALID, A64!S2AP_RO, A64!S2AP_WO, A64!AF, A64!NON_BLOCK
  <1> QED
    BY <1>1, <1>2, <1>3, <1>4 DEF A64!PageAttr, A64!FromMappingFlags

\* A new page's attributes are attribute bits: no flag touches the address.
LEMMA AttrType ==
    ASSUME NEW flags
    PROVE  AttrOf(flags) \in Attr
  <1>1. X86!new_page({}, flags, FALSE) = X86!FromMappingFlags(flags)
    BY DEF X86!new_page
  <1>2. A64!new_page({}, flags, FALSE) = A64!PageAttr(flags, FALSE)
    BY DEF A64!new_page
  <1>3. \A S : S \subseteq 0..10 => S \in Attr
    BY DEF Attr
  <1>4. \A S : S \subseteq 0..5 => S \in Attr
    BY DEF Attr
  <1>5. X86!new_page({}, flags, FALSE) \in Attr
    BY <1>1, <1>4, EPTBits, Zenon
  <1>6. A64!new_page({}, flags, FALSE) \in Attr
    BY <1>2, <1>3, A64Bits, Zenon
  <1> QED
    BY <1>5, <1>6 DEF AttrOf

\* A new page is an entry.
LEMMA NewPageType ==
    ASSUME NEW paddr \in Nat, NEW flags
    PROVE  NewPage(paddr, flags) \in Entry
  BY AttrType DEF NewPage, Entry

\* The entry of a lazy page, address 0 and no flags, is not present in either
\* format: no guest access goes through it.
LEMMA PlaceholderAbsent == ~ IsPresent(NewPage(0, {}))
  BY ArchAssumption
     DEF IsPresent, NewPage, AttrOf, X86!new_page, X86!is_present, X86!FromMappingFlags,
         A64!new_page, A64!is_present, A64!PageAttr, A64!FromMappingFlags,
         A64!from_mem_type, A64!VALID, A64!from_bits_truncate, A64!AllAttrs,
         A64!SHAREABLE, A64!NORMAL_BIT, A64!INNER_WRITE_BACK_CACHEABLE,
         A64!OUTER_WRITE_BACK_CACHEABLE, A64!AF, A64!NON_BLOCK

\* A cleared entry is not present.
LEMMA UnusedAbsent == Unused \in Entry /\ ~ IsPresent(Unused)
  BY DEF Unused, Entry, Attr, IsPresent, X86!is_present, A64!is_present, A64!VALID,
         A64!from_bits_truncate

\* set_paddr and set_flags on an entry make exactly the entry that mapping the
\* frame afresh would: a page fault's remap leaves nothing of the placeholder.
THEOREM RemapIsFreshMapping ==
    ASSUME NEW e \in Entry, NEW paddr, NEW flags
    PROVE  SetEntry(e, paddr, flags) = NewPage(paddr, flags)
  <1>1. e.attr \cap X86!PHYS_ADDR_MASK = {} /\ e.attr \cap A64!PHYS_ADDR_MASK = {}
    BY DEF Entry, Attr, X86!PHYS_ADDR_MASK, A64!PHYS_ADDR_MASK
  <1>2. X86!set_flags(e.attr, flags, FALSE) = X86!new_page({}, flags, FALSE)
    BY <1>1 DEF X86!set_flags, X86!new_page
  <1>3. A64!set_flags(e.attr, flags, FALSE) = A64!new_page({}, flags, FALSE)
    BY <1>1 DEF A64!set_flags, A64!new_page
  <1> QED
    BY <1>2, <1>3 DEF SetEntry, NewPage, AttrOf
=============================================================================
