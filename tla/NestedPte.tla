----------------------------- MODULE NestedPte -----------------------------
(***************************************************************************)
(* The page-table entry of the target the crate is built for: npt/mod.rs   *)
(* selects it by target_arch.                                              *)
(*                                                                         *)
(* The address space sees an entry as a record of the host page number it  *)
(* points to and its attribute bits.  The two never overlap in the word    *)
(* (PteLife checks this), so an attribute is the entry of address 0.       *)
(***************************************************************************)
EXTENDS Integers

CONSTANT Arch

ASSUME ArchAssumption == Arch \in {"x86_64", "aarch64"}

X86 == INSTANCE EPTEntry
A64 == INSTANCE A64PTEHV

Flag == X86!MappingFlags

\* The attribute bits of a 4K page mapped with flags.
AttrOf(flags) ==
    IF Arch = "x86_64" THEN X86!new_page({}, flags, FALSE)
                       ELSE A64!new_page({}, flags, FALSE)

NewPage(paddr, flags) == [paddr |-> paddr, attr |-> AttrOf(flags)]

Unused == [paddr |-> 0, attr |-> {}]

IsUnused(e) == e = Unused

IsPresent(e) ==
    IF Arch = "x86_64" THEN X86!is_present(e.attr) ELSE A64!is_present(e.attr)

\* Mutant: the flags of the old entry stay.
SetPaddrOnly(e, paddr, flags) == [paddr |-> paddr, attr |-> e.attr]

\* set_paddr, then set_flags: what PageTable64::remap does to the entry.
SetEntry(e, paddr, flags) ==
    [paddr |-> paddr,
     attr |-> IF Arch = "x86_64" THEN X86!set_flags(e.attr, flags, FALSE)
                                 ELSE A64!set_flags(e.attr, flags, FALSE)]

EntryPermits(e, access) ==
    IF Arch = "x86_64" THEN X86!Permits(e.attr, access) ELSE A64!Permits(e.attr, access)

QueryPanics(e) ==
    IF Arch = "x86_64" THEN X86!flags_panics(e.attr) ELSE A64!flags_panics(e.attr)

\* The attribute bits: all but those of the address in either format.
Attr == SUBSET ((0..11) \cup (52..63))

Entry == [paddr : Nat, attr : Attr]
=============================================================================
