------------------------------ MODULE PteLife ------------------------------
(***************************************************************************)
(* The life of one nested page-table entry: what PageTable64 does to it    *)
(* through GenericPTE (src/npt/arch/), on the bits of the word.            *)
(* `held` records what the entry was last told, and the properties ask     *)
(* whether the word still says so.                                         *)
(***************************************************************************)
EXTENDS Integers

CONSTANTS
    Archs,   \* targets the crate is built for
    Paddr    \* host addresses, each the set of its 1 bits

ASSUME ArchsAssumption == Archs \subseteq {"x86_64", "aarch64"}

ASSUME PaddrAssumption == Paddr \subseteq SUBSET (12..47)

VARIABLES arch, word, held

pteVars == <<arch, word, held>>

X86 == INSTANCE EPTEntry
A64 == INSTANCE A64PTEHV

Flag == X86!MappingFlags

IsX86 == arch = "x86_64"

Nothing == [kind |-> "unused", paddr |-> {}, flags |-> {}, huge |-> FALSE]

PteInit == arch \in Archs /\ word = {} /\ held = Nothing

new_page(a, f, h) ==
    /\ word = {}
    /\ word' = IF IsX86 THEN X86!new_page(a, f, h) ELSE A64!new_page(a, f, h)
    /\ held' = [kind |-> "page", paddr |-> a, flags |-> f, huge |-> h]
    /\ UNCHANGED arch

new_table(a) ==
    /\ word = {}
    /\ word' = IF IsX86 THEN X86!new_table(a) ELSE A64!new_table(a)
    /\ held' = [Nothing EXCEPT !.kind = "table", !.paddr = a]
    /\ UNCHANGED arch

set_paddr(a) ==
    /\ held.kind = "page"
    /\ word' = IF IsX86 THEN X86!set_paddr(word, a) ELSE A64!set_paddr(word, a)
    /\ held' = [held EXCEPT !.paddr = a]
    /\ UNCHANGED arch

set_flags(f) ==
    /\ held.kind = "page"
    /\ word' = IF IsX86 THEN X86!set_flags(word, f, held.huge)
                        ELSE A64!set_flags(word, f, held.huge)
    /\ held' = [held EXCEPT !.flags = f]
    /\ UNCHANGED arch

clear ==
    /\ held.kind # "unused"
    /\ word' = IF IsX86 THEN X86!clear ELSE A64!clear
    /\ held' = Nothing
    /\ UNCHANGED arch

PteNext ==
    \/ \E a \in Paddr, f \in SUBSET Flag, h \in BOOLEAN : new_page(a, f, h)
    \/ \E a \in Paddr : new_table(a) \/ set_paddr(a)
    \/ \E f \in SUBSET Flag : set_flags(f)
    \/ clear

PteSpec == PteInit /\ [][PteNext]_pteVars

-----------------------------------------------------------------------------

ReadPaddr == IF IsX86 THEN X86!paddr_of(word) ELSE A64!paddr_of(word)
ReadFlags == IF IsX86 THEN X86!flags_of(word) ELSE A64!flags_of(word)
FlagsPanic == IF IsX86 THEN X86!flags_panics(word) ELSE A64!flags_panics(word)
Present == IF IsX86 THEN X86!is_present(word) ELSE A64!is_present(word)
Huge == IF IsX86 THEN X86!is_huge(word) ELSE A64!is_huge(word)
Allowed(access) == IF IsX86 THEN X86!Permits(word, access) ELSE A64!Permits(word, access)

\* The address and the attributes of an entry do not disturb each other: after
\* any sequence of set_paddr and set_flags, as remap makes them, paddr() is the
\* last address set and the attribute bits are those of a new page of the same
\* flags.
FieldsIndependent ==
    /\ ReadPaddr = held.paddr
    /\ held.kind = "page" =>
         word \ held.paddr = IF IsX86 THEN X86!new_page({}, held.flags, held.huge)
                                      ELSE A64!new_page({}, held.flags, held.huge)

\* A walk can tell a table from a page: a table is present and not huge, and a
\* page is huge exactly when it was made so.
TableNotPage ==
    /\ held.kind = "table" => Present /\ ~ Huge
    /\ held.kind = "page" => Huge = held.huge

AccessKind == {"READ", "WRITE", "EXECUTE"}

\* WRITE without READ makes an EPT entry that the processor takes for a
\* misconfiguration, while is_present of x86_64.rs counts it as present.
Misconfigured == IsX86 /\ "WRITE" \in held.flags /\ "READ" \notin held.flags

\* Every page through which the processor allows some access counts as present,
\* so that unmap finds it, and every page that counts as present allows some
\* access, except exactly the misconfigured EPT entries.
PresentMeansUsable ==
    held.kind = "page" =>
        ((\E x \in AccessKind : Allowed({x})) <=> Present /\ ~ Misconfigured)

\* What the conversion from MappingFlags lets the processor allow, for every set
\* of flags.  With READ: exactly the accesses in the flags, but that AArch64
\* never sets XN and allows all fetches.  Without READ: nothing, but for the
\* fetches of an x86_64 page that is EXECUTE and not WRITE.
PermissionsExact ==
    held.kind = "page" => \A x \in AccessKind :
        Allowed({x}) <=>
            IF "READ" \in held.flags
              THEN x \in held.flags \/ (x = "EXECUTE" /\ ~ IsX86)
              ELSE IsX86 /\ x = "EXECUTE" /\ held.flags \cap AccessKind = {"EXECUTE"}

\* flags() of a present page returns what it was mapped with, but for USER and
\* UNCACHED, which nested entries do not have.
FlagsReadBack ==
    held.kind = "page" /\ Present =>
        ~ FlagsPanic /\ ReadFlags = held.flags \ {"USER", "UNCACHED"}

\* On x86_64 flags() and the conversion from MappingFlags agree.
EPTFlagsReadBack == IsX86 => FlagsReadBack
=============================================================================
