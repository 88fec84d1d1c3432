# Verification of axaddrspace

TLA+ models of the guest address spaces of the `axaddrspace` crate, model-checked
with TLC, with proofs checked by TLAPS. Paths below are relative to the crate's
`src/`.

## The system

A hypervisor keeps one `AddrSpace` per VM. It is a set of memory areas (crate
`memory_set`) and a nested page table (crate `page_table_multiarch`) whose entry
formats are defined here. Each area has a `Backend`, which says how its pages are
backed. Frames come from the platform through a HAL. Guests run on vCPUs that walk
the page table in hardware; an access the table does not allow comes back as a
nested page fault.

| Part | Source | State | Operations | Module |
|---|---|---|---|---|
| AddrSpace | `address_space/mod.rs` | `va_range`, `areas`, `pt` | `new_empty`, `map_linear`, `map_alloc`, `unmap`, `clear`, `Drop`, `handle_page_fault`; read-only `translate`, `translated_byte_buffer`, `translate_and_get_limit` | `AddrSpace`, `Translation` |
| Backend | `address_space/backend/` | linear offset, or `populate` | `map`, `unmap`, `handle_page_fault`, `protect` | inside the actions of `AddrSpace` |
| Page-table entries | `npt/arch/x86_64.rs`, `npt/arch/aarch64.rs` | one 64-bit word | `new_page`, `new_table`, `set_paddr`, `set_flags`, `clear` and the readers | `EPTEntry`, `A64PTEHV`, `NestedPte`, `PteLife` |
| HAL | `hal.rs` | the free frames | `alloc_frame`, `dealloc_frame`, address conversions | `AddrSpace` |
| Page-fault information, errors | `lib.rs` | pending fault, result | | `AddrSpace` |
| TLB flushing | `flush_tlb` in `npt/arch/` | the processors' TLBs | flush one, flush all | not yet |
| GuestMemoryAccessor | `memory_accessor.rs` | none | `read_obj`, `write_obj`, `read_buffer`, `write_buffer` | not yet |
| PhysFrame | `frame.rs` | an owned frame | `alloc`, `alloc_zero`, `uninit`, `Drop` | not yet |
| Devices | `device/` | none | `AccessWidth` conversions, address ranges | not yet |
| RISC-V entries, address types, test HAL | `npt/arch/riscv.rs`, `addr.rs`, `test_utils/` | | aliases, macros and mocks | not modelled |

## Modules

**EPTEntry**, **A64PTEHV**: the two entry formats. A word is the set of its 1 bits,
so `|`, `&` and `& !` are union, intersection and difference. Both conversions
between `MappingFlags` and attribute bits are written as the code does them.
`Permits` is what the processor's walk allows (external). An EPT entry with WRITE and
without READ is a misconfiguration and allows nothing; processors that support
execute-only translations are assumed, and so is that the memory types the code
writes are valid.

**NestedPte**: selects the format as `npt/mod.rs` does by target, and presents an
entry as a host page number and attribute bits. `PteLife` checks, and
`RemapIsFreshMapping` proves for `set_flags`, that the two fields do not disturb
each other. Page numbers are not masked to the width of the address field: host
addresses are assumed to fit it.

**PteLife**: the life of one entry under the calls that `PageTable64` makes, with
`held` recording what the entry was last told.

**AddrSpace**: the address spaces of all VMs over one allocator.

| Variable | Stands for |
|---|---|
| `areas[vm]` | the areas: page range, flags, backend and offset |
| `pt[vm][p]` | the leaf entry of guest page `p` |
| `tables[vm][t]` | the frame of page table `t`, 0 if there is none; the root is non-zero while the AddrSpace exists |
| `free` | the frames the allocator has left |
| `op[vm]` | the map call in progress: its area, next page, frame in hand |
| `fault[vm][c]` | the `NestedPageFaultInfo` vCPU `c` waits on |
| `ret[vm]` | the last result; `"panic"` stops the host |

The calls take `&mut self`, so calls on one AddrSpace are serialised, and every
call but map is one action. A map call is one action per call to the HAL or the
page table (`MapAllocFrame`, `MapTable`, `MapEntry`, `MapDone`), because it can fail
between any two and because other VMs use the allocator and vCPUs use the half-built
table meanwhile. A fault is taken in one step (`guest_access`) and handled in
another (`handle_page_fault`), and anything may happen to the areas in between.
All other calls on the same AddrSpace happen before or after, as the borrow rules
say. `unmap` and `clear` only give frames back, so doing that at once hides no
failure. A panic stops the host, so what a panicking call did before is left out.

Addresses and sizes of calls are bytes and keep their alignment checks. The offset
of a linear area is a `usize` and wraps modulo `UsizePages` in a release build; with
`OverflowChecks` the subtraction panics.

What the models say of other crates is taken from how this one uses them:
`MemorySet::map` refuses empty and overlapping areas and inserts the area only if
the backend succeeds; `MemorySet::unmap` removes the areas inside the range, then
shrinks or splits those that reach over its ends, and unwraps the removals;
`PageTable64::map` creates the missing tables of the walk from the top and refuses an
entry in use; `unmap` fails on an entry that is not present and leaves it clear;
`remap` replaces an entry whatever it holds; dropping the table frees all tables.
Huge pages do not occur: every `map_region` call passes `allow_huge = false`.

**Translation**: `translate` and `translated_byte_buffer` as operators on that state.

**MCAddrSpace**, **MCPteLife**: instances for TLC.

**NestedPteProofs**, **AddrSpaceProofs**: theorems. The lemmas of the second are in
**AddrSpaceLemmas** (addresses, frames, parts of the invariant), **AddrSpaceMapProofs**
(`new_empty` and the map calls) and **AddrSpaceUnmapProofs** (`unmap`, `clear`, `drop`).

## Runs that pass

| Run | Instance | Properties |
|---|---|---|
| `x86_areas` | three whole pages and half a one; aligned, unaligned, empty and out-of-range arguments; failing allocations | `TypeOK`, `AreasWellFormed`, `BackedAsPromised`, `BufferMatchesTranslate`, `MapReturns` |
| `x86_faults` | two vCPUs, three-level table, failing allocations, flags with READ | `NoFreeFrameInUse`, `WalkComplete`, `NoPanic`, `HandledMeansAccessible`, `BackedPageKeepsFrame` |
| `a64_faults` | AArch64 entries, one vCPU, failing allocations, areas with and without READ (entries that are not present) | `FramesExclusive`, `NoFreeFrameInUse`, `AreasWellFormed`, `BackedAsPromised`, `PanicsOnlyOnAbsentPages`, `HandledMeansAccessible` |
| `x86_two_vms` | two VMs on one allocator, map calls interleaved | `FramesExclusive` |
| `x86_no_failure` | three pages, one vCPU, seven frames: allocation never fails | `NoFrameLost`, `ReachableOnlyThroughAreas`, `UnmapExact` |
| `pte_life` | both formats, every set of flags, host addresses with the lowest and highest bit | `FieldsIndependent`, `TableNotPage`, `PresentMeansUsable`, `PermissionsExact`, `EPTFlagsReadBack` |

`x86_no_failure` asks for what holds only without failed populating maps and double
faults (see below); its seven frames cover the root, all other
tables and the pages, so `alloc_fails` is never enabled there. `NoPanic` is
checked for a release build and for flags that include READ; with any flags,
`PanicsOnlyOnAbsentPages` says which areas can make a call panic. `a64_faults` does
not check for deadlock: after a panic nothing more happens.

Three properties depend on flags, and say so themselves:

- `HandledMeansAccessible` is about areas with READ. Both formats need it: AArch64
  sets VALID only for READ, and WRITE alone is an EPT misconfiguration. What
  happens without READ is the run `a64_write_only_fault` below.
- `PresentMeansUsable` excepts exactly the misconfigured EPT entries. They count as
  present, so `unmap` finds them, but allow no access.
- `PermissionsExact` says for every set of flags what the processor allows. The
  accesses asked for and those allowed agree only with READ, and on AArch64 only for
  reads and writes.

**Bounds.** Two-byte pages make unaligned calls and buffers that start inside a page
possible. Three whole pages (`x86_areas`, `x86_no_failure`) let `unmap` split an area
in the middle; two pages and tables of two entries put neighbouring pages under
different leaf tables, and three levels (`x86_faults`) make a walk miss tables at two
levels. A `va_range` that ends inside a page makes faults past its end possible on a
page that the table has; calls are aligned, so no area reaches that page, and
the range check of `handle_page_fault` and the search for an area always agree.
Five frames run out during a mapping in every order. In `x86_faults` they back one page
at a time under two leaf tables; two backed pages exist together in
`a64_faults`, `x86_areas` and `x86_no_failure`, and one in each VM in `x86_two_vms`, whose
six frames are just enough for both VMs, so that no allocation fails there. Unmap
calls that fail part-way need entries that are not present and happen in
`a64_faults`. `UsizePages = 16`
and host pages above the guest ones make the linear offset wrap. The allocator picks
the lowest free frame: frames are only compared, so the choice only renames them.
Nothing in the model counts up, so no other bound is needed.

**Fairness.** `MapReturns` assumes weak fairness of the steps of a map call: it is
straight-line code on a host CPU that keeps running, and no step of it waits.
Nothing is assumed of callers, guests, or the allocator's success. It is a claim
about the loop: every turn maps a page or ends the call.

## Disagreements found

Each is a run in which TLC violates what a comment, a document or an example says;
`PROJECT.json` quotes them.

| Run | What happens |
|---|---|
| `drop_after_failed_map` | a populating `map_alloc` that fails part-way undoes nothing; `Drop` never returns its frames |
| `two_faults_one_page` | two vCPUs fault on one lazy page: the second fault replaces the first one's frame, which is lost |
| `buffer_over_unmapped_page` | `translated_byte_buffer` panics on a page that is not backed, or past the end of the area |
| `linear_offset_underflow` | with overflow checks `map_linear` panics when the host address is above the guest one, as in the crate's README |
| `a64_flags_read_back` | `flags()` reports WRITE the wrong way round and EXECUTE always |
| `a64_write_only_fault` | a fault in a lazy area with WRITE and no READ is answered `true`, but the entry is invalid: the access faults again, and each time a frame is lost |

The models contain other behaviours that a reader of the code may not expect. They
are why some properties are checked on narrower instances:

- After a populating map that failed, its pages stay mapped without an area, and
  `unmap` does not visit them (`UnmapExact` and `ReachableOnlyThroughAreas` are checked
  without failures).
- AArch64 sets VALID only for READ. Without READ, populated pages fault on every
  access, and `unmap` and `clear` fail or panic on linear ones. An `unmap` that failed
  may leave a linear area with cleared pages (the exception of `BackedAsPromised`).
- On x86_64, WRITE without READ makes entries that the processor rejects as
  misconfigured, and that the crate counts as present. The model takes the exit they
  cause for a page fault.
- `pt.remap` in a page fault would lose the new frame if it failed. The model has that
  path; `WalkComplete` shows that it is never taken.
- AArch64 never sets XN, so every readable page can be executed, and
  `flags()` panics on a page mapped `DEVICE | UNCACHED`, whose memory type it does not
  know.
- A fault overtaken by a map call that makes the access legal returns `false` for
  linear and populated areas.

## Proofs

`NestedPteProofs` proves `RemapIsFreshMapping`: in both formats, changing address and
flags of an entry gives exactly the entry of a fresh mapping.

`AddrSpaceProofs` proves for all values of the constants

- `TypeCorrect`: `Spec => []TypeOK`,
- `FrameExclusivity`: `Spec => []FramesExclusive`,
- `NoUseAfterFree`: `Spec => []NoFreeFrameInUse`.

The assumptions are the named `ASSUME`s of `AddrSpace`: sizes are positive, frame 0
is never handed out, callers of `map_linear` map only host pages that the allocator
does not manage, and the allocator picks among its free frames. The number of VMs,
vCPUs, levels, the allocator's policy and its failures are arbitrary, in release and
debug builds.

Neither frame property is inductive. Giving a frame back is safe only if `unmap_alloc`
finds a frame of the allocator behind every present entry of an allocation area, and
only one entry holds it. `IndInv` therefore adds

- `PagesInRange`: areas, also the one being mapped, lie in the table;
- `MapOpSane`: a map call is inside its area, which is disjoint from all others (so
  its pages are not given back by another area), and a linear one reaches no frame of
  the allocator;
- `AllocBacked`: present entries of allocation areas, and of the part of one already
  mapped, hold frames of the allocator. A placeholder holds 0 and must not be present
  (`PlaceholderAbsent`, in both formats).

There is one lemma per action (`NewEmptyInv` to `HandlePageFaultInv`). The actions that
write one entry share `PageWriteExclusive`; `unmap` and `clear` share
`UnmapPagesInv`, which is about clearing any set of pages and freeing what allocation
areas hold there. `NextInv` puts them together and `Invariance` concludes.

Only model-checked: liveness (`MapReturns`), which the prover does not support;
`AreasWellFormed`, `BackedAsPromised`, `WalkComplete`, `NoPanic`,
`PanicsOnlyOnAbsentPages`, the action properties
and the properties of `Translation` and `PteLife`, whose proofs are planned.

## Not modelled

- TLBs. Hardware sees the page table at once, so a missing flush cannot be observed.
- The contents of memory. `BackedPageKeepsFrame` stands for keeping the guest's data.
- `Backend::protect`: no operation of this crate calls it.
- `phys_to_virt` and `virt_to_phys`, logging and Debug output.
- `start + size` beyond `usize` in `contains_range`: calls stay inside.

## Plan

1. **GuestMemoryAccessor**: the region-by-region copy loop as a process, with the limit
   of `translate_and_get_limit`; an abstract guest memory that a read or write call
   implements (refinement), partial failure of a write, progress of the loop.
   Composition with `AddrSpace`: the limit is the size of the area, whose pages need
   not be contiguous in the host.
2. **TLBs**: one per vCPU, filled by walks, composed with `AddrSpace`; which of the
   calls flush, and what a vCPU may still reach after `unmap`.
3. **PhysFrame** over the same allocator; **device** conversions and ranges as operators
   checked against reference definitions; `Backend::protect` with `MemorySet::protect`.
4. **An abstract address space** (areas and their promises, no tables) that `AddrSpace`
   implements when allocation does not fail.
5. **Proofs**: `AreasWellFormed`, `BackedAsPromised` and `WalkComplete` from an extended
   `IndInv`; `HandledMeansAccessible` and `BackedPageKeepsFrame` from them; the
   properties of `PteLife` for every address; then the refinement of 4.
