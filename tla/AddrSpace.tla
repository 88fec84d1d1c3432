----------------------------- MODULE AddrSpace -----------------------------
(***************************************************************************)
(* The guest address spaces of a hypervisor (src/address_space/), one per  *)
(* VM, over the host frame allocator they share.                           *)
(*                                                                         *)
(* Calls on one AddrSpace take &mut self, so they are serialised: unmap,   *)
(* clear, drop and handle_page_fault are one action each.  A map call is   *)
(* the sequence of its calls to the HAL and the page table, one action     *)
(* each, during which the VM's other calls wait, its vCPUs keep running on *)
(* the page table as it is, and the other VMs keep using the allocator.    *)
(*                                                                         *)
(* Guest addresses and sizes are bytes, page numbers are addresses divided *)
(* by PageSize.  Number 0 is the absent host frame.                        *)
(***************************************************************************)
EXTENDS Integers, FiniteSets, NestedPte

CONSTANTS
    Vm,               \* the virtual machines, one AddrSpace each
    Vcpu,             \* the virtual CPUs of a VM
    Base, Size,       \* va_range of every AddrSpace, in bytes
    PageSize,         \* bytes of a 4K page
    UsizePages,       \* pages of the host's usize address range
    Levels, Fanout,   \* levels of the page table, entries of a table
    Frame,            \* host frames the allocator manages
    HostRegion,       \* host pages callers of map_linear own
    AllocChoices(_),  \* frames alloc_frame may pick among the free ones
    HalMayFail,       \* alloc_frame may fail with frames left
    OverflowChecks,   \* built with overflow checks (debug) or not (release)
    GuestAddr, CallSize, HostAddr, FlagChoices, GuestAccess  \* inputs

ASSUME GeometryAssumption ==
    /\ Base \in Nat /\ Size \in Nat
    /\ PageSize \in Nat \ {0} /\ UsizePages \in Nat \ {0}
    /\ Levels \in Nat \ {0} /\ Fanout \in Nat \ {0}

\* Host memory: page 0 is never handed out, and the pages that callers map
\* linearly are not managed by the allocator.
ASSUME HostMemoryAssumption ==
    /\ Frame \subseteq 1..(UsizePages - 1)
    /\ HostRegion \subseteq 0..(UsizePages - 1)
    /\ Frame \cap HostRegion = {}

ASSUME AllocatorAssumption == \A S \in SUBSET Frame : AllocChoices(S) \subseteq S

ASSUME InputAssumption ==
    /\ GuestAddr \subseteq 0..(UsizePages * PageSize - 1)
    /\ HostAddr \subseteq 0..(UsizePages * PageSize - 1)
    /\ CallSize \subseteq Nat
    /\ FlagChoices \subseteq SUBSET Flag
    /\ GuestAccess \subseteq [addr : Nat, access : SUBSET Flag]
    /\ HalMayFail \in BOOLEAN /\ OverflowChecks \in BOOLEAN

VARIABLES
    areas,   \* areas[vm]: the memory areas of the MemorySet
    pt,      \* pt[vm][p]: the leaf entry of guest page p
    tables,  \* tables[vm][t]: the frame of page table t, 0 if absent
    free,    \* the frames the allocator has left
    op,      \* op[vm]: the map call in progress
    fault,   \* fault[vm][c]: the page fault vCPU c waits on
    ret      \* ret[vm]: what the last call returned

vars == <<areas, pt, tables, free, op, fault, ret>>

-----------------------------------------------------------------------------
(* Pages, tables and areas.                                                *)

PageOf(addr) == addr \div PageSize

Aligned(n) == n % PageSize = 0

contains(addr) == Base <= addr /\ addr < Base + Size

\* Mutant: only the end of the range is checked.
ContainsEnd(start, size) == start + size <= Base + Size
contains_range(start, size) == Base <= start /\ start + size <= Base + Size

\* The guest pages that reach into va_range.
Page == {p \in 0..(Base + Size) : p * PageSize < Base + Size}

Root == <<0, 0>>

\* The tables below the root on the walk to page p, the last one the leaf's.
Walk(p) == {<<i, p \div Fanout ^ (Levels - i)>> : i \in 1..(Levels - 1)}

Table == {Root} \cup UNION {Walk(p) : p \in Page}

Missing(vm, p) == {t \in Walk(p) : tables[vm][t] = 0}

\* A MemoryArea with its Backend: linear with pa_va_offset, or an allocation
\* that is populated when it is mapped or lazily, by page faults.
Area == [start : Nat, end : Nat, flags : SUBSET Flag,
         backend : {"linear", "populate", "lazy"}, offset : 0..(UsizePages - 1)]

Pages(a) == a.start .. (a.end - 1)

\* Mutant: an area is only noticed if it starts inside the new one.
StartsInside(a, b) == b.start <= a.start /\ a.start < b.end
Overlaps(a, b) == a.start < b.end /\ b.start < a.end

\* Mutant: the subtraction does not wrap.
PlainSub(a, b) == a - b

\* `a - b` on usize, counted in pages: it wraps around.
WrappingSub(a, b) == IF b <= a THEN a - b ELSE a - b + UsizePages

\* Mutant: every page of a linear area is mapped to the first one's frame.
TargetOfStart(a, p, frame) ==
    CASE a.backend = "linear" -> WrappingSub(a.start, a.offset)
      [] a.backend = "populate" -> frame
      [] a.backend = "lazy" -> 0

\* The frame each page of an area is mapped to: |va| va - pa_va_offset, the
\* frame just allocated, or 0.
Target(a, p, frame) ==
    CASE a.backend = "linear" -> WrappingSub(p, a.offset)
      [] a.backend = "populate" -> frame
      [] a.backend = "lazy" -> 0

\* Mutants: no page gets permissions, or lazy pages get theirs at once.
NoEntryFlags(a) == {}
EagerEntryFlags(a) == a.flags

\* The flags of an area's entries when it is mapped: none for a lazy page.
EntryFlags(a) == IF a.backend = "lazy" THEN {} ELSE a.flags

\* A map call in progress: its area, the next page to map, the frame in hand.
MapOp == [call : {"none", "map"}, area : Area, cur : Nat, frame : Frame \cup {0}]

NoArea == [start |-> 0, end |-> 0, flags |-> {}, backend |-> "lazy", offset |-> 0]
Idle == [call |-> "none", area |-> NoArea, cur |-> 0, frame |-> 0]

NoFault == [addr |-> 0, access |-> {}]

Result == {"none", "Ok", "InvalidInput", "AlreadyExists", "BadState", "NoMemory",
           "true", "false", "panic"}

EntryAt(vm, addr) == IF PageOf(addr) \in Page THEN pt[vm][PageOf(addr)] ELSE Unused

Live(vm) == tables[vm][Root] # 0

Running == \A vm \in Vm : ret[vm] # "panic"

\* The AddrSpace of vm exists and no call is in progress on it.
Callable(vm) == Running /\ Live(vm) /\ op[vm] = Idle

Return(vm, r) == ret' = [ret EXCEPT ![vm] = r]

\* Mutant: the frame handed out stays on the allocator's free list.
AllocKeepsFree(f) == f \in AllocChoices(free) /\ UNCHANGED free

\* H::alloc_frame() returning a frame, or None.
alloc_frame(f) == f \in AllocChoices(free) /\ free' = free \ {f}
alloc_fails == (AllocChoices(free) = {} \/ HalMayFail) /\ UNCHANGED free

Init ==
    /\ areas = [vm \in Vm |-> {}]
    /\ pt = [vm \in Vm |-> [p \in Page |-> Unused]]
    /\ tables = [vm \in Vm |-> [t \in Table |-> 0]]
    /\ free = Frame
    /\ op = [vm \in Vm |-> Idle]
    /\ fault = [vm \in Vm |-> [c \in Vcpu |-> NoFault]]
    /\ ret = [vm \in Vm |-> "none"]

-----------------------------------------------------------------------------
(* AddrSpace::new_empty: allocates the root table.                         *)

new_empty(vm) ==
    /\ Running /\ ~ Live(vm)
    /\ \/ \E f \in Frame : /\ alloc_frame(f)
                           /\ tables' = [tables EXCEPT ![vm][Root] = f]
                           /\ Return(vm, "Ok")
       \/ /\ alloc_fails
          /\ Return(vm, "NoMemory")
          /\ UNCHANGED tables
    /\ UNCHANGED <<areas, pt, op, fault>>

-----------------------------------------------------------------------------
(* map_linear and map_alloc: the checks, then MemorySet::map, which walks  *)
(* the area through Backend::map and inserts it if every page was mapped.  *)

\* MemorySet::map with unmap_overlap = false, up to the backend's first page.
MemorySetMap(vm, area) ==
    IF area.start = area.end
      THEN Return(vm, "InvalidInput") /\ UNCHANGED op
      ELSE IF \E a \in areas[vm] : Overlaps(a, area)
      THEN Return(vm, "AlreadyExists") /\ UNCHANGED op
      ELSE /\ op' = [op EXCEPT ![vm] = [call |-> "map", area |-> area,
                                        cur |-> area.start, frame |-> 0]]
           /\ Return(vm, "none")

map_linear(vm, start, paddr, size, flags) ==
    /\ Callable(vm)
    /\ \A p \in PageOf(paddr) .. PageOf(paddr + size - 1) : p \in HostRegion
    /\ IF ~ contains_range(start, size) \/ ~ (Aligned(start) /\ Aligned(paddr) /\ Aligned(size))
         THEN Return(vm, "InvalidInput") /\ UNCHANGED op
         ELSE IF OverflowChecks /\ start < paddr
         THEN Return(vm, "panic") /\ UNCHANGED op
         ELSE MemorySetMap(vm, [start |-> PageOf(start), end |-> PageOf(start + size),
                                flags |-> flags, backend |-> "linear",
                                offset |-> WrappingSub(PageOf(start), PageOf(paddr))])
    /\ UNCHANGED <<areas, pt, tables, free, fault>>

map_alloc(vm, start, size, flags, populate) ==
    /\ Callable(vm)
    /\ IF ~ contains_range(start, size) \/ ~ (Aligned(start) /\ Aligned(size))
         THEN Return(vm, "InvalidInput") /\ UNCHANGED op
         ELSE MemorySetMap(vm, [start |-> PageOf(start), end |-> PageOf(start + size),
                                flags |-> flags, offset |-> 0,
                                backend |-> IF populate THEN "populate" ELSE "lazy"])
    /\ UNCHANGED <<areas, pt, tables, free, fault>>

\* A map call is in progress on vm and has pages left to map.
Mapping(vm) == Running /\ op[vm].call = "map" /\ op[vm].cur < op[vm].area.end

\* Mutant: the call starts over until it succeeds.
MapRetries(vm) ==
    op' = [op EXCEPT ![vm].cur = op[vm].area.start, ![vm].frame = 0] /\ UNCHANGED ret

\* The backend returns false: the area is not inserted, MemorySet::map returns
\* BadState, and nothing mapped or allocated so far is undone.
MapFails(vm) ==
    /\ op' = [op EXCEPT ![vm] = Idle]
    /\ Return(vm, "BadState")

\* Populated mapping: H::alloc_frame() for the next page.
MapAllocFrame(vm) ==
    /\ Mapping(vm)
    /\ op[vm].area.backend = "populate" /\ op[vm].frame = 0
    /\ \/ \E f \in Frame : /\ alloc_frame(f)
                           /\ op' = [op EXCEPT ![vm].frame = f]
                           /\ UNCHANGED ret
       \/ alloc_fails /\ MapFails(vm)
    /\ UNCHANGED <<areas, pt, tables, fault>>

FrameInHand(vm) == op[vm].area.backend = "populate" => op[vm].frame # 0

\* pt.map: the topmost missing table on the walk to the page is created.
MapTable(vm) ==
    /\ Mapping(vm) /\ FrameInHand(vm)
    /\ \E t \in Missing(vm, op[vm].cur) :
         /\ \A u \in Missing(vm, op[vm].cur) : t[1] <= u[1]
         /\ \/ \E f \in Frame : /\ alloc_frame(f)
                                /\ tables' = [tables EXCEPT ![vm][t] = f]
                                /\ UNCHANGED <<op, ret>>
            \/ alloc_fails /\ MapFails(vm) /\ UNCHANGED tables
    /\ UNCHANGED <<areas, pt, fault>>

\* Mutant: only the table below the root is checked for.
UpperTableReady(vm, p) == \A t \in Missing(vm, p) : t[1] > 1
TablesReady(vm, p) == Missing(vm, p) = {}

\* Mutant: the frame just mapped stays in hand for the next page.
NextPageSameFrame(vm, p) == op' = [op EXCEPT ![vm].cur = p + 1]

\* The loop over the area goes on to the next page.
NextPage(vm, p) == op' = [op EXCEPT ![vm].cur = p + 1, ![vm].frame = 0]

\* pt.map: with every table in place, an unused entry is written and the loop
\* goes on to the next page; a used one is AlreadyMapped.
MapEntry(vm) ==
    /\ Mapping(vm) /\ FrameInHand(vm)
    /\ LET a == op[vm].area
           p == op[vm].cur
       IN /\ TablesReady(vm, p)
          /\ IF IsUnused(pt[vm][p])
               THEN /\ pt' = [pt EXCEPT ![vm][p] =
                                NewPage(Target(a, p, op[vm].frame), EntryFlags(a))]
                    /\ NextPage(vm, p)
                    /\ UNCHANGED ret
               ELSE MapFails(vm) /\ UNCHANGED pt
    /\ UNCHANGED <<areas, tables, free, fault>>

\* Every page is mapped: MemorySet::map inserts the area.
MapDone(vm) ==
    /\ Running /\ op[vm].call = "map" /\ op[vm].cur = op[vm].area.end
    /\ areas' = [areas EXCEPT ![vm] = @ \cup {op[vm].area}]
    /\ op' = [op EXCEPT ![vm] = Idle]
    /\ Return(vm, "Ok")
    /\ UNCHANGED <<pt, tables, free, fault>>

-----------------------------------------------------------------------------
(* unmap, clear and Drop.                                                  *)

\* Mutant: an allocation page that is not backed fails to unmap.
UnmapAllPresent(vm, a, R) == \A p \in Pages(a) \cap R : IsPresent(pt[vm][p])

\* Backend::unmap of the pages of area a in R: unmap_alloc always succeeds,
\* unmap_linear stops at the first page that is not present.
UnmapSucceeds(vm, a, R) ==
    a.backend = "linear" => \A p \in Pages(a) \cap R : IsPresent(pt[vm][p])

\* The pages of a in R whose entries unmap_linear clears before it stops.
VisitedPages(vm, a, R) ==
    {p \in Pages(a) \cap R : \A q \in Pages(a) \cap R : q < p => IsPresent(pt[vm][q])}

\* Mutants: the frame of an entry that is not present is given back too, or the
\* frames of lazy areas are not.
FramesOfAny(vm, P) ==
    {pt[vm][p].paddr : p \in {q \in P : \E a \in areas[vm] : /\ a.backend # "linear"
                                                             /\ q \in Pages(a)}}
FramesOfPopulated(vm, P) ==
    {pt[vm][p].paddr : p \in {q \in P : /\ IsPresent(pt[vm][q])
                                       /\ \E a \in areas[vm] : /\ a.backend = "populate"
                                                               /\ q \in Pages(a)}}

\* The frames unmap_alloc gives back for the pages in P: those of the present
\* entries of allocation areas.
FramesOf(vm, P) ==
    {pt[vm][p].paddr : p \in {q \in P : /\ IsPresent(pt[vm][q])
                                       /\ \E a \in areas[vm] : /\ a.backend # "linear"
                                                               /\ q \in Pages(a)}}

dealloc_frames(F) == free' = free \cup F

\* Mutants: the last entry is not cleared, or one more is.
ClearAllButLast(vm, P) ==
    pt' = [pt EXCEPT ![vm] = [p \in Page |-> IF p \in P /\ \E q \in P : p < q THEN Unused
                                             ELSE pt[vm][p]]]
ClearOneMore(vm, P) ==
    pt' = [pt EXCEPT ![vm] = [p \in Page |-> IF p \in P \/ p - 1 \in P THEN Unused
                                             ELSE pt[vm][p]]]
ClearEntries(vm, P) ==
    pt' = [pt EXCEPT ![vm] = [p \in Page |-> IF p \in P THEN Unused ELSE pt[vm][p]]]

\* Mutant: the part of the area after the range is dropped.
PieceBefore(a, s, e) ==
    {b \in {[a EXCEPT !.end = IF a.end < s THEN a.end ELSE s]} : b.start < b.end}

\* What is left of area a when the pages s..e-1 are cut out of it: it is
\* dropped, shrunk at either end, or split.
Pieces(a, s, e) ==
    {b \in {[a EXCEPT !.end = IF a.end < s THEN a.end ELSE s],
            [a EXCEPT !.start = IF a.start < e THEN e ELSE a.start]} : b.start < b.end}

\* MemorySet::unmap with the areas in done unmapped, those in failed unmapped
\* up to an error and replaced by those in kept.
UnmapAreas(vm, s, e, done, failed, kept) ==
    LET R == s..(e - 1)
        P == UNION {Pages(a) \cap R : a \in done}
               \cup UNION {VisitedPages(vm, a, R) : a \in failed}
    IN /\ areas' = [areas EXCEPT ![vm] = (@ \ (done \cup failed)) \cup kept
                                          \cup UNION {Pieces(a, s, e) : a \in done}]
       /\ ClearEntries(vm, P)
       /\ dealloc_frames(FramesOf(vm, P))

\* MemorySet::unmap: the areas inside the range go first and must not fail,
\* then the one that reaches over the range's start is shrunk or split, then
\* the one that reaches over its end.
MemorySetUnmap(vm, s, e) ==
    LET Whole == {a \in areas[vm] : s <= a.start /\ a.end <= e}
        Left == {a \in areas[vm] : a.start < s /\ s < a.end}
        Right == {a \in areas[vm] : s <= a.start /\ a.start < e /\ e < a.end}
        Failing(S) == {a \in S : ~ UnmapSucceeds(vm, a, s..(e - 1))}
    IN \/ /\ Failing(Whole) # {}
          /\ Return(vm, "panic")
          /\ UNCHANGED <<areas, pt, free>>
       \/ /\ Failing(Whole) = {} /\ Failing(Left) # {}
          /\ UnmapAreas(vm, s, e, Whole, Left,
                        {[a EXCEPT !.end = IF e < a.end THEN e ELSE a.end] : a \in Left})
          /\ Return(vm, "BadState")
       \/ /\ Failing(Whole \cup Left) = {} /\ Failing(Right) # {}
          /\ UnmapAreas(vm, s, e, Whole \cup Left, Right, {})
          /\ Return(vm, "BadState")
       \/ /\ Failing(Whole \cup Left \cup Right) = {}
          /\ UnmapAreas(vm, s, e, Whole \cup Left \cup Right, {}, {})
          /\ Return(vm, "Ok")

unmap(vm, start, size) ==
    /\ Callable(vm)
    /\ IF ~ contains_range(start, size) \/ ~ (Aligned(start) /\ Aligned(size))
         THEN Return(vm, "InvalidInput") /\ UNCHANGED <<areas, pt, free>>
         ELSE IF size = 0
         THEN Return(vm, "Ok") /\ UNCHANGED <<areas, pt, free>>
         ELSE MemorySetUnmap(vm, PageOf(start), PageOf(start + size))
    /\ UNCHANGED <<tables, op, fault>>

AreaPages(vm) == UNION {Pages(a) : a \in areas[vm]}

\* areas.clear(..).unwrap() panics if some area cannot be unmapped.
ClearPanics(vm) == \E a \in areas[vm] : ~ UnmapSucceeds(vm, a, Pages(a))

clear_all(vm) ==
    /\ Callable(vm)
    /\ IF ClearPanics(vm)
         THEN Return(vm, "panic") /\ UNCHANGED <<areas, pt, free>>
         ELSE /\ areas' = [areas EXCEPT ![vm] = {}]
              /\ ClearEntries(vm, AreaPages(vm))
              /\ dealloc_frames(FramesOf(vm, AreaPages(vm)))
              /\ Return(vm, "Ok")
    /\ UNCHANGED <<tables, op, fault>>

\* Drop: clear, then PageTable64's own drop, which frees every table.
drop(vm) ==
    /\ Callable(vm)
    /\ IF ClearPanics(vm)
         THEN Return(vm, "panic") /\ UNCHANGED <<areas, pt, tables, free, fault>>
         ELSE /\ areas' = [areas EXCEPT ![vm] = {}]
              /\ ClearEntries(vm, Page)
              /\ dealloc_frames(FramesOf(vm, AreaPages(vm))
                                  \cup ({tables[vm][t] : t \in Table} \ {0}))
              /\ tables' = [tables EXCEPT ![vm] = [t \in Table |-> 0]]
              /\ fault' = [fault EXCEPT ![vm] = [c \in Vcpu |-> NoFault]]
              /\ Return(vm, "none")
    /\ UNCHANGED op

-----------------------------------------------------------------------------
(* Guest accesses and page faults.                                         *)

\* vCPU c accesses guest memory; an access the page table does not allow
\* leaves the guest with NestedPageFaultInfo.  An EPT misconfiguration leaves it
\* too, and is taken for a page fault here.
guest_access(vm, c, a) ==
    /\ Running /\ Live(vm) /\ fault[vm][c] = NoFault
    /\ ~ EntryPermits(EntryAt(vm, a.addr), a.access)
    /\ fault' = [fault EXCEPT ![vm][c] = a]
    /\ UNCHANGED <<areas, pt, tables, free, op, ret>>

\* MemorySet::find
find(vm, addr) == {a \in areas[vm] : PageOf(addr) \in Pages(a)}

\* Mutants: the access is not compared with the area's flags, or populated areas
\* are served too.
HandlerOfAnyAccess(vm, addr, access) ==
    {a \in find(vm, addr) : contains(addr) /\ a.backend = "lazy"}
HandlerOfAnyAlloc(vm, addr, access) ==
    {a \in find(vm, addr) : /\ contains(addr) /\ access \subseteq a.flags
                            /\ a.backend # "linear"}

\* The area that serves the fault, if any: Backend::handle_page_fault returns
\* false for linear and populated ones.
FaultHandler(vm, addr, access) ==
    {a \in find(vm, addr) : /\ contains(addr) /\ access \subseteq a.flags
                            /\ a.backend = "lazy"}

\* Backend::handle_page_fault_alloc of a lazy area: allocate, then pt.remap,
\* which is an error if a table of the walk is missing; the frame is not given
\* back then.  (It never is: WalkComplete.)
handle_page_fault_alloc(vm, p, flags) ==
    \/ \E f \in Frame : /\ alloc_frame(f)
                        /\ pt' = [pt EXCEPT ![vm][p] = IF TablesReady(vm, p)
                                                        THEN SetEntry(@, f, flags) ELSE @]
                        /\ Return(vm, IF TablesReady(vm, p) THEN "true" ELSE "false")
    \/ alloc_fails /\ Return(vm, "false") /\ UNCHANGED pt

handle_page_fault(vm, c) ==
    LET addr == fault[vm][c].addr
        Handler == FaultHandler(vm, addr, fault[vm][c].access)
    IN /\ Callable(vm) /\ fault[vm][c] # NoFault
       /\ \/ Handler = {} /\ Return(vm, "false") /\ UNCHANGED <<pt, free>>
          \/ \E a \in Handler : handle_page_fault_alloc(vm, PageOf(addr), a.flags)
       /\ fault' = [fault EXCEPT ![vm][c] = NoFault]
       /\ UNCHANGED <<areas, tables, op>>

-----------------------------------------------------------------------------

Call(vm) ==
    \/ \E start \in GuestAddr, paddr \in HostAddr, size \in CallSize, flags \in FlagChoices :
         map_linear(vm, start, paddr, size, flags)
    \/ \E start \in GuestAddr, size \in CallSize, flags \in FlagChoices, populate \in BOOLEAN :
         map_alloc(vm, start, size, flags, populate)
    \/ \E start \in GuestAddr, size \in CallSize : unmap(vm, start, size)
    \/ clear_all(vm)
    \/ new_empty(vm)
    \/ drop(vm)

MapStep(vm) == MapAllocFrame(vm) \/ MapTable(vm) \/ MapEntry(vm) \/ MapDone(vm)

Guest(vm) ==
    \/ \E c \in Vcpu, a \in GuestAccess : guest_access(vm, c, a)
    \/ \E c \in Vcpu : handle_page_fault(vm, c)

Next == \E vm \in Vm : Call(vm) \/ MapStep(vm) \/ Guest(vm)

Spec == Init /\ [][Next]_vars

\* A map call is straight-line code on a host CPU that keeps running.
FairSpec == Spec /\ \A vm \in Vm : WF_vars(MapStep(vm))

-----------------------------------------------------------------------------
(* Properties.                                                             *)

\* The state is well typed: areas and entries of the crate's types, frames of
\* the allocator, results of the calls.
TypeOK ==
    /\ areas \in [Vm -> SUBSET Area]
    /\ pt \in [Vm -> [Page -> Entry]]
    /\ tables \in [Vm -> [Table -> Frame \cup {0}]]
    /\ free \in SUBSET Frame
    /\ op \in [Vm -> MapOp]
    /\ fault \in [Vm -> [Vcpu -> GuestAccess \cup {NoFault}]]
    /\ ret \in [Vm -> Result]

InHand(vm) == op[vm].frame

PagesExclusive ==
    \A v, w \in Vm, p, q \in Page :
        pt[v][p].paddr \in Frame /\ pt[v][p].paddr = pt[w][q].paddr => v = w /\ p = q

TablesExclusive ==
    \A v, w \in Vm, t, u \in Table :
        tables[v][t] # 0 /\ tables[v][t] = tables[w][u] => v = w /\ t = u

PagesNotTables ==
    \A v, w \in Vm, p \in Page, t \in Table :
        tables[w][t] # 0 => pt[v][p].paddr # tables[w][t]

HandExclusive ==
    \A v \in Vm : InHand(v) # 0 =>
        /\ \A w \in Vm, p \in Page : pt[w][p].paddr # InHand(v)
        /\ \A w \in Vm, t \in Table : tables[w][t] # InHand(v)
        /\ \A w \in Vm : InHand(w) = InHand(v) => w = v

\* No frame is in use twice: not by two pages, of the same or of different VMs,
\* not by two tables, not by a page and a table, and the frame a populating
\* map_alloc has in hand is nobody else's.  It rests on alloc_frame and
\* dealloc_frame being paired in alloc.rs across every map, fault and unmap.
FramesExclusive == PagesExclusive /\ TablesExclusive /\ PagesNotTables /\ HandExclusive

\* No frame that the allocator may hand out again is still pointed to by a page
\* table, is one, or is in hand: unmap_alloc clears the entry of every frame it
\* frees, and no path frees a frame twice.
NoFreeFrameInUse ==
    /\ \A vm \in Vm, p \in Page : pt[vm][p].paddr \notin free
    /\ \A vm \in Vm, t \in Table : tables[vm][t] \notin free
    /\ \A vm \in Vm : InHand(vm) \notin free

(* What the two rest on: with them they are inductive.                     *)

\* The pages of every area, mapped or being mapped, are pages of the table.
PagesInRange ==
    \A vm \in Vm : /\ \A a \in areas[vm] : Pages(a) \subseteq Page
                   /\ Pages(op[vm].area) \subseteq Page

\* A map call is somewhere in its area, which overlaps no other one, and maps no
\* frame of the allocator linearly.
MapOpSane ==
    \A vm \in Vm :
        /\ op[vm].area.start <= op[vm].cur /\ op[vm].cur <= op[vm].area.end
        /\ \A a \in areas[vm] : Pages(a) \cap Pages(op[vm].area) = {}
        /\ op[vm].area.backend = "linear" =>
             \A p \in Pages(op[vm].area) : WrappingSub(p, op[vm].area.offset) \notin Frame

\* What unmap_alloc would give back to the allocator came from it.
AllocBacked ==
    \A vm \in Vm :
        /\ \A a \in areas[vm] : a.backend # "linear" =>
             \A p \in Pages(a) : IsPresent(pt[vm][p]) => pt[vm][p].paddr \in Frame
        /\ op[vm].area.backend # "linear" =>
             \A p \in op[vm].area.start .. (op[vm].cur - 1) :
                 IsPresent(pt[vm][p]) => pt[vm][p].paddr \in Frame

IndInv ==
    /\ TypeOK /\ PagesInRange /\ MapOpSane /\ AllocBacked
    /\ FramesExclusive /\ NoFreeFrameInUse

\* The areas of a VM are disjoint, not empty and inside va_range, through every
\* shrink and split that unmap makes of them.
AreasWellFormed ==
    \A vm \in Vm : \A a \in areas[vm] :
        /\ a.start < a.end
        /\ Base <= a.start * PageSize /\ a.end * PageSize <= Base + Size
        /\ \A b \in areas[vm] : a # b => Pages(a) \cap Pages(b) = {}

\* Pages mapped with these flags count as present.
PresentFlags(flags) == IsPresent([paddr |-> 0, attr |-> AttrOf(flags)])

\* Every page of an area is backed as its Backend promises: a linear page by
\* exactly vaddr - pa_va_offset, a populated page by a frame, a lazy page by
\* nothing yet or by a frame, each with the permissions of the area.  The one
\* exception is a linear page whose flags make no present entry: unmap_linear
\* clears it, fails on it, and the area may stay.
BackedAsPromised ==
    \A vm \in Vm : \A a \in areas[vm] : \A p \in Pages(a) :
        CASE a.backend = "linear" ->
               /\ WrappingSub(p, a.offset) \in HostRegion
               /\ \/ pt[vm][p] = NewPage(WrappingSub(p, a.offset), a.flags)
                  \/ ~ PresentFlags(a.flags) /\ pt[vm][p] = Unused
          [] a.backend = "populate" -> \E f \in Frame : pt[vm][p] = NewPage(f, a.flags)
          [] a.backend = "lazy" -> \/ pt[vm][p] = NewPage(0, {})
                                   \/ \E f \in Frame : pt[vm][p] = NewPage(f, a.flags)

\* Every page of an area has all the tables of its walk, so pt.remap in a page
\* fault and pt.unmap always reach a leaf entry and never an upper-level one.
WalkComplete ==
    \A vm \in Vm, p \in Page :
        (\E a \in areas[vm] : p \in Pages(a)) \/ ~ IsUnused(pt[vm][p]) => Missing(vm, p) = {}

\* No call panics: neither the unwrap in clear nor the one MemorySet::unmap does
\* on an area inside the range, nor the subtraction in map_linear.
NoPanic == Running

\* With wrapping arithmetic, a call panics only in a VM with a linear area whose
\* flags make no present entry (on AArch64 those without READ): the unwraps of
\* clear and of MemorySet::unmap are safe for every other history of calls.
PanicsOnlyOnAbsentPages ==
    \A vm \in Vm : ret[vm] = "panic" =>
        \E a \in areas[vm] : a.backend = "linear" /\ ~ PresentFlags(a.flags)

\* This step is handle_page_fault returning true to vCPU c, which waits on a.
ServesFault(vm, c, a) ==
    fault[vm][c] = a /\ fault'[vm][c] = NoFault /\ ret'[vm] = "true"

\* After handle_page_fault returned true for an area with READ, the access that
\* faulted is allowed, whatever happened to the area between the fault and its
\* handling.  Without READ the flags may not make an entry that allows anything:
\* AArch64 needs READ for VALID, and WRITE alone is an EPT misconfiguration.
HandledMeansAccessible ==
    [][\A vm \in Vm, c \in Vcpu, a \in GuestAccess :
         ServesFault(vm, c, a) /\ (\A r \in find(vm, a.addr) : "READ" \in r.flags)
         => EntryPermits(EntryAt(vm, a.addr)', a.access)]_vars

\* The same for the areas of any flags, as the comment on handle_page_fault says:
\* true means that the fault "is handled successfully (not a real fault)".
TrueMeansHandled ==
    [][\A vm \in Vm, c \in Vcpu, a \in GuestAccess :
         ServesFault(vm, c, a) => EntryPermits(EntryAt(vm, a.addr)', a.access)]_vars

\* Every frame is free, in use by a page or a table, or in hand: none is lost,
\* so a dropped AddrSpace gives back all it took.
NoFrameLost ==
    \A f \in Frame : \/ f \in free
                     \/ \E vm \in Vm, p \in Page : pt[vm][p].paddr = f
                     \/ \E vm \in Vm, t \in Table : tables[vm][t] = f
                     \/ \E vm \in Vm : InHand(vm) = f

\* A guest reaches host memory only through the areas of its VM, or through the
\* area that is being mapped.
ReachableOnlyThroughAreas ==
    \A vm \in Vm, p \in Page : IsPresent(pt[vm][p]) =>
        \/ \E a \in areas[vm] : p \in Pages(a)
        \/ p \in op[vm].area.start .. (op[vm].cur - 1)

\* An unmap that returns Ok leaves no page of its range mapped, takes nothing
\* else away, and the areas that remain are what it did not ask to remove.
UnmapExact ==
    [][\A vm \in Vm, start \in GuestAddr, size \in CallSize :
         unmap(vm, start, size) /\ ret'[vm] = "Ok" =>
           LET R == PageOf(start) .. (PageOf(start + size) - 1)
           IN /\ \A p \in R : ~ IsPresent(pt'[vm][p])
              /\ \A p \in Page \ R : pt'[vm][p] = pt[vm][p]
              /\ UNION {Pages(a) : a \in areas'[vm]} = AreaPages(vm) \ R]_vars

\* A page backed by a frame keeps that frame, and so the guest's data, as long
\* as no area is removed.  The one exception is a lazy page on which a vCPU still
\* waits although another one's fault was served in the meantime.
BackedPageKeepsFrame ==
    [][\A vm \in Vm, p \in Page :
         /\ pt[vm][p].paddr \in Frame /\ pt'[vm][p].paddr # pt[vm][p].paddr
         /\ Live(vm)' /\ areas[vm] \subseteq areas'[vm]
         => /\ \E a \in areas[vm] : a.backend = "lazy" /\ p \in Pages(a)
            /\ \E c \in Vcpu : /\ fault[vm][c] # NoFault /\ PageOf(fault[vm][c].addr) = p
                               /\ EntryPermits(pt[vm][p], fault[vm][c].access)]_vars

\* Once every AddrSpace is dropped, all frames are back with the allocator.
DropGivesAllBack == Running /\ (\A vm \in Vm : ~ Live(vm)) => free = Frame

\* Every map call returns.
MapReturns == \A vm \in Vm : op[vm].call = "map" ~> op[vm] = Idle
=============================================================================
