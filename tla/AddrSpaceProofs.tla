-------------------------- MODULE AddrSpaceProofs ---------------------------
(***************************************************************************)
(* Theorems about AddrSpace, for any number of VMs, vCPUs, pages, frames and *)
(* page-table levels, either entry format, any allocator policy and any    *)
(* pattern of allocation failures.                                         *)
(***************************************************************************)
EXTENDS AddrSpaceMapProofs, AddrSpaceUnmapProofs

\* The invariant holds initially.
LEMMA InitInv == Init => IndInv
  <1> SUFFICES ASSUME Init PROVE IndInv
    OBVIOUS
  <1> USE FrameFacts DEF Init
  <1>1. NoArea \in Area /\ Pages(NoArea) = {}
    BY GeometryAssumption DEF NoArea, Area, Pages
  <1>2. Idle \in MapOp
    BY <1>1 DEF Idle, MapOp
  <1>3. TypeOK
    BY <1>2, UnusedAbsent DEF TypeOK, Result
  <1>4. PagesInRange /\ MapOpSane /\ AllocBacked
    <2>1. \A vm \in Vm : areas[vm] = {} /\ op[vm].area = NoArea /\ op[vm].cur = 0
      BY DEF Idle
    <2>2. PagesInRange
      BY <1>1, <2>1 DEF PagesInRange
    <2>3. MapOpSane
      BY <1>1, <2>1 DEF MapOpSane, NoArea
    <2>4. AllocBacked
      BY <2>1 DEF AllocBacked, NoArea
    <2> QED
      BY <2>2, <2>3, <2>4
  <1>5. FramesExclusive
    BY DEF FramesExclusive, PagesExclusive, TablesExclusive, PagesNotTables,
           HandExclusive, InHand, Idle, Unused
  <1>6. NoFreeFrameInUse
    BY DEF NoFreeFrameInUse, InHand, Idle, Unused
  <1> QED
    BY <1>3, <1>4, <1>5, <1>6 DEF IndInv

\* A guest access only leaves a fault behind.
LEMMA GuestAccessInv ==
    ASSUME IndInv, NEW vm \in Vm, NEW c \in Vcpu, NEW a \in GuestAccess, guest_access(vm, c, a)
    PROVE  IndInv'
  <1>1. UNCHANGED <<areas, pt, tables, free, op, ret>>
    BY DEF guest_access
  <1>2. fault' \in [Vm -> [Vcpu -> GuestAccess \cup {NoFault}]]
    BY DEF guest_access, IndInv, TypeOK
  <1> QED
    BY <1>1, <1>2, QuietStep DEF IndInv, TypeOK

\* A page fault that is served puts a free frame behind a page of a lazy area; one
\* whose remap fails only takes a frame from the allocator.
LEMMA HandlePageFaultInv ==
    ASSUME IndInv, NEW vm \in Vm, NEW c \in Vcpu, handle_page_fault(vm, c)
    PROVE  IndInv'
  <1> DEFINE p == PageOf(fault[vm][c].addr)
             Handler == FaultHandler(vm, fault[vm][c].addr, fault[vm][c].access)
  <1>1. UNCHANGED <<areas, tables, op>> /\ op[vm] = Idle
    BY DEF handle_page_fault, Callable
  <1>2. fault' \in [Vm -> [Vcpu -> GuestAccess \cup {NoFault}]]
    BY DEF handle_page_fault, IndInv, TypeOK
  <1>3. ASSUME NEW r \in Result, Return(vm, r) PROVE ret' \in [Vm -> Result]
    BY <1>3, ReturnType DEF IndInv
  <1>4. CASE Return(vm, "false") /\ UNCHANGED <<pt, free>>
    BY <1>1, <1>2, <1>3, <1>4, QuietStep DEF Result
  <1>5. ASSUME NEW a \in Handler, NEW f \in Frame, alloc_frame(f),
               pt' = [pt EXCEPT ![vm][p] = SetEntry(@, f, a.flags)], Return(vm, "true")
        PROVE  IndInv'
    <2> USE FrameFacts, IdleFacts DEF IndInv
    <2>1. p \in Page
      BY DEF FaultHandler, find, PagesInRange
    <2>2. f \in free /\ free' = free \ {f}
      BY <1>5, AllocPicksFree
    <2> DEFINE e == NewPage(f, a.flags)
    <2>3. e \in Entry /\ e.paddr = f
      BY NewPageType DEF NewPage
    <2>4. SetEntry(pt[vm][p], f, a.flags) = e
      <3>1. pt[vm][p] \in Entry
        BY <2>1 DEF TypeOK
      <3> HIDE DEF IndInv, p, Handler
      <3> QED
        BY <3>1, RemapIsFreshMapping
    <2> HIDE DEF e, p, Handler
    <2>5. pt' = [pt EXCEPT ![vm][p] = e]
      BY <1>5, <2>4
    <2>6. /\ pt'[vm][p] = e
          /\ \A q \in Page \ {p} : pt'[vm][q] = pt[vm][q]
          /\ \A v \in Vm \ {vm} : pt'[v] = pt[v]
      BY <2>1, <2>5 DEF TypeOK
    <2>7. TypeOK'
      <3>1. pt' \in [Vm -> [Page -> Entry]]
        BY <2>1, <2>3, <2>5 DEF TypeOK
      <3>2. ret' \in [Vm -> Result]
        BY <1>3, <1>5 DEF Result
      <3> QED
        BY <1>1, <1>2, <2>2, <3>1, <3>2 DEF TypeOK
    <2>8. PagesInRange' /\ MapOpSane'
      BY <1>1 DEF PagesInRange, MapOpSane
    <2>9. AllocBacked'
      <3>1. \A b \in areas[vm] : b.backend # "linear" =>
              \A q \in Pages(b) : IsPresent(pt'[vm][q]) => pt'[vm][q].paddr \in Frame
        BY <2>3, <2>6 DEF AllocBacked, PagesInRange
      <3> QED
        BY <1>1, <2>6, <3>1 DEF AllocBacked
    <2>10. FramesExclusive' /\ NoFreeFrameInUse'
      <3>1. \A v \in Vm : InHand(v)' = InHand(v)
        BY <1>1 DEF InHand
      <3>2. /\ e.paddr \notin free'
            /\ \A w \in Vm, q \in Page : pt[w][q].paddr # e.paddr
            /\ \A w \in Vm, t \in Table : tables[w][t] # e.paddr
            /\ \A v \in Vm : InHand(v)' # e.paddr
        BY <2>2, <2>3, <3>1 DEF NoFreeFrameInUse
      <3>3. free' \subseteq free
        BY <2>2
      <3> QED
        BY <1>1, <2>1, <2>3, <2>5, <3>1, <3>2, <3>3, PageWriteExclusive
    <2> QED
      BY <2>7, <2>8, <2>9, <2>10
  <1>6. ASSUME NEW f \in Frame, alloc_frame(f), UNCHANGED pt, Return(vm, "false")
        PROVE  IndInv'
    <2>1. free' \subseteq free
      BY <1>6 DEF alloc_frame
    <2>2. TypeOK'
      <3>1. ret' \in [Vm -> Result]
        BY <1>3, <1>6 DEF Result
      <3> QED
        BY <1>1, <1>2, <1>6, <2>1, <3>1 DEF IndInv, TypeOK
    <2>3. PagesInRange' /\ MapOpSane' /\ AllocBacked'
      BY <1>1, <1>6 DEF IndInv, PagesInRange, MapOpSane, AllocBacked
    <2>4. FramesExclusive'
      BY <1>1, <1>6 DEF IndInv, FramesExclusive, PagesExclusive, TablesExclusive,
                        PagesNotTables, HandExclusive, InHand
    <2>5. NoFreeFrameInUse'
      BY <1>1, <1>6, <2>1 DEF IndInv, NoFreeFrameInUse, InHand
    <2> QED
      BY <2>2, <2>3, <2>4, <2>5 DEF IndInv
  <1>7. ASSUME NEW a \in Handler, handle_page_fault_alloc(vm, p, a.flags)
        PROVE  IndInv'
    <2>1. CASE alloc_fails /\ Return(vm, "false") /\ UNCHANGED pt
      BY <1>4, <2>1 DEF alloc_fails
    <2>2. ASSUME NEW f \in Frame, alloc_frame(f),
                 pt' = [pt EXCEPT ![vm][p] = IF TablesReady(vm, p)
                                               THEN SetEntry(@, f, a.flags) ELSE @],
                 Return(vm, IF TablesReady(vm, p) THEN "true" ELSE "false")
          PROVE  IndInv'
      <3>1. CASE TablesReady(vm, p)
        BY <1>5, <2>2, <3>1
      <3>2. CASE ~ TablesReady(vm, p)
        <4>1. pt' = pt
          BY <2>2, <3>2 DEF IndInv, TypeOK
        <4> QED
          BY <1>6, <2>2, <3>2, <4>1
      <3> QED
        BY <3>1, <3>2
    <2> QED
      BY <1>7, <2>1, <2>2 DEF handle_page_fault_alloc
  <1> QED
    BY <1>4, <1>7 DEF handle_page_fault

\* Every step preserves the invariant.
LEMMA NextInv == IndInv /\ [Next]_vars => IndInv'
  <1> SUFFICES ASSUME IndInv, [Next]_vars PROVE IndInv'
    OBVIOUS
  <1>1. CASE UNCHANGED vars
    BY <1>1, QuietStep DEF vars, IndInv, TypeOK
  <1>2. ASSUME NEW vm \in Vm, Call(vm) PROVE IndInv'
    BY <1>2, MapLinearInv, MapAllocInv, UnmapInv, ClearInv, NewEmptyInv, DropInv DEF Call
  <1>3. ASSUME NEW vm \in Vm, MapStep(vm) PROVE IndInv'
    BY <1>3, MapAllocFrameInv, MapTableInv, MapEntryInv, MapDoneInv DEF MapStep
  <1>4. ASSUME NEW vm \in Vm, Guest(vm) PROVE IndInv'
    BY <1>4, GuestAccessInv, HandlePageFaultInv DEF Guest
  <1> QED
    BY <1>1, <1>2, <1>3, <1>4 DEF Next

\* The invariant holds in every reachable state, for any VMs, vCPUs, page-table
\* geometry, allocator policy and failures of the HAL's allocator.
THEOREM Invariance == Spec => []IndInv
  BY InitInv, NextInv, PTL DEF Spec

\* AddrSpace only ever holds areas, entries and frames of their types: no wrapped
\* offset, placeholder entry or freed frame leaves them.
THEOREM TypeCorrect == Spec => []TypeOK
  <1>1. IndInv => TypeOK
    BY DEF IndInv
  <1> QED
    BY <1>1, Invariance, PTL

\* No frame is shared by two pages, by two page tables, or by a page and a table,
\* of one VM or of different ones, after any sequence of map, unmap, clear and
\* Drop calls and page faults.
THEOREM FrameExclusivity == Spec => []FramesExclusive
  <1>1. IndInv => FramesExclusive
    BY DEF IndInv
  <1> QED
    BY <1>1, Invariance, PTL

\* No frame is given back to the allocator while a page table of any VM points to
\* it, nor is one given back twice.
THEOREM NoUseAfterFree == Spec => []NoFreeFrameInUse
  <1>1. IndInv => NoFreeFrameInUse
    BY DEF IndInv
  <1> QED
    BY <1>1, Invariance, PTL
=============================================================================
