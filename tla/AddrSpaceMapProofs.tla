------------------------- MODULE AddrSpaceMapProofs -------------------------
(***************************************************************************)
(* The invariant of AddrSpace is preserved by new_empty and by every step of *)
(* map_linear and map_alloc.                                               *)
(***************************************************************************)
EXTENDS AddrSpaceLemmas

\* new_empty preserves the invariant.
LEMMA NewEmptyInv ==
    ASSUME IndInv, NEW vm \in Vm, new_empty(vm)
    PROVE  IndInv'
  <1> USE FrameFacts DEF IndInv
  <1>1. Root \in Table
    BY DEF Table
  <1>2. ASSUME alloc_fails, Return(vm, "NoMemory"), UNCHANGED tables
        PROVE  IndInv'
    <2>1. UNCHANGED <<areas, pt, tables, free, op>> /\ UNCHANGED fault
      BY <1>2 DEF new_empty, alloc_fails
    <2>2. ret' \in [Vm -> Result]
      BY <1>2, ReturnType DEF Result
    <2> QED
      BY <2>1, <2>2, QuietStep DEF TypeOK
  <1>3. ASSUME NEW f \in Frame, alloc_frame(f), tables' = [tables EXCEPT ![vm][Root] = f],
               Return(vm, "Ok")
        PROVE  IndInv'
    <2>1. f \in free /\ free' = free \ {f} /\ UNCHANGED <<areas, pt, op, fault>>
      BY <1>3, AllocPicksFree DEF new_empty
    <2>2. TypeOK'
      BY <1>1, <1>3, <2>1 DEF TypeOK, Return, Result
    <2>3. PagesInRange' /\ MapOpSane' /\ AllocBacked'
      BY <2>1 DEF PagesInRange, MapOpSane, AllocBacked
    <2>4. FramesExclusive'
      BY <1>1, <1>3, <2>1
      DEF TypeOK, FramesExclusive, PagesExclusive, TablesExclusive, PagesNotTables,
          HandExclusive, InHand, NoFreeFrameInUse
    <2>5. NoFreeFrameInUse'
      BY <1>1, <1>3, <2>1 DEF TypeOK, NoFreeFrameInUse, InHand
    <2> QED
      BY <2>2, <2>3, <2>4, <2>5
  <1> QED
    BY <1>2, <1>3 DEF new_empty

\* The pages of the area map_linear makes are mapped to the caller's own pages:
\* both subtractions of usize wrap to where the caller asked.
LEMMA LinearTargets ==
    ASSUME NEW start \in GuestAddr, NEW paddr \in HostAddr, NEW size \in CallSize,
           Aligned(start), Aligned(paddr), Aligned(size),
           \A p \in PageOf(paddr) .. PageOf(paddr + size - 1) : p \in HostRegion,
           NEW p \in PageOf(start) .. (PageOf(start + size) - 1)
    PROVE  WrappingSub(p, WrappingSub(PageOf(start), PageOf(paddr))) \in HostRegion
  <1> DEFINE s == PageOf(start)  h == PageOf(paddr)  n == PageOf(size)
  <1>1. start \in Nat /\ paddr \in Nat /\ size \in Nat
    BY InputAssumption, UsizePage
  <1>2. s \in 0..(UsizePages - 1) /\ h \in 0..(UsizePages - 1) /\ n \in Nat
    BY <1>1, InputAssumption, UsizePage, PageOfType
  <1>3. PageOf(start + size) = s + n /\ PageOf(paddr + size) = h + n
    BY <1>1, AlignedEnd
  <1>4. n # 0
    BY <1>2, <1>3
  <1>5. PageOf(paddr + size - 1) = h + n - 1
    <2>1. paddr = h * PageSize /\ size = n * PageSize
      BY <1>1, AlignedPage
    <2> HIDE DEF h, n
    <2>2. paddr + size = (h + n) * PageSize
      BY <1>2, <2>1, MulDistributes, GeometryAssumption
    <2>3. h + n \in Nat \ {0}
      BY <1>2, <1>4, GeometryAssumption
    <2>4. PageOf((h + n) * PageSize - 1) = (h + n) - 1
      BY <2>3, PageOfLastByte, Zenon
    <2>5. paddr + size - 1 = (paddr + size) - 1 /\ (h + n) - 1 = h + n - 1
      BY <1>1, <1>2
    <2> QED
      BY <2>2, <2>4, <2>5, Zenon
  <1> HIDE DEF s, h, n
  <1>6. p \in s..(s + n - 1)
    <2>1. PageOf(start + size) - 1 = s + n - 1
      BY <1>2, <1>3
    <2>2. p \in s..(PageOf(start + size) - 1)
      BY DEF s
    <2> QED
      BY <2>1, <2>2, Zenon
  <1>7. h + (p - s) \in h..(h + n - 1)
    BY <1>2, <1>6, GeometryAssumption
  <1>8. h + (p - s) \in HostRegion
    BY <1>5, <1>7 DEF h
  <1>9. h + (p - s) \in 0..(UsizePages - 1)
    BY <1>8, HostMemoryAssumption
  <1>10. WrappingSub(p, WrappingSub(s, h)) = h + (p - s)
    BY <1>2, <1>6, <1>9, GeometryAssumption DEF WrappingSub
  <1> QED
    BY <1>8, <1>10 DEF s, h

\* MemorySet::map preserves the invariant up to the first page.
LEMMA MapStartInv ==
    ASSUME IndInv, NEW vm \in Vm, NEW area \in Area,
           area.start <= area.end, Pages(area) \subseteq Page,
           area.backend = "linear" =>
             \A p \in Pages(area) : WrappingSub(p, area.offset) \notin Frame,
           MemorySetMap(vm, area), UNCHANGED <<areas, pt, tables, free, fault>>
    PROVE  IndInv'
  <1>1. ret' \in [Vm -> Result]
    BY ReturnType DEF IndInv, MemorySetMap, Result
  <1>2. CASE UNCHANGED op
    BY <1>1, <1>2, QuietStep DEF IndInv, TypeOK
  <1>3. CASE /\ \A a \in areas[vm] : ~ Overlaps(a, area)
             /\ op' = [op EXCEPT ![vm] = [call |-> "map", area |-> area,
                                           cur |-> area.start, frame |-> 0]]
    <2> USE DEF IndInv
    <2>1. area.start \in Nat
      BY DEF Area
    <2>2. TypeOK'
      BY <1>1, <1>3, <2>1 DEF TypeOK, MapOp
    <2>3. /\ op'[vm].area = area /\ op'[vm].cur = area.start /\ op'[vm].frame = 0
          /\ \A v \in Vm \ {vm} : op'[v] = op[v]
      BY <1>3 DEF TypeOK
    <2>4. PagesInRange'
      BY <2>3 DEF PagesInRange
    <2>5. \A a \in areas[vm] : Pages(a) \cap Pages(area) = {}
      BY <1>3 DEF Overlaps, Pages, TypeOK, Area
    <2>6. MapOpSane'
      BY <2>1, <2>3, <2>5 DEF MapOpSane, Area
    <2>7. AllocBacked'
      BY <2>1, <2>3 DEF AllocBacked
    <2>8. \A v \in Vm : InHand(v)' = 0 \/ InHand(v)' = InHand(v)
      BY <2>3 DEF InHand
    <2>9. FramesExclusive' /\ NoFreeFrameInUse'
      BY <2>8, HandStep DEF TypeOK
    <2> QED
      BY <2>2, <2>4, <2>6, <2>7, <2>9
  <1> QED
    BY <1>2, <1>3 DEF MemorySetMap

\* map_linear preserves the invariant.
LEMMA MapLinearInv ==
    ASSUME IndInv, NEW vm \in Vm, NEW start \in GuestAddr, NEW paddr \in HostAddr,
           NEW size \in CallSize, NEW flags \in FlagChoices,
           map_linear(vm, start, paddr, size, flags)
    PROVE  IndInv'
  <1> DEFINE area == [start |-> PageOf(start), end |-> PageOf(start + size),
                      flags |-> flags, backend |-> "linear",
                      offset |-> WrappingSub(PageOf(start), PageOf(paddr))]
  <1>1. UNCHANGED <<areas, pt, tables, free, fault>>
    BY DEF map_linear
  <1>2. ASSUME UNCHANGED op, NEW r \in {"InvalidInput", "panic"}, Return(vm, r) PROVE IndInv'
    BY <1>1, <1>2, QuietStep, ReturnType DEF IndInv, TypeOK, Result
  <1>3. ASSUME contains_range(start, size), Aligned(start), Aligned(paddr), Aligned(size),
               MemorySetMap(vm, area)
        PROVE  IndInv'
    <2>1. start \in Nat /\ paddr \in Nat /\ size \in Nat
      BY InputAssumption, UsizePage
    <2>2. PageOf(start) \in 0..(UsizePages - 1) /\ PageOf(paddr) \in 0..(UsizePages - 1)
      BY InputAssumption, UsizePage
    <2>3. PageOf(start + size) \in Nat /\ PageOf(start) <= PageOf(start + size)
      BY <1>3, <2>1, AlignedEnd, PageOfType
    <2>4. WrappingSub(PageOf(start), PageOf(paddr)) \in 0..(UsizePages - 1)
      BY <2>2, GeometryAssumption DEF WrappingSub
    <2>5. area \in Area
      BY <2>2, <2>3, <2>4, InputAssumption DEF Area
    <2>6. Pages(area) \subseteq Page
      BY <1>3, <2>1, CheckedRangePages DEF Pages
    <2>7. \A p \in Pages(area) : WrappingSub(p, area.offset) \notin Frame
      BY <1>3, LinearTargets, FrameFacts DEF map_linear, Pages
    <2> QED
      BY <1>1, <1>3, <2>3, <2>5, <2>6, <2>7, MapStartInv
  <1> QED
    BY <1>2, <1>3 DEF map_linear

\* map_alloc preserves the invariant.
LEMMA MapAllocInv ==
    ASSUME IndInv, NEW vm \in Vm, NEW start \in GuestAddr, NEW size \in CallSize,
           NEW flags \in FlagChoices, NEW populate \in BOOLEAN,
           map_alloc(vm, start, size, flags, populate)
    PROVE  IndInv'
  <1> DEFINE area == [start |-> PageOf(start), end |-> PageOf(start + size),
                      flags |-> flags, offset |-> 0,
                      backend |-> IF populate THEN "populate" ELSE "lazy"]
  <1>1. UNCHANGED <<areas, pt, tables, free, fault>>
    BY DEF map_alloc
  <1>2. ASSUME UNCHANGED op, Return(vm, "InvalidInput") PROVE IndInv'
    BY <1>1, <1>2, QuietStep, ReturnType DEF IndInv, TypeOK, Result
  <1>3. ASSUME contains_range(start, size), Aligned(start), Aligned(size),
               MemorySetMap(vm, area)
        PROVE  IndInv'
    <2>1. start \in Nat /\ size \in Nat
      BY InputAssumption, UsizePage
    <2>2. /\ PageOf(start) \in Nat /\ PageOf(start + size) \in Nat
          /\ PageOf(start) <= PageOf(start + size)
      BY <1>3, <2>1, AlignedEnd, PageOfType
    <2>3. area \in Area /\ area.backend # "linear"
      BY <2>2, InputAssumption, GeometryAssumption DEF Area
    <2>4. Pages(area) \subseteq Page
      BY <1>3, <2>1, CheckedRangePages DEF Pages
    <2> QED
      BY <1>1, <1>3, <2>2, <2>3, <2>4, MapStartInv
  <1> QED
    BY <1>2, <1>3 DEF map_alloc

\* A map call that fails, wherever it is, preserves the invariant.
LEMMA MapFailsInv ==
    ASSUME IndInv, NEW vm \in Vm, MapFails(vm), UNCHANGED <<areas, pt, tables, free, fault>>
    PROVE  IndInv'
  <1> USE IdleFacts DEF IndInv
  <1>1. op'[vm] = Idle /\ \A v \in Vm \ {vm} : op'[v] = op[v]
    BY DEF MapFails, TypeOK
  <1>2. TypeOK'
    BY ReturnType DEF MapFails, TypeOK, Result
  <1>3. PagesInRange'
    BY <1>1 DEF PagesInRange
  <1>4. MapOpSane'
    BY <1>1 DEF MapOpSane
  <1>5. AllocBacked'
    BY <1>1 DEF AllocBacked
  <1>6. \A v \in Vm : InHand(v)' = 0 \/ InHand(v)' = InHand(v)
    BY <1>1 DEF InHand
  <1>7. FramesExclusive' /\ NoFreeFrameInUse'
    BY <1>6, HandStep DEF TypeOK
  <1> QED
    BY <1>2, <1>3, <1>4, <1>5, <1>7

\* Taking a frame in hand preserves the invariant.
LEMMA MapAllocFrameInv ==
    ASSUME IndInv, NEW vm \in Vm, MapAllocFrame(vm)
    PROVE  IndInv'
  <1>1. CASE alloc_fails /\ MapFails(vm)
    BY <1>1, MapFailsInv DEF MapAllocFrame, alloc_fails
  <1>2. ASSUME NEW f \in Frame, alloc_frame(f), op' = [op EXCEPT ![vm].frame = f],
               UNCHANGED ret
        PROVE  IndInv'
    <2> USE FrameFacts DEF IndInv
    <2>1. f \in free /\ free' = free \ {f} /\ UNCHANGED <<areas, pt, tables, fault>>
      BY <1>2, AllocPicksFree DEF MapAllocFrame
    <2>2. /\ op'[vm].area = op[vm].area /\ op'[vm].cur = op[vm].cur /\ op'[vm].frame = f
          /\ \A v \in Vm \ {vm} : op'[v] = op[v]
      BY <1>2 DEF TypeOK, MapOp
    <2>3. TypeOK'
      BY <1>2, <2>1 DEF TypeOK, MapOp
    <2>4. PagesInRange' /\ MapOpSane'
      BY <2>1, <2>2 DEF PagesInRange, MapOpSane
    <2>5. AllocBacked'
      BY <2>1, <2>2 DEF AllocBacked
    <2>6. PagesExclusive' /\ TablesExclusive' /\ PagesNotTables'
      BY <2>1 DEF FramesExclusive, PagesExclusive, TablesExclusive, PagesNotTables
    <2>7. HandExclusive'
      BY <2>1, <2>2 DEF FramesExclusive, HandExclusive, InHand, NoFreeFrameInUse
    <2>8. NoFreeFrameInUse'
      BY <2>1, <2>2 DEF NoFreeFrameInUse, InHand
    <2> QED
      BY <2>3, <2>4, <2>5, <2>6, <2>7, <2>8 DEF FramesExclusive
  <1> QED
    BY <1>1, <1>2 DEF MapAllocFrame

\* Creating a table preserves the invariant.
LEMMA MapTableInv ==
    ASSUME IndInv, NEW vm \in Vm, MapTable(vm)
    PROVE  IndInv'
  <1>1. CASE alloc_fails /\ MapFails(vm) /\ UNCHANGED tables
    BY <1>1, MapFailsInv DEF MapTable, alloc_fails
  <1>2. ASSUME NEW t \in Missing(vm, op[vm].cur), NEW f \in Frame, alloc_frame(f),
               tables' = [tables EXCEPT ![vm][t] = f], UNCHANGED <<op, ret>>
        PROVE  IndInv'
    <2> USE FrameFacts DEF IndInv
    <2>1. f \in free /\ free' = free \ {f} /\ UNCHANGED <<areas, pt, fault>>
      BY <1>2, AllocPicksFree DEF MapTable
    <2>2. op[vm].cur \in Page
      BY DEF MapTable, Mapping, MapOpSane, PagesInRange, Pages, TypeOK, MapOp, Area
    <2>3. t \in Table
      BY <2>2 DEF Missing, Table
    <2>4. TypeOK'
      BY <1>2, <2>1, <2>3 DEF TypeOK
    <2>5. PagesInRange' /\ MapOpSane' /\ AllocBacked'
      BY <1>2, <2>1 DEF PagesInRange, MapOpSane, AllocBacked
    <2>6. /\ tables'[vm][t] = f
          /\ \A w \in Vm, u \in Table : w # vm \/ u # t => tables'[w][u] = tables[w][u]
      BY <1>2, <2>3 DEF TypeOK
    <2>7. PagesExclusive' /\ TablesExclusive' /\ PagesNotTables'
      BY <2>1, <2>3, <2>6
      DEF FramesExclusive, PagesExclusive, TablesExclusive, PagesNotTables, NoFreeFrameInUse
    <2>8. HandExclusive'
      BY <1>2, <2>1, <2>3, <2>6
      DEF FramesExclusive, HandExclusive, InHand, NoFreeFrameInUse
    <2>9. NoFreeFrameInUse'
      BY <1>2, <2>1, <2>3, <2>6 DEF NoFreeFrameInUse, InHand
    <2> QED
      BY <2>4, <2>5, <2>7, <2>8, <2>9 DEF FramesExclusive
  <1> QED
    BY <1>1, <1>2 DEF MapTable

\* Writing the next entry, or finding it used, preserves the invariant.
LEMMA MapEntryInv ==
    ASSUME IndInv, NEW vm \in Vm, MapEntry(vm)
    PROVE  IndInv'
  <1> DEFINE a == op[vm].area
             p == op[vm].cur
             e == NewPage(Target(a, p, op[vm].frame), EntryFlags(a))
  <1>1. CASE MapFails(vm) /\ UNCHANGED pt
    BY <1>1, MapFailsInv DEF MapEntry
  <1>2. CASE /\ pt' = [pt EXCEPT ![vm][p] = e]
             /\ op' = [op EXCEPT ![vm].cur = p + 1, ![vm].frame = 0]
             /\ UNCHANGED ret
    <2> USE FrameFacts DEF IndInv
    <2>1. UNCHANGED <<areas, tables, free, fault>>
      BY DEF MapEntry
    <2>2. a \in Area /\ p \in Nat /\ op[vm].frame \in Frame \cup {0}
      BY DEF TypeOK, MapOp
    <2>3. p \in Pages(a) /\ p \in Page
      BY <2>2 DEF MapEntry, Mapping, MapOpSane, PagesInRange, Pages, Area
    <2>4. a.backend = "populate" => op[vm].frame \in Frame
      BY <2>2 DEF MapEntry, FrameInHand
    <2>5. /\ a.backend = "linear" => e.paddr \in Nat \ Frame
          /\ a.backend = "populate" => e.paddr = op[vm].frame
          /\ a.backend = "lazy" => e.paddr = 0
      BY <2>2, <2>3, WrappingSubType DEF Target, NewPage, MapOpSane, Area
    <2>6. a.backend = "lazy" => ~ IsPresent(e)
      BY PlaceholderAbsent DEF Target, EntryFlags
    <2>7. e \in Entry
      <3>1. e.paddr = Target(a, p, op[vm].frame)
        BY DEF NewPage
      <3>2. a.backend \in {"linear", "populate", "lazy"}
        BY <2>2 DEF Area
      <3> HIDE DEF a, p, e
      <3>3. e.paddr \in Nat
        <4>1. CASE a.backend = "linear"
          BY <2>5, <4>1
        <4>2. CASE a.backend = "populate"
          BY <2>4, <2>5, <4>2
        <4>3. CASE a.backend = "lazy"
          BY <2>5, <4>3
        <4> QED
          BY <3>2, <4>1, <4>2, <4>3
      <3>4. NewPage(Target(a, p, op[vm].frame), EntryFlags(a)) \in Entry
        BY <3>1, <3>3, NewPageType
      <3> QED
        BY <3>4 DEF e
    <2> HIDE DEF e
    <2>8. /\ op'[vm].area = a /\ op'[vm].cur = p + 1 /\ op'[vm].frame = 0
          /\ \A v \in Vm \ {vm} : op'[v] = op[v]
      BY <1>2 DEF TypeOK, MapOp
    <2>9. /\ pt'[vm][p] = e
          /\ \A q \in Page \ {p} : pt'[vm][q] = pt[vm][q]
          /\ \A v \in Vm \ {vm} : pt'[v] = pt[v]
      BY <1>2, <2>3 DEF TypeOK
    <2>10. TypeOK'
      <3>1. pt' \in [Vm -> [Page -> Entry]]
        BY <1>2, <2>3, <2>7 DEF TypeOK
      <3>2. [op[vm] EXCEPT !.cur = p + 1, !.frame = 0] \in MapOp
        <4>1. op[vm] \in MapOp /\ p + 1 \in Nat
          BY <2>2 DEF TypeOK
        <4> HIDE DEF p, IndInv
        <4> QED
          BY <4>1 DEF MapOp
      <3>3. op' \in [Vm -> MapOp]
        BY <1>2, <3>2 DEF TypeOK
      <3> QED
        BY <1>2, <2>1, <3>1, <3>3 DEF TypeOK
    <2>11. PagesInRange'
      BY <2>1, <2>8 DEF PagesInRange
    <2>12. MapOpSane'
      BY <2>1, <2>2, <2>3, <2>8 DEF MapOpSane, Pages, Area
    <2>13. AllocBacked'
      <3>1. \A b \in areas[vm] : p \notin Pages(b)
        BY <2>3 DEF MapOpSane
      <3>2. \A b \in areas[vm] : b.backend # "linear" =>
              \A q \in Pages(b) : IsPresent(pt'[vm][q]) => pt'[vm][q].paddr \in Frame
        BY <2>9, <3>1 DEF AllocBacked, PagesInRange
      <3>3. a.backend # "linear" =>
              \A q \in a.start .. p : IsPresent(pt'[vm][q]) => pt'[vm][q].paddr \in Frame
        <4>1. \A q \in a.start .. p : q \in Page /\ (q # p => q \in a.start .. (p - 1))
          BY <2>2, <2>3 DEF Pages, PagesInRange, Area
        <4>2. a.backend # "linear" => (IsPresent(e) => e.paddr \in Frame)
          BY <2>2, <2>4, <2>5, <2>6 DEF Area
        <4> QED
          BY <2>9, <4>1, <4>2 DEF AllocBacked
      <3>4. (p + 1) - 1 = p
        BY <2>2
      <3> QED
        <4>1. \A v \in Vm \ {vm} : areas'[v] = areas[v] /\ op'[v] = op[v] /\ pt'[v] = pt[v]
          BY <2>1, <2>8, <2>9
        <4>2. op'[vm].area.backend # "linear" =>
                \A q \in op'[vm].area.start .. (op'[vm].cur - 1) :
                    IsPresent(pt'[vm][q]) => pt'[vm][q].paddr \in Frame
          BY <2>8, <3>3, <3>4
        <4>3. areas'[vm] = areas[vm]
          BY <2>1
        <4> QED
          BY <3>2, <4>1, <4>2, <4>3, AllocBackedLocal
    <2>14. FramesExclusive' /\ NoFreeFrameInUse'
      <3>1. \A v \in Vm : InHand(v)' = IF v = vm THEN 0 ELSE InHand(v)
        BY <2>8 DEF InHand
      <3>2. e.paddr \in Frame => e.paddr = InHand(vm) /\ InHand(vm) # 0
        BY <2>2, <2>5 DEF InHand, Area
      <3>3. e.paddr \in Frame =>
             /\ e.paddr \notin free'
             /\ \A w \in Vm, q \in Page : pt[w][q].paddr # e.paddr
             /\ \A w \in Vm, t \in Table : tables[w][t] # e.paddr
             /\ \A v \in Vm : InHand(v)' # e.paddr
        BY <2>1, <3>1, <3>2 DEF FramesExclusive, HandExclusive, NoFreeFrameInUse
      <3> QED
        BY <1>2, <2>1, <2>3, <2>7, <3>1, <3>3, PageWriteExclusive
    <2> QED
      BY <2>10, <2>11, <2>12, <2>13, <2>14
  <1> QED
    BY <1>1, <1>2 DEF MapEntry, NextPage

\* Inserting the area preserves the invariant.
LEMMA MapDoneInv ==
    ASSUME IndInv, NEW vm \in Vm, MapDone(vm)
    PROVE  IndInv'
  <1> USE DEF IndInv
  <1>1. /\ op'[vm] = Idle /\ \A v \in Vm \ {vm} : op'[v] = op[v] /\ areas'[v] = areas[v]
        /\ areas'[vm] = areas[vm] \cup {op[vm].area}
        /\ UNCHANGED <<pt, tables, free, fault>>
    BY DEF MapDone, TypeOK
  <1>2. TypeOK'
    <2>1. areas' \in [Vm -> SUBSET Area]
      BY DEF MapDone, TypeOK, MapOp
    <2>2. ret' \in [Vm -> Result]
      BY ReturnType DEF MapDone, Result
    <2>3. op' \in [Vm -> MapOp]
      BY IdleFacts DEF MapDone, TypeOK
    <2> QED
      BY <1>1, <2>1, <2>2, <2>3 DEF TypeOK
  <1>3. PagesInRange'
    BY <1>1, IdleFacts DEF PagesInRange
  <1>4. MapOpSane'
    BY <1>1, IdleFacts DEF MapOpSane
  <1>5. AllocBacked'
    BY <1>1, IdleFacts DEF AllocBacked, MapDone, Pages
  <1>6. \A v \in Vm : InHand(v)' = 0 \/ InHand(v)' = InHand(v)
    BY <1>1, IdleFacts DEF InHand
  <1>7. FramesExclusive' /\ NoFreeFrameInUse'
    BY <1>1, <1>6, HandStep DEF TypeOK
  <1> QED
    BY <1>2, <1>3, <1>4, <1>5, <1>7
=============================================================================
