-------------------------- MODULE AddrSpaceLemmas ---------------------------
(***************************************************************************)
(* Facts about the operators of AddrSpace and about the parts of its       *)
(* invariant, which the proofs for its actions share.                      *)
(***************************************************************************)
EXTENDS AddrSpace, NestedPteProofs

-----------------------------------------------------------------------------
(* Addresses and pages.                                                    *)

\* PageOf gives page numbers.
LEMMA PageOfType == \A addr \in Nat : PageOf(addr) \in Nat
  BY GeometryAssumption DEF PageOf

\* The first byte of page k is in page k.
LEMMA PageOfFirstByte == \A k \in Nat : PageOf(k * PageSize) = k
  BY GeometryAssumption DEF PageOf

\* An aligned address is the first byte of its page.
LEMMA AlignedPage == \A addr \in Nat : Aligned(addr) => addr = PageOf(addr) * PageSize
  BY GeometryAssumption DEF PageOf, Aligned

\* Multiplication by a natural number is monotone.
LEMMA MulMonotone == \A i, j, k \in Nat : i <= j => i * k <= j * k
  BY SMT

\* Multiplication distributes over addition.
LEMMA MulDistributes == \A i, j, k \in Nat : (i + j) * k = i * k + j * k
  BY SMT

\* The page after the last one of an aligned range.
LEMMA AlignedEnd ==
    ASSUME NEW start \in Nat, NEW size \in Nat, Aligned(start), Aligned(size)
    PROVE  PageOf(start + size) = PageOf(start) + PageOf(size)
  <1>1. start = PageOf(start) * PageSize /\ size = PageOf(size) * PageSize
    BY AlignedPage
  <1>2. PageOf(start) \in Nat /\ PageOf(size) \in Nat
    BY PageOfType
  <1>3. (PageOf(start) + PageOf(size)) * PageSize
          = PageOf(start) * PageSize + PageOf(size) * PageSize
    BY <1>2, MulDistributes, GeometryAssumption
  <1>4. start + size = (PageOf(start) + PageOf(size)) * PageSize
    BY <1>1, <1>3, Zenon
  <1> QED
    BY <1>2, <1>4, PageOfFirstByte

\* What map and unmap check of a range makes its pages pages of the table.
LEMMA CheckedRangePages ==
    ASSUME NEW start \in Nat, NEW size \in Nat, Aligned(start), Aligned(size),
           contains_range(start, size),
           NEW p \in PageOf(start) .. (PageOf(start + size) - 1)
    PROVE  p \in Page
  <1> DEFINE s == PageOf(start)  n == PageOf(size)
  <1>1. s \in Nat /\ n \in Nat /\ PageOf(start + size) = s + n
    BY PageOfType, AlignedEnd
  <1>2. start = s * PageSize /\ size = n * PageSize
    BY AlignedPage
  <1> HIDE DEF s, n
  <1>3. p \in Nat /\ p + 1 \in Nat /\ p + 1 <= s + n
    BY <1>1 DEF s
  <1>4. (p + 1) * PageSize <= (s + n) * PageSize
    BY <1>1, <1>3, MulMonotone, GeometryAssumption
  <1>5. p * PageSize < Base + Size
    BY <1>1, <1>2, <1>3, <1>4, GeometryAssumption DEF contains_range
  <1>6. p <= p * PageSize
    BY <1>3, MulMonotone, GeometryAssumption
  <1> QED
    BY <1>3, <1>5, <1>6, GeometryAssumption DEF Page

\* The last byte of page k - 1.
LEMMA PageOfLastByte == \A k \in Nat \ {0} : PageOf(k * PageSize - 1) = k - 1
  <1> SUFFICES ASSUME NEW k \in Nat \ {0} PROVE PageOf(k * PageSize - 1) = k - 1
    OBVIOUS
  <1>1. k * PageSize = (k - 1) * PageSize + PageSize
    BY GeometryAssumption
  <1>2. (k - 1) * PageSize \in Nat
    BY GeometryAssumption
  <1> QED
    BY <1>1, <1>2, GeometryAssumption DEF PageOf

\* Subtracting an offset from a page number gives a page number.
LEMMA WrappingSubType ==
    ASSUME NEW a \in Nat, NEW b \in 0..(UsizePages - 1)
    PROVE  WrappingSub(a, b) \in Nat
  BY GeometryAssumption DEF WrappingSub

\* The page of an address that a usize holds.
LEMMA UsizePage ==
    ASSUME NEW addr \in 0..(UsizePages * PageSize - 1)
    PROVE  addr \in Nat /\ PageOf(addr) \in 0..(UsizePages - 1)
  <1>1. addr \in Nat /\ addr < UsizePages * PageSize
    BY GeometryAssumption
  <1>2. PageOf(addr) \in Nat /\ PageOf(addr) * PageSize <= addr
    BY <1>1, PageOfType, GeometryAssumption DEF PageOf
  <1>3. ASSUME UsizePages <= PageOf(addr) PROVE FALSE
    BY <1>1, <1>2, <1>3, MulMonotone, GeometryAssumption
  <1> QED
    BY <1>1, <1>2, <1>3, GeometryAssumption

-----------------------------------------------------------------------------
(* Frames, results and calls.                                              *)

\* 0 is no frame, and no frame is mapped linearly.
LEMMA FrameFacts ==
    /\ 0 \notin Frame
    /\ Frame \subseteq Nat
    /\ \A p \in HostRegion : p \notin Frame
  BY HostMemoryAssumption, GeometryAssumption

\* alloc_frame hands out a free frame.
LEMMA AllocPicksFree ==
    ASSUME TypeOK, NEW f, alloc_frame(f)
    PROVE  f \in free /\ f \in Frame /\ free' = free \ {f}
  BY AllocatorAssumption DEF TypeOK, alloc_frame

\* What a call returns is a result.
LEMMA ReturnType ==
    ASSUME TypeOK, NEW vm \in Vm, NEW r \in Result, Return(vm, r)
    PROVE  ret' \in [Vm -> Result]
  BY DEF TypeOK, Return

\* What the idle state of a VM says of its call.
LEMMA IdleFacts ==
    /\ Idle \in MapOp /\ Idle.frame = 0 /\ Idle.cur = 0
    /\ Idle.area.start = 0 /\ Idle.area.end = 0 /\ Idle.area.backend = "lazy"
    /\ Pages(Idle.area) = {} /\ Idle.area.start .. (Idle.cur - 1) = {}
  BY GeometryAssumption DEF Idle, NoArea, MapOp, Area, Pages

-----------------------------------------------------------------------------
(* Steps that change little.                                               *)

\* A step that changes neither memory nor the call in progress, only what a call
\* returned or which faults are pending, preserves the invariant.
LEMMA QuietStep ==
    ASSUME IndInv, UNCHANGED <<areas, pt, tables, free, op>>,
           fault' \in [Vm -> [Vcpu -> GuestAccess \cup {NoFault}]],
           ret' \in [Vm -> Result]
    PROVE  IndInv'
  <1>1. TypeOK'
    BY DEF IndInv, TypeOK
  <1>2. PagesInRange' /\ MapOpSane' /\ AllocBacked'
    BY DEF IndInv, PagesInRange, MapOpSane, AllocBacked
  <1>3. FramesExclusive' /\ NoFreeFrameInUse'
    BY DEF IndInv, FramesExclusive, PagesExclusive, TablesExclusive, PagesNotTables,
           HandExclusive, NoFreeFrameInUse, InHand
  <1> QED
    BY <1>1, <1>2, <1>3 DEF IndInv

\* Letting go of a frame in hand, with nothing else changed, keeps frames
\* exclusive.
LEMMA HandStep ==
    ASSUME FramesExclusive, NoFreeFrameInUse, free \in SUBSET Frame,
           UNCHANGED <<pt, tables, free>>,
           \A v \in Vm : InHand(v)' = 0 \/ InHand(v)' = InHand(v)
    PROVE  FramesExclusive' /\ NoFreeFrameInUse'
  <1>1. PagesExclusive' /\ TablesExclusive' /\ PagesNotTables'
    BY DEF FramesExclusive, PagesExclusive, TablesExclusive, PagesNotTables
  <1>2. HandExclusive'
    BY DEF FramesExclusive, HandExclusive
  <1>3. NoFreeFrameInUse'
    BY FrameFacts DEF NoFreeFrameInUse
  <1> QED
    BY <1>1, <1>2, <1>3 DEF FramesExclusive

\* AllocBacked holds after a step that touches one VM if it holds for that VM.
LEMMA AllocBackedLocal ==
    ASSUME AllocBacked, NEW vm \in Vm,
           \A v \in Vm \ {vm} : areas'[v] = areas[v] /\ op'[v] = op[v] /\ pt'[v] = pt[v],
           \A b \in areas'[vm] : b.backend # "linear" =>
             \A q \in Pages(b) : IsPresent(pt'[vm][q]) => pt'[vm][q].paddr \in Frame,
           op'[vm].area.backend # "linear" =>
             \A q \in op'[vm].area.start .. (op'[vm].cur - 1) :
                 IsPresent(pt'[vm][q]) => pt'[vm][q].paddr \in Frame
    PROVE  AllocBacked'
  <1> SUFFICES ASSUME NEW v \in Vm
               PROVE  /\ \A b \in areas'[v] : b.backend # "linear" =>
                           \A q \in Pages(b) :
                               IsPresent(pt'[v][q]) => pt'[v][q].paddr \in Frame
                      /\ op'[v].area.backend # "linear" =>
                           \A q \in op'[v].area.start .. (op'[v].cur - 1) :
                               IsPresent(pt'[v][q]) => pt'[v][q].paddr \in Frame
    BY DEF AllocBacked, Pages, IsPresent
  <1>1. CASE v = vm
    BY <1>1
  <1>2. CASE v # vm
    BY <1>2 DEF AllocBacked
  <1> QED
    BY <1>1, <1>2

-----------------------------------------------------------------------------
(* Where a frame is.                                                       *)

\* A frame behind a page is nowhere else.
LEMMA PageFrameElsewhere ==
    ASSUME FramesExclusive, NEW vm \in Vm, NEW o \in Page, NEW f \in Frame,
           pt[vm][o].paddr = f
    PROVE  /\ \A w \in Vm, q \in Page : pt[w][q].paddr = f => w = vm /\ q = o
           /\ \A w \in Vm, t \in Table : tables[w][t] # f
           /\ \A v \in Vm : InHand(v) # f
  <1>1. \A w \in Vm, q \in Page : pt[w][q].paddr = f => w = vm /\ q = o
    BY DEF FramesExclusive, PagesExclusive
  <1>2. \A w \in Vm, t \in Table : tables[w][t] # f
    BY FrameFacts DEF FramesExclusive, PagesNotTables
  <1>3. \A v \in Vm : InHand(v) # f
    BY FrameFacts DEF FramesExclusive, HandExclusive
  <1> QED
    BY <1>1, <1>2, <1>3

\* A frame that is a page table is nowhere else.
LEMMA TableFrameElsewhere ==
    ASSUME FramesExclusive, NEW vm \in Vm, NEW o \in Table, NEW f \in Frame,
           tables[vm][o] = f
    PROVE  /\ \A w \in Vm, q \in Page : pt[w][q].paddr # f
           /\ \A w \in Vm, t \in Table : tables[w][t] = f => w = vm /\ t = o
           /\ \A v \in Vm : InHand(v) # f
  <1>1. \A w \in Vm, q \in Page : pt[w][q].paddr # f
    BY FrameFacts DEF FramesExclusive, PagesNotTables
  <1>2. \A w \in Vm, t \in Table : tables[w][t] = f => w = vm /\ t = o
    BY FrameFacts DEF FramesExclusive, TablesExclusive
  <1>3. \A v \in Vm : InHand(v) # f
    BY FrameFacts DEF FramesExclusive, HandExclusive
  <1> QED
    BY <1>1, <1>2, <1>3

\* Writing an entry keeps frames exclusive if the frame it points to, should it
\* be one of the allocator's, is nobody's any more.
LEMMA PageWriteExclusive ==
    ASSUME TypeOK, FramesExclusive, NoFreeFrameInUse,
           NEW vm \in Vm, NEW p \in Page, NEW e \in Entry,
           pt' = [pt EXCEPT ![vm][p] = e], UNCHANGED tables, free' \subseteq free,
           \A v \in Vm : InHand(v)' = 0 \/ InHand(v)' = InHand(v),
           e.paddr \in Frame =>
             /\ e.paddr \notin free'
             /\ \A w \in Vm, q \in Page : pt[w][q].paddr # e.paddr
             /\ \A w \in Vm, t \in Table : tables[w][t] # e.paddr
             /\ \A v \in Vm : InHand(v)' # e.paddr
    PROVE  FramesExclusive' /\ NoFreeFrameInUse'
  <1> USE FrameFacts
  <1>1. /\ pt'[vm][p] = e
        /\ \A w \in Vm, q \in Page : w # vm \/ q # p => pt'[w][q] = pt[w][q]
    BY DEF TypeOK
  <1>2. /\ free \subseteq Frame
        /\ \A w \in Vm, t \in Table : tables[w][t] # 0 => tables[w][t] \in Frame
        /\ \A v \in Vm : InHand(v) # 0 => InHand(v) \in Frame
    BY DEF TypeOK, InHand, MapOp
  <1>3. PagesExclusive'
    BY <1>1 DEF FramesExclusive, PagesExclusive
  <1>4. TablesExclusive'
    BY DEF FramesExclusive, TablesExclusive
  <1>5. PagesNotTables'
    BY <1>1, <1>2 DEF FramesExclusive, PagesNotTables
  <1>6. HandExclusive'
    BY <1>1, <1>2 DEF FramesExclusive, HandExclusive
  <1>7. NoFreeFrameInUse'
    BY <1>1, <1>2 DEF NoFreeFrameInUse
  <1> QED
    BY <1>3, <1>4, <1>5, <1>6, <1>7 DEF FramesExclusive

\* Clearing entries and dropping tables keeps frames exclusive.
LEMMA ClearingExclusive ==
    ASSUME FramesExclusive, UNCHANGED op,
           \A w \in Vm, q \in Page : pt'[w][q] = pt[w][q] \/ pt'[w][q].paddr = 0,
           \A w \in Vm, t \in Table : tables'[w][t] = tables[w][t] \/ tables'[w][t] = 0
    PROVE  FramesExclusive'
  <1>1. PagesExclusive'
    <2> SUFFICES ASSUME NEW v \in Vm, NEW w \in Vm, NEW p \in Page, NEW q \in Page,
                        pt'[v][p].paddr \in Frame, pt'[v][p].paddr = pt'[w][q].paddr
                 PROVE  v = w /\ p = q
      BY DEF PagesExclusive
    <2>1. pt'[v][p] = pt[v][p] /\ pt'[w][q] = pt[w][q]
      BY FrameFacts
    <2> QED
      BY <2>1 DEF FramesExclusive, PagesExclusive
  <1>2. TablesExclusive'
    <2> SUFFICES ASSUME NEW v \in Vm, NEW w \in Vm, NEW t \in Table, NEW u \in Table,
                        tables'[v][t] # 0, tables'[v][t] = tables'[w][u]
                 PROVE  v = w /\ t = u
      BY DEF TablesExclusive
    <2>1. tables'[v][t] = tables[v][t] /\ tables'[w][u] = tables[w][u]
      OBVIOUS
    <2>2. tables[v][t] # 0 /\ tables[v][t] = tables[w][u]
      BY <2>1
    <2>3. TablesExclusive
      BY DEF FramesExclusive
    <2> QED
      BY ONLY <2>2, <2>3, v \in Vm, w \in Vm, t \in Table, u \in Table DEF TablesExclusive
  <1>3. PagesNotTables'
    <2> SUFFICES ASSUME NEW v \in Vm, NEW w \in Vm, NEW p \in Page, NEW t \in Table,
                        tables'[w][t] # 0
                 PROVE  pt'[v][p].paddr # tables'[w][t]
      BY DEF PagesNotTables
    <2>1. tables'[w][t] = tables[w][t]
      OBVIOUS
    <2> QED
      BY <2>1 DEF FramesExclusive, PagesNotTables
  <1>4. HandExclusive'
    <2> SUFFICES ASSUME NEW v \in Vm, InHand(v) # 0
                 PROVE  /\ \A w \in Vm, p \in Page : pt'[w][p].paddr # InHand(v)
                        /\ \A w \in Vm, t \in Table : tables'[w][t] # InHand(v)
                        /\ \A w \in Vm : InHand(w) = InHand(v) => w = v
      BY DEF HandExclusive, InHand
    <2>1. HandExclusive
      BY DEF FramesExclusive
    <2>2. /\ \A w \in Vm, p \in Page : pt[w][p].paddr # InHand(v)
          /\ \A w \in Vm, t \in Table : tables[w][t] # InHand(v)
          /\ \A w \in Vm : InHand(w) = InHand(v) => w = v
      BY <2>1 DEF HandExclusive
    <2> HIDE DEF InHand
    <2>3. \A w \in Vm, p \in Page : pt'[w][p].paddr # InHand(v)
      BY <2>2
    <2>4. \A w \in Vm, t \in Table : tables'[w][t] # InHand(v)
      BY <2>2
    <2> QED
      BY <2>2, <2>3, <2>4
  <1> QED
    BY <1>1, <1>2, <1>3, <1>4 DEF FramesExclusive
=============================================================================
