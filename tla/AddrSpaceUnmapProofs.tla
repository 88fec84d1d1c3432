------------------------ MODULE AddrSpaceUnmapProofs ------------------------
(***************************************************************************)
(* The invariant of AddrSpace is preserved by unmap, clear and Drop.       *)
(***************************************************************************)
EXTENDS AddrSpaceLemmas

\* The frames unmap_alloc gives back are the allocator's.
LEMMA FramesOfType ==
    ASSUME AllocBacked, NEW vm \in Vm, NEW P
    PROVE  FramesOf(vm, P) \subseteq Frame
  BY DEF FramesOf, AllocBacked

\* Clearing the entries of P and giving back the frames unmap_alloc finds there,
\* while the areas only shrink, preserves the invariant.
LEMMA UnmapPagesInv ==
    ASSUME IndInv, NEW vm \in Vm, op[vm] = Idle, NEW P, NEW A \in SUBSET Area,
           \A b \in A : \E a \in areas[vm] : /\ Pages(b) \subseteq Pages(a)
                                             /\ b.backend = a.backend,
           areas' = [areas EXCEPT ![vm] = A], ClearEntries(vm, P),
           dealloc_frames(FramesOf(vm, P)),
           UNCHANGED <<tables, op, fault>>, ret' \in [Vm -> Result]
    PROVE  IndInv'
  <1> USE FrameFacts, IdleFacts, UnusedAbsent DEF IndInv
  <1> DEFINE F == FramesOf(vm, P)
  <1>1. F \subseteq Frame /\ free' = free \cup F
    BY FramesOfType DEF dealloc_frames
  <1>2. \A f \in F : \E q \in Page : q \in P /\ pt[vm][q].paddr = f
    BY DEF FramesOf, PagesInRange
  <1> HIDE DEF F
  <1>3. /\ \A q \in Page : pt'[vm][q] = IF q \in P THEN Unused ELSE pt[vm][q]
        /\ \A v \in Vm \ {vm} : pt'[v] = pt[v] /\ areas'[v] = areas[v]
        /\ areas'[vm] = A
    BY DEF ClearEntries, TypeOK
  <1>4. Unused.paddr = 0
    BY DEF Unused
  <1>5. TypeOK'
    <2>1. pt' \in [Vm -> [Page -> Entry]]
      BY DEF ClearEntries, TypeOK
    <2> QED
      BY <1>1, <2>1 DEF TypeOK
  <1>6. PagesInRange'
    BY <1>3 DEF PagesInRange
  <1>7. MapOpSane'
    BY <1>3 DEF MapOpSane
  <1>8. AllocBacked'
    <2>1. \A b \in A : b.backend # "linear" =>
            \A q \in Pages(b) : IsPresent(pt'[vm][q]) => pt'[vm][q].paddr \in Frame
      BY <1>3 DEF AllocBacked, PagesInRange
    <2>2. \A v \in Vm \ {vm} : areas'[v] = areas[v] /\ op'[v] = op[v] /\ pt'[v] = pt[v]
      BY <1>3
    <2>3. op'[vm] = Idle /\ areas'[vm] = A
      BY <1>3
    <2> QED
      BY <2>1, <2>2, <2>3, AllocBackedLocal
  <1>9. \A w \in Vm, q \in Page : pt'[w][q] = pt[w][q] \/ pt'[w][q] = Unused
    BY <1>3
  <1>10. FramesExclusive'
    BY <1>4, <1>9, ClearingExclusive
  <1>12. NoFreeFrameInUse'
    <2>1. ASSUME NEW f \in F
          PROVE  /\ \A w \in Vm, q \in Page : pt'[w][q].paddr # f
                 /\ \A w \in Vm, t \in Table : tables[w][t] # f
                 /\ \A v \in Vm : InHand(v) # f
      <3>1. PICK o \in Page : o \in P /\ pt[vm][o].paddr = f
        BY <1>2
      <3>2. f \in Frame /\ f # 0
        BY <1>1
      <3>3. /\ \A w \in Vm, q \in Page : pt[w][q].paddr = f => w = vm /\ q = o
            /\ \A w \in Vm, t \in Table : tables[w][t] # f
            /\ \A v \in Vm : InHand(v) # f
        BY <3>1, <3>2, PageFrameElsewhere
      <3>4. pt'[vm][o].paddr = 0
        BY <1>3, <1>4, <3>1
      <3>5. \A w \in Vm, q \in Page : pt'[w][q].paddr # f
        BY <1>4, <1>9, <3>2, <3>3, <3>4
      <3> QED
        BY <3>3, <3>5
    <2>4. 0 \notin free
      BY DEF TypeOK
    <2> QED
      <3>1. \A w \in Vm, q \in Page : pt'[w][q].paddr \notin free'
        <4>1. \A w \in Vm, q \in Page : pt'[w][q].paddr \notin free
          BY <1>4, <1>9, <2>4 DEF NoFreeFrameInUse
        <4>2. \A w \in Vm, q \in Page : pt'[w][q].paddr \notin F
          BY <2>1
        <4> QED
          BY <1>1, <4>1, <4>2
      <3>2. \A w \in Vm, t \in Table : tables'[w][t] \notin free'
        BY <1>1, <2>1 DEF NoFreeFrameInUse
      <3>3. \A v \in Vm : InHand(v)' \notin free'
        BY <1>1, <2>1 DEF NoFreeFrameInUse, InHand
      <3> QED
        BY <3>1, <3>2, <3>3 DEF NoFreeFrameInUse
  <1> QED
    BY <1>5, <1>6, <1>7, <1>8, <1>10, <1>12

\* What is left of an area is a part of it, of the same backend.
LEMMA PiecesInside ==
    ASSUME NEW a \in Area, NEW s \in Nat, NEW e \in Nat, NEW b \in Pieces(a, s, e)
    PROVE  b \in Area /\ Pages(b) \subseteq Pages(a) /\ b.backend = a.backend
  BY DEF Pieces, Area, Pages

\* The area that MemorySet::unmap shrinks although its backend failed.
LEMMA ShrunkInside ==
    ASSUME NEW a \in Area, NEW e \in Nat
    PROVE  LET b == [a EXCEPT !.end = IF e < a.end THEN e ELSE a.end]
           IN  b \in Area /\ Pages(b) \subseteq Pages(a) /\ b.backend = a.backend
  BY DEF Area, Pages

\* MemorySet::unmap preserves the invariant, whichever areas it gets through.
LEMMA UnmapAreasInv ==
    ASSUME IndInv, NEW vm \in Vm, op[vm] = Idle, NEW s \in Nat, NEW e \in Nat,
           NEW done \in SUBSET areas[vm], NEW failed \in SUBSET areas[vm], NEW kept,
           \A b \in kept : \E a \in areas[vm] :
               b = [a EXCEPT !.end = IF e < a.end THEN e ELSE a.end],
           UnmapAreas(vm, s, e, done, failed, kept),
           UNCHANGED <<tables, op, fault>>, ret' \in [Vm -> Result]
    PROVE  IndInv'
  <1> DEFINE A == ((areas[vm] \ (done \cup failed)) \cup kept)
                    \cup UNION {Pieces(a, s, e) : a \in done}
  <1>1. areas[vm] \subseteq Area
    BY DEF IndInv, TypeOK
  <1>2. \A b \in A : /\ b \in Area
                     /\ \E a \in areas[vm] : /\ Pages(b) \subseteq Pages(a)
                                             /\ b.backend = a.backend
    <2>1. ASSUME NEW b \in kept
          PROVE  /\ b \in Area
                 /\ \E a \in areas[vm] : /\ Pages(b) \subseteq Pages(a)
                                         /\ b.backend = a.backend
      <3>1. PICK a \in areas[vm] : b = [a EXCEPT !.end = IF e < a.end THEN e ELSE a.end]
        OBVIOUS
      <3>2. a \in Area
        BY <1>1
      <3>3. b \in Area /\ Pages(b) \subseteq Pages(a) /\ b.backend = a.backend
        BY <3>1, <3>2, ShrunkInside
      <3> QED
        BY <3>3
    <2>2. ASSUME NEW a \in done, NEW b \in Pieces(a, s, e)
          PROVE  b \in Area /\ Pages(b) \subseteq Pages(a) /\ b.backend = a.backend
      BY <1>1, PiecesInside
    <2> QED
      BY <1>1, <2>1, <2>2
  <1>3. areas' = [areas EXCEPT ![vm] = A]
    BY DEF UnmapAreas, IndInv, TypeOK
  <1> HIDE DEF A
  <1>4. A \in SUBSET Area
    BY <1>2
  <1> DEFINE R == s..(e - 1)
             P == UNION {Pages(a) \cap R : a \in done}
                    \cup UNION {VisitedPages(vm, a, R) : a \in failed}
  <1>5. ClearEntries(vm, P) /\ dealloc_frames(FramesOf(vm, P))
    BY DEF UnmapAreas
  <1> HIDE DEF P
  <1> QED
    BY <1>2, <1>3, <1>4, <1>5, UnmapPagesInv

\* unmap preserves the invariant.
LEMMA UnmapInv ==
    ASSUME IndInv, NEW vm \in Vm, NEW start \in GuestAddr, NEW size \in CallSize,
           unmap(vm, start, size)
    PROVE  IndInv'
  <1>1. op[vm] = Idle /\ UNCHANGED <<tables, op, fault>>
    BY DEF unmap, Callable
  <1>2. ASSUME NEW r \in Result, Return(vm, r) PROVE ret' \in [Vm -> Result]
    BY <1>2, ReturnType DEF IndInv
  <1>3. ASSUME UNCHANGED <<areas, pt, free>>, ret' \in [Vm -> Result] PROVE IndInv'
    BY <1>1, <1>3, QuietStep DEF IndInv, TypeOK
  <1>4. ASSUME MemorySetUnmap(vm, PageOf(start), PageOf(start + size)) PROVE IndInv'
    <2> DEFINE s == PageOf(start)
               e == PageOf(start + size)
               Whole == {a \in areas[vm] : s <= a.start /\ a.end <= e}
               Left == {a \in areas[vm] : a.start < s /\ s < a.end}
               Right == {a \in areas[vm] : s <= a.start /\ a.start < e /\ e < a.end}
               Shrunk == {[a EXCEPT !.end = IF e < a.end THEN e ELSE a.end] : a \in Left}
    <2>1. s \in Nat /\ e \in Nat
      BY InputAssumption, UsizePage, PageOfType
    <2>2. CASE Return(vm, "panic") /\ UNCHANGED <<areas, pt, free>>
      BY <1>2, <1>3, <2>2 DEF Result
    <2>3. CASE UnmapAreas(vm, s, e, Whole, Left, Shrunk) /\ Return(vm, "BadState")
      BY <1>1, <1>2, <2>1, <2>3, UnmapAreasInv DEF Result
    <2>4. CASE UnmapAreas(vm, s, e, Whole \cup Left, Right, {}) /\ Return(vm, "BadState")
      BY <1>1, <1>2, <2>1, <2>4, UnmapAreasInv DEF Result
    <2>5. CASE UnmapAreas(vm, s, e, Whole \cup Left \cup Right, {}, {}) /\ Return(vm, "Ok")
      BY <1>1, <1>2, <2>1, <2>5, UnmapAreasInv DEF Result
    <2> QED
      BY <1>4, <2>2, <2>3, <2>4, <2>5 DEF MemorySetUnmap
  <1> QED
    BY <1>2, <1>3, <1>4 DEF unmap, Result

\* clear preserves the invariant.
LEMMA ClearInv ==
    ASSUME IndInv, NEW vm \in Vm, clear_all(vm)
    PROVE  IndInv'
  <1>1. op[vm] = Idle /\ UNCHANGED <<tables, op, fault>>
    BY DEF clear_all, Callable
  <1>2. ret' \in [Vm -> Result]
    BY ReturnType DEF clear_all, IndInv, Result
  <1>3. CASE UNCHANGED <<areas, pt, free>>
    BY <1>1, <1>2, <1>3, QuietStep DEF IndInv, TypeOK
  <1>4. CASE /\ areas' = [areas EXCEPT ![vm] = {}]
             /\ ClearEntries(vm, AreaPages(vm))
             /\ dealloc_frames(FramesOf(vm, AreaPages(vm)))
    <2> DEFINE A == {}
               P == AreaPages(vm)
    <2>1. A \in SUBSET Area /\ \A b \in A : FALSE
      OBVIOUS
    <2>2. /\ areas' = [areas EXCEPT ![vm] = A] /\ ClearEntries(vm, P)
          /\ dealloc_frames(FramesOf(vm, P))
      BY <1>4
    <2> HIDE DEF A, P
    <2> QED
      BY <1>1, <1>2, <2>1, <2>2, UnmapPagesInv
  <1> QED
    BY <1>3, <1>4 DEF clear_all

\* Drop preserves the invariant: a frame it gives back was only in use by the
\* pages and tables that go with it.
LEMMA DropInv ==
    ASSUME IndInv, NEW vm \in Vm, drop(vm)
    PROVE  IndInv'
  <1>1. op[vm] = Idle /\ UNCHANGED op
    BY DEF drop, Callable
  <1>2. ret' \in [Vm -> Result]
    BY ReturnType DEF drop, IndInv, Result
  <1>3. CASE UNCHANGED <<areas, pt, tables, free, fault>>
    BY <1>1, <1>2, <1>3, QuietStep DEF IndInv, TypeOK
  <1>4. CASE ~ ClearPanics(vm)
    <2> USE FrameFacts, IdleFacts, UnusedAbsent DEF IndInv
    <2> DEFINE G == FramesOf(vm, AreaPages(vm))
               T == {tables[vm][t] : t \in Table} \ {0}
    <2>1. G \subseteq Frame /\ T \subseteq Frame /\ free' = free \cup (G \cup T)
      <3>1. G \subseteq Frame
        BY FramesOfType
      <3>2. T \subseteq Frame
        BY DEF TypeOK
      <3> HIDE DEF IndInv
      <3>3. free' = free \cup (G \cup T)
        BY <1>4 DEF drop, dealloc_frames
      <3> QED
        BY <3>1, <3>2, <3>3
    <2>2. /\ \A f \in G : \E q \in Page : pt[vm][q].paddr = f
          /\ \A f \in T : \E t \in Table : tables[vm][t] = f
      BY DEF FramesOf, PagesInRange
    <2> HIDE DEF G, T
    <2>3. /\ areas'[vm] = {} /\ \A q \in Page : pt'[vm][q] = Unused
          /\ \A t \in Table : tables'[vm][t] = 0
          /\ \A v \in Vm \ {vm} : /\ areas'[v] = areas[v] /\ pt'[v] = pt[v]
                                   /\ tables'[v] = tables[v]
      <3>1. /\ areas' = [areas EXCEPT ![vm] = {}]
            /\ pt' = [pt EXCEPT ![vm] = [q \in Page |-> IF q \in Page THEN Unused
                                                        ELSE pt[vm][q]]]
            /\ tables' = [tables EXCEPT ![vm] = [t \in Table |-> 0]]
        BY <1>4, Zenon DEF drop, ClearEntries
      <3>2. TypeOK
        OBVIOUS
      <3> HIDE DEF IndInv
      <3>3. areas'[vm] = {} /\ \A v \in Vm \ {vm} : areas'[v] = areas[v]
        BY <3>1, <3>2 DEF TypeOK
      <3>4. /\ \A q \in Page : pt'[vm][q] = Unused
            /\ \A v \in Vm \ {vm} : pt'[v] = pt[v]
        BY <3>1, <3>2 DEF TypeOK
      <3>5. /\ \A t \in Table : tables'[vm][t] = 0
            /\ \A v \in Vm \ {vm} : tables'[v] = tables[v]
        BY <3>1, <3>2 DEF TypeOK
      <3> QED
        BY <3>3, <3>4, <3>5
    <2>4. Unused.paddr = 0
      BY DEF Unused
    <2>5. TypeOK'
      <3>1. /\ pt' = [pt EXCEPT ![vm] = [q \in Page |-> IF q \in Page THEN Unused
                                                        ELSE pt[vm][q]]]
            /\ tables' = [tables EXCEPT ![vm] = [t \in Table |-> 0]]
            /\ fault' = [fault EXCEPT ![vm] = [c \in Vcpu |-> NoFault]]
        BY <1>4, Zenon DEF drop, ClearEntries
      <3>2. pt' \in [Vm -> [Page -> Entry]]
        BY <3>1 DEF TypeOK
      <3>3. areas' \in [Vm -> SUBSET Area]
        BY <1>4 DEF drop, TypeOK
      <3>4. tables' \in [Vm -> [Table -> Frame \cup {0}]]
        BY <3>1 DEF TypeOK
      <3>5. fault' \in [Vm -> [Vcpu -> GuestAccess \cup {NoFault}]]
        BY <3>1 DEF TypeOK
      <3> QED
        BY <1>1, <1>2, <2>1, <3>2, <3>3, <3>4, <3>5 DEF TypeOK
    <2>6. PagesInRange' /\ MapOpSane'
      BY <1>1, <2>3 DEF PagesInRange, MapOpSane
    <2>7. AllocBacked'
      BY <1>1, <2>3 DEF AllocBacked
    <2>8. /\ \A w \in Vm, q \in Page : pt'[w][q] = pt[w][q] \/ pt'[w][q].paddr = 0
          /\ \A w \in Vm, t \in Table : tables'[w][t] = tables[w][t] \/ tables'[w][t] = 0
      BY <2>3, <2>4
    <2>9. FramesExclusive'
      BY <1>1, <2>8, ClearingExclusive
    <2>11. ASSUME NEW f \in G \cup T
           PROVE  /\ \A w \in Vm, q \in Page : pt'[w][q].paddr # f
                  /\ \A w \in Vm, t \in Table : tables'[w][t] # f
                  /\ \A v \in Vm : InHand(v) # f
      <3>1. f \in Frame /\ f # 0
        BY <2>1
      <3>2. CASE f \in G
        <4>1. PICK o \in Page : pt[vm][o].paddr = f
          BY <2>2, <3>2
        <4>2. /\ \A w \in Vm, q \in Page : pt[w][q].paddr = f => w = vm /\ q = o
              /\ \A w \in Vm, t \in Table : tables[w][t] # f
              /\ \A v \in Vm : InHand(v) # f
          BY <3>1, <4>1, PageFrameElsewhere
        <4>3. ASSUME NEW w \in Vm, NEW q \in Page PROVE pt'[w][q].paddr # f
          <5>1. CASE w = vm
            BY <2>3, <2>4, <3>1, <5>1
          <5>2. CASE w # vm
            BY <2>3, <4>2, <5>2
          <5> QED
            BY <5>1, <5>2
        <4>4. \A w \in Vm, t \in Table : tables'[w][t] # f
          BY <2>8, <3>1, <4>2
        <4> QED
          BY <4>2, <4>3, <4>4
      <3>3. CASE f \in T
        <4>1. PICK o \in Table : tables[vm][o] = f
          BY <2>2, <3>3
        <4>2. /\ \A w \in Vm, q \in Page : pt[w][q].paddr # f
              /\ \A w \in Vm, t \in Table : tables[w][t] = f => w = vm /\ t = o
              /\ \A v \in Vm : InHand(v) # f
          <5>1. FramesExclusive /\ f \in Frame
            BY <3>1
          <5> HIDE FrameFacts, IdleFacts, UnusedAbsent DEF IndInv
          <5> QED
            BY <4>1, <5>1, TableFrameElsewhere
        <4>3. ASSUME NEW w \in Vm, NEW q \in Page PROVE pt'[w][q].paddr # f
          <5>1. pt'[w][q] = pt[w][q] \/ pt'[w][q].paddr = 0
            BY <2>8
          <5>2. pt[w][q].paddr # f
            BY <4>2
          <5> QED
            BY <3>1, <5>1, <5>2
        <4>4. ASSUME NEW w \in Vm, NEW t \in Table PROVE tables'[w][t] # f
          <5>1. CASE w = vm
            BY <2>3, <3>1, <5>1
          <5>2. CASE w # vm
            BY <2>3, <4>2, <5>2
          <5> QED
            BY <5>1, <5>2
        <4> QED
          BY <4>2, <4>3, <4>4
      <3> QED
        BY <3>2, <3>3
    <2>12. NoFreeFrameInUse'
      <3>1. 0 \notin free
        BY DEF TypeOK
      <3>2. \A w \in Vm, q \in Page : pt'[w][q].paddr \notin free'
        <4>1. \A w \in Vm, q \in Page : pt'[w][q].paddr \notin free
          BY <2>8, <3>1 DEF NoFreeFrameInUse
        <4>2. \A w \in Vm, q \in Page : pt'[w][q].paddr \notin G \cup T
          BY <2>11
        <4> QED
          BY <2>1, <4>1, <4>2
      <3>3. \A w \in Vm, t \in Table : tables'[w][t] \notin free'
        <4>1. \A w \in Vm, t \in Table : tables'[w][t] \notin free
          BY <2>8, <3>1 DEF NoFreeFrameInUse
        <4>2. \A w \in Vm, t \in Table : tables'[w][t] \notin G \cup T
          BY <2>11
        <4> QED
          BY <2>1, <4>1, <4>2
      <3>4. \A v \in Vm : InHand(v)' \notin free'
        BY <1>1, <2>1, <2>11 DEF NoFreeFrameInUse, InHand
      <3> QED
        BY <3>2, <3>3, <3>4 DEF NoFreeFrameInUse
    <2> QED
      BY <2>5, <2>6, <2>7, <2>9, <2>12
  <1> QED
    BY <1>3, <1>4 DEF drop
=============================================================================
