---------------------------- MODULE Translation ----------------------------
(***************************************************************************)
(* The read-only calls translate and translated_byte_buffer of AddrSpace   *)
(* (src/address_space/mod.rs).  They take &self and change nothing, so     *)
(* each is an operator on the state of AddrSpace, and the properties       *)
(* quantify over the inputs in every state.                                *)
(***************************************************************************)
EXTENDS AddrSpace

\* PageTable64::query: an entry that is not present is an error; reading the
\* flags of a present one may panic.
query(vm, addr) ==
    LET e == EntryAt(vm, addr)
    IN [kind |-> IF ~ IsPresent(e) THEN "Err" ELSE IF QueryPanics(e) THEN "panic" ELSE "Ok",
        paddr |-> e.paddr * PageSize + (addr % PageSize)]

None == [kind |-> "None"]

translate(vm, vaddr) ==
    LET q == query(vm, vaddr)
    IN CASE ~ contains(vaddr) \/ q.kind = "Err" -> None
         [] OTHER -> q

AreaBytes(a) == (a.end - a.start) * PageSize

\* The pages the copy loop visits for len bytes from vaddr.
BufferPages(vaddr, len) == PageOf(vaddr) .. (IF len = 0 THEN PageOf(vaddr) - 1
                                                       ELSE PageOf(vaddr + len - 1))

\* Mutant: the first slice starts at its page, not at vaddr.
PageSlice(vm, vaddr, len, p) ==
    LET next == (p + 1) * PageSize
        to == IF next < vaddr + len THEN next ELSE vaddr + len
        from == IF p = PageOf(vaddr) THEN vaddr ELSE p * PageSize
    IN [guest |-> from, host |-> query(vm, p * PageSize).paddr, len |-> to - from]

\* The slice pushed for page p: from the start of the buffer or of the page, up
\* to the end of the page or of the buffer.
Slice(vm, vaddr, len, p) ==
    LET from == IF p = PageOf(vaddr) THEN vaddr ELSE p * PageSize
        next == (p + 1) * PageSize
        to == IF next < vaddr + len THEN next ELSE vaddr + len
    IN [guest |-> from, host |-> query(vm, from).paddr, len |-> to - from]

translated_byte_buffer(vm, vaddr, len) ==
    IF ~ contains(vaddr) \/ ~ (\E a \in find(vm, vaddr) : len <= AreaBytes(a))
      THEN None
      ELSE IF \E p \in BufferPages(vaddr, len) : query(vm, p * PageSize).kind # "Ok"
      THEN [kind |-> "panic"]
      ELSE [kind |-> "Some",
            slices |-> {Slice(vm, vaddr, len, p) : p \in BufferPages(vaddr, len)}]

\* The slices of translated_byte_buffer hold each byte of the guest buffer once
\* and where translate says it is, across pages that are not contiguous in the
\* host and areas that unmap has shrunk or split.
BufferMatchesTranslate ==
    \A vm \in Vm, vaddr \in GuestAddr, len \in CallSize :
        LET b == translated_byte_buffer(vm, vaddr, len)
        IN Live(vm) /\ b.kind = "Some" =>
             /\ \A s \in b.slices : vaddr <= s.guest /\ s.guest + s.len <= vaddr + len
             /\ \A i \in vaddr .. (vaddr + len - 1) :
                 LET Holding == {s \in b.slices : i \in s.guest .. (s.guest + s.len - 1)}
                 IN /\ Cardinality(Holding) = 1
                    /\ \A s \in Holding : translate(vm, i).kind # "None"
                                          /\ translate(vm, i).paddr = s.host + (i - s.guest)

\* translated_byte_buffer returns a buffer or None, whatever part of the range
\* is mapped.
BufferNeverPanics ==
    \A vm \in Vm, vaddr \in GuestAddr, len \in CallSize :
        Live(vm) => translated_byte_buffer(vm, vaddr, len).kind # "panic"
=============================================================================
