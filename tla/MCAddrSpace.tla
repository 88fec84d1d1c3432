---------------------------- MODULE MCAddrSpace ----------------------------
(***************************************************************************)
(* Small instances of AddrSpace for TLC.                                   *)
(***************************************************************************)
EXTENDS Translation, FiniteSetsExt

\* The allocator hands out its lowest free frame.  Which one it picks makes no
\* difference to the model but for the names of the frames.
LowestFirst(S) == IF S = {} THEN {} ELSE {Min(S)}

R == {"READ"}
W == {"WRITE"}
RW == {"READ", "WRITE"}

OneVm == {"vm1"}
TwoVms == {"vm1", "vm2"}
OneVcpu == {"cpu1"}
TwoVcpus == {"cpu1", "cpu2"}

\* Pages have two bytes.  With Base = 2 and Size = 7, pages 1..3 are inside
\* va_range and page 4 reaches over its end; with Size = 5, pages 1 and 2 are
\* inside and page 3 reaches over.  The caller owns host bytes 8..13.
HostPages == 4..6
HostAddrs == {8, 9}
OneHostAddr == {8}
Addrs == {0, 2, 3, 4, 6}
Sizes == {0, 1, 2, 4, 6}
AlignedAddrs == {2, 4}
AlignedSizes == {2, 4}
ThreePages == {2, 4, 6}
ThreeSizes == {2, 4, 6}
FiveFrames == 11..15
SixFrames == 10..15
SevenFrames == 9..15

OnlyRW == {RW}
OnlyW == {W}
ReadOrWrite == {R, RW}
WithWriteOnly == {R, W, RW}

\* Bytes 3 and 4 are in pages 1 and 2, byte 7 is past the end of va_range, in the
\* page that reaches over it, when Size = 5.
Writes == {[addr |-> 3, access |-> W], [addr |-> 4, access |-> W]}
OneWrite == {[addr |-> 3, access |-> W]}
Accesses == Writes \cup {[addr |-> 7, access |-> R]}
=============================================================================
