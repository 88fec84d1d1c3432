----------------------------- MODULE MCPteLife -----------------------------
(***************************************************************************)
(* Instances of PteLife for TLC: every set of flags, and host addresses    *)
(* with the lowest and the highest bit both entry formats hold.            *)
(***************************************************************************)
EXTENDS PteLife

BothArchs == {"x86_64", "aarch64"}
OnlyA64 == {"aarch64"}

HostAddrs == {{}, {12}, {47}, 12..47}
=============================================================================
