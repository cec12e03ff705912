--------------------------- MODULE MCChatterQueue ---------------------------
(* Three replies (one through the lore sidecar) to one pair and an ambient     *)
(* line over a limit that a reload moves between one and two workers.         *)
EXTENDS ChatterQueue

CONSTANTS r1, r2, r3, a1, p

MCJobs   == {r1, r2, r3, a1}
MCPairOf == [j \in MCJobs |-> p]
=============================================================================
