---------------------------- MODULE BrowserPoolMC ----------------------------
(* Calls c1, c2 run in the first process, c3 in the second where there is one. *)
EXTENDS BrowserPool

CONSTANTS p1, p2, c3

MCProcOf == [c \in Calls |-> IF c = c3 /\ p2 \in Procs THEN p2 ELSE p1]
=============================================================================
