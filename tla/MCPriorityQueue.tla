--------------------------- MODULE MCPriorityQueue ---------------------------
(***************************************************************************)
(* Two readers, one of them served from every level (a low priority worker)*)
(* and one from the two most urgent ones only.                             *)
(***************************************************************************)
EXTENDS PriorityQueue

CONSTANTS r1, r2

MCBound == [r \in Readers |-> IF r = r1 THEN 2 ELSE 1]
=============================================================================
