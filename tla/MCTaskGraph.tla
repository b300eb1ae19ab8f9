---------------------------- MODULE MCTaskGraph ----------------------------
(* A small instance of GraphCall for TLC.                                  *)
EXTENDS GraphCall, TLC

CONSTANTS a, b, c, ghost

\* Every relation on three nodes and one id that is not in the list:
\* self-loops, cycles, missing dependencies, every list order.
AnyGraph == [{a, b, c} -> SUBSET {a, b, c, ghost}]

Pos3 == (a :> 1) @@ (b :> 2) @@ (c :> 3)
=============================================================================
