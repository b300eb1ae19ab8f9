------------------------------- MODULE MCGate -------------------------------
(* Small instances of Gate for TLC.                                        *)
EXTENDS Gate, TLC

CONSTANTS f1, f2, s1, s2

Owner2 == (f1 :> s1) @@ (f2 :> s2)
=============================================================================
