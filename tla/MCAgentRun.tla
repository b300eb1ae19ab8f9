----------------------------- MODULE MCAgentRun -----------------------------
(* Small instances of AgentRun for TLC.                                    *)
EXTENDS AgentRun, TLC

CONSTANTS f1, f2, s1, s2

Owner2 == (f1 :> s1) @@ (f2 :> s2)
Owner1 == f1 :> s1
=============================================================================
