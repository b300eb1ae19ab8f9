--------------------------- MODULE MCTerminalRun ---------------------------
(* Instances of TerminalRun for TLC.                                       *)
EXTENDS TerminalRun, TLC

Nothing == {}
MidCard == {"card"}
=============================================================================
