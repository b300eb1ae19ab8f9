---------------------------- MODULE MCDeployer -----------------------------
(* Small instances of Deployer for TLC.                                    *)
EXTENDS Deployer, TLC

CONSTANTS studio, cli

\* What may go wrong together in one behaviour.
HandledFaults ==
  {{"docker"}, {"restart", "crash"}, {"ports"}}
CancelFaults == {{"cancel"}}
=============================================================================
