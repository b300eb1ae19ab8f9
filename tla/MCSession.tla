----------------------------- MODULE MCSession -----------------------------
(* Session on two migrations, which are interchangeable. *)
EXTENDS Session, TLC

\* A boot that fails and a restore that takes a document checkpoint out of the
\* history before it is on the list are left out: KeepsHistory fails with them.
CommonFaults == {"docs", "dump", "crash", "platform"}

Interchangeable == Permutations(Migration)
=============================================================================
