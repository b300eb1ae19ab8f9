----------------------------- MODULE DagResults -----------------------------
(***************************************************************************)
(* What runTaskGraph promises its callers: the results of a dependency     *)
(* graph.  How many nodes run at a time, the retries, the abort signal and *)
(* the order of the list are not part of the promise.                      *)
(***************************************************************************)
CONSTANTS Node, Graphs

VARIABLES deps, result, returned

vars == <<deps, result, returned>>

\* A result is earned when its node's dependencies call for it: every one of
\* them succeeded, or one of them did not.
Earned(n, r) ==
  CASE r[n] \in {"succeeded", "failed"} ->
         deps[n] \subseteq Node /\ \A d \in deps[n] : r[d] = "succeeded"
    [] r[n] = "skipped" ->
         \E d \in deps[n] \cap Node : r[d] \in {"failed", "skipped"}
    [] OTHER -> TRUE

Init ==
  /\ deps \in Graphs
  /\ result = [n \in Node |-> "none"]
  /\ returned = FALSE

\* Some nodes get a result, each one earned; none loses its result.
Advance ==
  /\ ~returned
  /\ result' \in [Node -> {"none", "succeeded", "failed", "skipped"}]
  /\ \A n \in Node : result[n] # "none" => result'[n] = result[n]
  /\ \A n \in Node : Earned(n, result')
  /\ returned' = FALSE
  /\ UNCHANGED deps

\* The call returns, with the last results or on its own.
Return ==
  /\ ~returned
  /\ result' \in [Node -> {"succeeded", "failed", "skipped"}]
  /\ \A n \in Node : result[n] # "none" => result'[n] = result[n]
  /\ \A n \in Node : Earned(n, result')
  /\ returned' = TRUE
  /\ UNCHANGED deps

Next == Advance \/ Return

Spec == Init /\ [][Next]_vars
=============================================================================
