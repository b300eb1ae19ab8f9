------------------------------ MODULE TaskGraph ------------------------------
(***************************************************************************)
(* runTaskGraph of packages/agent/src/task-graph.ts: the scheduler that    *)
(* the verification gate runs its declared checks with and that a task     *)
(* plan runs its lanes with.  It runs nodes of a dependency graph, at most *)
(* Limit at a time, retries a node up to its own attempt cap, and records  *)
(* a node below a failed one as skipped.                                   *)
(*                                                                         *)
(* JavaScript runs a piece of code up to its next await without            *)
(* interruption, so the body of the main loop between two awaits is one    *)
(* action (Scan), and so is the continuation of node.run's promise         *)
(* (Succeed, Retry, Fail).  The continuations of different nodes, the main *)
(* loop and the abort signal interleave freely.                            *)
(***************************************************************************)
EXTENDS Naturals, FiniteSets

CONSTANTS
  Node,         \* the ids of the submitted nodes
  Graphs,       \* the dependency relations a caller may submit
  Pos,          \* the place of a node in the submitted list
  Limit,        \* options.concurrency, after max(1, floor(..))
  MaxAttempts   \* the largest maxAttempts a node may carry

ASSUME NodeAssumption == IsFiniteSet(Node)

\* dependsOn may name ids that are not in the list: the values of a graph
\* need not be subsets of Node.
ASSUME GraphAssumption == \A g \in Graphs : DOMAIN g = Node

ASSUME PosAssumption ==
  /\ Pos \in [Node -> 1 .. Cardinality(Node)]
  /\ \A m, n \in Node : Pos[m] = Pos[n] => m = n

ASSUME LimitAssumption == Limit \in Nat \ {0}

ASSUME AttemptsAssumption == MaxAttempts \in Nat \ {0}

VARIABLES
  deps,      \* dependsOn, chosen by the caller
  cap,       \* maxAttempts, chosen by the caller
  pc,        \* where the main loop is
  aborted,   \* the caller's abort signal
  status,    \* TaskStatus, plus "rejected": the job's promise rejected
  attempts   \* attempts started so far

vars == <<deps, cap, pc, aborted, status, attempts>>

\* "scan" also stands for a loop that was woken and has not resumed yet:
\* other continuations may run before it does.
Pcs == {"validate", "scan", "await", "returned", "threw", "stuck"}

Statuses == {"queued", "running", "rejected", "succeeded", "failed", "skipped"}

Decided == {"succeeded", "failed", "skipped"}

TypeOK ==
  /\ deps \in Graphs
  /\ cap \in [Node -> 1 .. MaxAttempts]
  /\ pc \in Pcs
  /\ aborted \in BOOLEAN
  /\ status \in [Node -> Statuses]
  /\ attempts \in [Node -> 0 .. MaxAttempts]

-----------------------------------------------------------------------------
(* What the main loop looks at.                                            *)

\* The keys of the Map `running`: a job that rejected is never deleted.
Running == {n \in Node : status[n] \in {"running", "rejected"}}

Queued == {n \in Node : status[n] = "queued"}

AllDecided == \A n \in Node : status[n] \in Decided

\* No node can be reached from itself: every nonempty set of nodes has one
\* with no dependency in the set.  CycleCheck shows that assertAcyclic's
\* depth-first search accepts exactly these graphs.
Acyclic(g) ==
  \A S \in SUBSET Node : S # {} => \E n \in S : g[n] \cap S = {}

Known(g) == \A n \in Node : g[n] \subseteq Node

\* A dependency that has already failed or been skipped.
Broken(n) == \E d \in deps[n] : status[d] \in {"failed", "skipped"}

\* Mutant of IsSkipPass: only failed dependencies count, not skipped ones.
SkipsOnlyBelowFailed(S) ==
  \A n \in Node :
    n \in S <=> n \in Queued /\ \E d \in deps[n] : status[d] = "failed"

\* The nodes one pass over the list marks skipped: the pass goes in list
\* order and sees its own marks, so a node also falls to a dependency that
\* the same pass has marked before it.
IsSkipPass(S) ==
  \A n \in Node :
    n \in S <=> /\ n \in Queued
                /\ \/ Broken(n)
                   \/ \E d \in deps[n] : d \in S /\ Pos[d] < Pos[n]

\* Mutant of Startable: no dependency failed, instead of all succeeded.
StartableUnlessFailed(S) ==
  {n \in Queued \ S : \A d \in deps[n] : status[d] # "failed"}

Startable(S) ==
  {n \in Queued \ S : \A d \in deps[n] : status[d] = "succeeded"}

\* Mutant of Starts: running.size > limit.
StartsOneMore(S) ==
  {n \in Startable(S) :
     Cardinality(Running)
       + Cardinality({m \in Startable(S) : Pos[m] < Pos[n]}) <= Limit}

\* The nodes the second pass starts: the first startable ones in list order,
\* while running.size < limit.
Starts(S) ==
  {n \in Startable(S) :
     Cardinality(Running)
       + Cardinality({m \in Startable(S) : Pos[m] < Pos[n]}) < Limit}

-----------------------------------------------------------------------------
Init ==
  /\ deps \in Graphs
  /\ cap \in [Node -> 1 .. MaxAttempts]
  /\ pc = "validate"
  /\ aborted \in BOOLEAN
  /\ status = [n \in Node |-> "queued"]
  /\ attempts = [n \in Node |-> 0]

Validate ==
  /\ pc = "validate"
  /\ pc' = IF Known(deps) /\ Acyclic(deps) THEN "scan" ELSE "threw"
  /\ UNCHANGED <<deps, cap, aborted, status, attempts>>

\* while (results.size < nodes.length) is false, or the break.
Return ==
  /\ pc = "scan"
  /\ AllDecided
  /\ pc' = "returned"
  /\ UNCHANGED <<deps, cap, aborted, status, attempts>>

\* signal.throwIfAborted() at the top of the loop.
ThrowAborted ==
  /\ pc = "scan"
  /\ ~AllDecided
  /\ aborted
  /\ pc' = "threw"
  /\ UNCHANGED <<deps, cap, aborted, status, attempts>>

\* One turn of the loop: the skip pass, the start pass (a started job runs
\* synchronously up to node.run), then the check that something is running.
Scan ==
  /\ pc = "scan"
  /\ ~AllDecided
  /\ ~aborted
  /\ \E S \in SUBSET Node :
       /\ IsSkipPass(S)
       /\ status' = [n \in Node |-> IF n \in S THEN "skipped"
                                    ELSE IF n \in Starts(S) THEN "running"
                                    ELSE status[n]]
       /\ attempts' = [n \in Node |-> IF n \in Starts(S) THEN 1
                                      ELSE attempts[n]]
       /\ pc' = IF Running \cup Starts(S) # {} THEN "await"
                ELSE IF \A n \in Node : status'[n] \in Decided THEN "returned"
                ELSE "stuck"
  /\ UNCHANGED <<deps, cap, aborted>>

\* Mutant of Woken: the race is lost.
NeverWoken == pc

\* Promise.race settles with the first job that settles.
Woken == IF pc = "await" THEN "scan" ELSE pc

Succeed(n) ==
  /\ status[n] = "running"
  /\ status' = [status EXCEPT ![n] = "succeeded"]
  /\ pc' = Woken
  /\ UNCHANGED <<deps, cap, aborted, attempts>>

\* Mutant of Retry: no throwIfAborted between attempts.
RetryAfterAbort(n) ==
  /\ status[n] = "running"
  /\ attempts[n] < cap[n]
  /\ attempts' = [attempts EXCEPT ![n] = @ + 1]
  /\ UNCHANGED <<deps, cap, pc, aborted, status>>

Retry(n) ==
  /\ status[n] = "running"
  /\ attempts[n] < cap[n]
  /\ ~aborted
  /\ attempts' = [attempts EXCEPT ![n] = @ + 1]
  /\ UNCHANGED <<deps, cap, pc, aborted, status>>

Fail(n) ==
  /\ status[n] = "running"
  /\ attempts[n] = cap[n]
  /\ status' = [status EXCEPT ![n] = "failed"]
  /\ pc' = Woken
  /\ UNCHANGED <<deps, cap, aborted, attempts>>

\* Mutant of Reject: the race takes fulfilled jobs only.
RejectUnnoticed(n) ==
  /\ status[n] = "running"
  /\ attempts[n] < cap[n]
  /\ aborted
  /\ status' = [status EXCEPT ![n] = "rejected"]
  /\ UNCHANGED <<deps, cap, pc, aborted, attempts>>

\* The attempt failed and the next one meets throwIfAborted: the job's
\* promise rejects, and with it the race the main loop waits on.
Reject(n) ==
  /\ status[n] = "running"
  /\ attempts[n] < cap[n]
  /\ aborted
  /\ status' = [status EXCEPT ![n] = "rejected"]
  /\ pc' = IF pc = "await" THEN "threw" ELSE pc
  /\ UNCHANGED <<deps, cap, aborted, attempts>>

Abort ==
  /\ ~aborted
  /\ aborted' = TRUE
  /\ UNCHANGED <<deps, cap, pc, status, attempts>>

Settle(n) == Succeed(n) \/ Retry(n) \/ Fail(n) \/ Reject(n)

Over == pc \in {"returned", "threw", "stuck"} /\ \A n \in Node : status[n] # "running"

\* Nothing is left to do; keeps TLC's deadlock check on everything else.
Finished == Over /\ UNCHANGED vars

Loop == Validate \/ Return \/ ThrowAborted \/ Scan

Next == Loop \/ Abort \/ (\E n \in Node : Settle(n)) \/ Finished

Spec == Init /\ [][Next]_vars

\* The event loop resumes a woken continuation, and node.run settles: every
\* caller runs it under a time limit of its own.
FairSpec == Spec /\ WF_vars(Loop) /\ \A n \in Node : WF_vars(Settle(n))

-----------------------------------------------------------------------------
(* Properties.                                                             *)

\* Never more jobs at a time than the concurrency the caller asked for,
\* whatever the order in which they settle (task-graph.ts `running.size >= limit`).
ConcurrencyBound == Cardinality(Running) <= Limit

\* A node that has ever started has only succeeded dependencies: a result is
\* never taken back and the start pass never runs ahead of one.
DependenciesFirst ==
  \A n \in Node :
    attempts[n] > 0 => deps[n] \subseteq Node /\ \A d \in deps[n] : status[d] = "succeeded"

\* A skipped node was never started, and a failed node stands at the end of
\* a chain of skipped ones below it: the skip has a cause in the results.
SkippedHasCause ==
  \A n \in Node :
    status[n] = "skipped" =>
      /\ attempts[n] = 0
      /\ \E d \in deps[n] : status[d] \in {"failed", "skipped"}

\* A result, once recorded, is final; and no attempt starts after the abort.
ResultsFinal ==
  [][\A n \in Node :
       /\ status[n] \in Decided => status'[n] = status[n]
       /\ aborted => attempts'[n] = attempts[n]]_vars

\* The list names every dependency before the node that needs it.
Topological == \A n \in Node : \A d \in deps[n] : d \in Node => Pos[d] < Pos[n]

\* On a list in dependency order the loop never runs out of jobs with nodes
\* undecided (the throw behind `running.size === 0`).
OrderedNeverStuck == Topological => pc # "stuck"

\* docs/architecture.md, the Task Graph row: the work below a failed node is
\* recorded as skipped, whatever the order of the list.
NeverStuck == pc # "stuck"

\* A main loop that waits has something to wait for.
AwaitHasJob == pc = "await" => \E n \in Node : status[n] = "running"

\* The jobs of the call are at most the Limit it was given and, while the main
\* loop waits for one, at least one: entries leave the Map in the jobs' own
\* continuations, while the loop is somewhere else.
JobsWithinBounds == ConcurrencyBound /\ AwaitHasJob

\* What the caller sees of the run is the abstract one of DagResults: results
\* appear only in the order the graph allows, and a returned call has them all.
Results == INSTANCE DagResults WITH
  result   <- [n \in Node |-> IF status[n] \in Decided THEN status[n] ELSE "none"],
  returned <- pc = "returned"

ImplementsDagResults == Results!Spec

\* The call always ends, and so does every job it started.
Settles == <>[]Over

=============================================================================
