--------------------------- MODULE TaskGraphProofs ---------------------------
(***************************************************************************)
(* runTaskGraph for every list of nodes, every dependency relation, every  *)
(* concurrency limit and every attempt cap.                                *)
(***************************************************************************)
EXTENDS GraphCall, FiniteSetTheorems, SequenceTheorems, WellFoundedInduction, TLAPS

-----------------------------------------------------------------------------
(* Places in a list: every nonempty set of nodes has a first and a last.   *)

LEMMA LeastNat ==
  ASSUME NEW T \in SUBSET Nat, T # {}
  PROVE  \E x \in T : \A y \in T : x <= y
<1> DEFINE R == {ss \in Nat \X Nat : ss[1] < ss[2]}
<1>1. IsWellFoundedOn(R, Nat)
  BY NatLessThanWellFounded DEF OpToRel
<1>2. \A x, y \in Nat : <<y, x>> \in R <=> y < x
  OBVIOUS
<1> HIDE DEF R
<1>3. PICK x \in T : \A y \in T : ~ (<<y, x>> \in R)
  BY <1>1, WFMin
<1>4. ASSUME NEW y \in T PROVE x <= y
  <2>1. x \in Nat /\ y \in Nat
    OBVIOUS
  <2>2. ~ (y < x)
    <3>1. ~ (<<y, x>> \in R)
      BY <1>3
    <3>2. QED
      BY <2>1, <3>1, <1>2
  <2>3. QED
    BY <2>1, <2>2
<1>5. QED
  BY <1>4

LEMMA FirstNode ==
  ASSUME NEW T \in SUBSET Node, T # {}
  PROVE  \E x \in T : \A y \in T : Pos[x] <= Pos[y]
<1> DEFINE P == {Pos[n] : n \in T}
<1>0. Cardinality(Node) \in Nat
  BY NodeAssumption, FS_CardinalityType
<1>1. P \in SUBSET Nat /\ P # {}
  BY <1>0, PosAssumption
<1>2. PICK p \in P : \A q \in P : p <= q
  BY <1>1, LeastNat
<1>3. QED
  BY <1>2

LEMMA LastNode ==
  ASSUME NEW T \in SUBSET Node, T # {}
  PROVE  \E x \in T : \A y \in T : Pos[y] <= Pos[x]
<1> DEFINE K == Cardinality(Node)
           P == {K - Pos[n] : n \in T}
<1>1. K \in Nat
  BY NodeAssumption, FS_CardinalityType
<1>2. \A n \in Node : Pos[n] \in Nat /\ Pos[n] <= K
  BY <1>1, PosAssumption
<1> HIDE DEF K
<1>3. P \in SUBSET Nat /\ P # {}
  BY <1>1, <1>2
<1>4. PICK p \in P : \A q \in P : p <= q
  BY <1>3, LeastNat
<1>5. PICK x \in T : p = K - Pos[x]
  BY <1>4
<1>6. \A y \in T : K - Pos[x] <= K - Pos[y]
  BY <1>4, <1>5
<1>7. QED
  BY <1>1, <1>2, <1>6

-----------------------------------------------------------------------------
(* The start pass.                                                         *)

LEMMA StartsNodes ==
  ASSUME NEW S
  PROVE  Starts(S) \subseteq Startable(S) /\ Startable(S) \subseteq Queued
BY DEF Starts, Startable

\* The last node the pass starts still found room, and the others it starts
\* stand before it: together with the running jobs they fit the limit.
LEMMA StartsFit ==
  ASSUME NEW S, ConcurrencyBound
  PROVE  Cardinality(Running \cup Starts(S)) <= Limit
<1> DEFINE T == Starts(S)
<1>1. T \in SUBSET Node /\ Running \in SUBSET Node /\ Startable(S) \in SUBSET Node
  BY StartsNodes DEF Queued, Running, Startable
<1>2. IsFiniteSet(T) /\ IsFiniteSet(Running) /\ IsFiniteSet(Startable(S))
  BY <1>1, NodeAssumption, FS_Subset
<1>3. Cardinality(Running) \in Nat /\ Cardinality(T) \in Nat
  BY <1>2, FS_CardinalityType
<1>4. CASE T = {}
  BY <1>4 DEF ConcurrencyBound
<1>5. CASE T # {}
  <2>1. PICK x \in T : \A y \in T : Pos[y] <= Pos[x]
    BY <1>1, <1>5, LastNode
  <2> DEFINE B == {m \in Startable(S) : Pos[m] < Pos[x]}
  <2>2. Cardinality(Running) + Cardinality(B) < Limit
    BY <2>1 DEF Starts
  <2>3. T \ {x} \in SUBSET B
    <3>1. \A y \in T \ {x} : y \in Startable(S) /\ Pos[y] # Pos[x]
      BY <1>1, <2>1, StartsNodes, PosAssumption
    <3>2. \A y \in T : Pos[y] \in Nat
      <4>1. Cardinality(Node) \in Nat
        BY NodeAssumption, FS_CardinalityType
      <4>2. QED
        BY <1>1, <4>1, PosAssumption
    <3>3. QED
      BY <2>1, <3>1, <3>2
  <2>4. IsFiniteSet(B)
    BY <1>2, FS_Subset
  <2>5. Cardinality(B) \in Nat /\ Cardinality(T \ {x}) <= Cardinality(B)
    BY <2>3, <2>4, FS_Subset, FS_CardinalityType
  <2>6. Cardinality(T \ {x}) = Cardinality(T) - 1
    BY <1>2, <2>1, FS_RemoveElement
  <2>7. Running \cap T = {}
    BY StartsNodes DEF Running, Queued
  <2>8. Cardinality(Running \cup T) = Cardinality(Running) + Cardinality(T)
    <3>1. Cardinality(Running \cap T) = 0
      BY <2>7, FS_EmptySet
    <3>2. Cardinality(Running \cup T)
            = Cardinality(Running) + Cardinality(T) - Cardinality(Running \cap T)
      <4> HIDE DEF T
      <4>1. QED
        BY <1>2, FS_Union, Zenon
    <3>3. QED
      BY <1>3, <3>1, <3>2
  <2>9. QED
    BY <1>3, <2>2, <2>5, <2>6, <2>8, LimitAssumption
<1>6. QED
  BY <1>4, <1>5

\* With nothing running, the first startable node is started.
LEMMA StartsSome ==
  ASSUME NEW S, Running = {}, Startable(S) # {}
  PROVE  Starts(S) # {}
<1>1. Startable(S) \in SUBSET Node
  BY DEF Startable, Queued
<1>2. PICK x \in Startable(S) : \A y \in Startable(S) : Pos[x] <= Pos[y]
  BY <1>1, FirstNode
<1>3. \A y \in Node : Pos[y] \in Nat
  <2>1. Cardinality(Node) \in Nat
    BY NodeAssumption, FS_CardinalityType
  <2>2. QED
    BY <2>1, PosAssumption
<1>4. {m \in Startable(S) : Pos[m] < Pos[x]} = {}
  BY <1>1, <1>2, <1>3
<1>5. Cardinality(Running) + Cardinality({m \in Startable(S) : Pos[m] < Pos[x]}) < Limit
  <2>1. Cardinality({}) = 0
    BY FS_EmptySet
  <2>2. QED
    BY <1>4, <2>1, LimitAssumption
<1>6. x \in Starts(S)
  BY <1>2, <1>5 DEF Starts
<1>7. QED
  BY <1>6

-----------------------------------------------------------------------------
(* The inductive invariant.                                                *)

\* Nothing runs before the graph has been validated.
Validated ==
  /\ pc \in {"scan", "await", "returned", "stuck"} => Known(deps)
  /\ pc = "validate" => \A n \in Node : status[n] = "queued"

\* Attempts and results go together: a queued or skipped node never started,
\* and every other node did.
Started ==
  \A n \in Node : attempts[n] = 0 <=> status[n] \in {"queued", "skipped"}

\* Jobs reject only after the abort, and never under a waiting loop.
RejectsOnlyAborted ==
  \A n \in Node : status[n] = "rejected" => aborted /\ pc # "await"

\* The skipped nodes have their cause among the results.
Caused ==
  \A n \in Node :
    status[n] = "skipped" => \E d \in deps[n] \cap Node : status[d] \in {"failed", "skipped"}

IInv ==
  /\ TypeOK
  /\ Validated
  /\ Started
  /\ DependenciesFirst
  /\ Caused
  /\ RejectsOnlyAborted
  /\ AwaitHasJob
  /\ ConcurrencyBound
  /\ OrderedNeverStuck

LEMMA InitIInv == Init => IInv
<1> SUFFICES ASSUME Init PROVE IInv
  OBVIOUS
<1> USE DEF Init
<1>1. TypeOK
  BY AttemptsAssumption DEF TypeOK, Pcs, Statuses
<1>2. Validated /\ Started /\ DependenciesFirst /\ Caused /\ RejectsOnlyAborted
  BY DEF Validated, Started, DependenciesFirst, Caused, RejectsOnlyAborted
<1>3. AwaitHasJob /\ OrderedNeverStuck
  BY DEF AwaitHasJob, OrderedNeverStuck
<1>4. ConcurrencyBound
  <2>1. Running = {}
    BY DEF Running
  <2>2. QED
    BY <2>1, FS_EmptySet, LimitAssumption DEF ConcurrencyBound
<1>5. QED
  BY <1>1, <1>2, <1>3, <1>4 DEF IInv

\* A step that leaves the jobs alone keeps the conjuncts about jobs.
LEMMA LoopOnlyIInv ==
  ASSUME IInv, UNCHANGED <<deps, cap, status, attempts>>,
         pc' \in Pcs \ {"await", "stuck", "validate"},
         aborted' = aborted,
         pc' # "threw" => Known(deps)
  PROVE  IInv'
<1> USE DEF IInv
<1>1. TypeOK' /\ Validated' /\ Started'
  BY DEF TypeOK, Validated, Started, Pcs, Known
<1>2. DependenciesFirst' /\ Caused' /\ RejectsOnlyAborted'
  BY DEF DependenciesFirst, Caused, RejectsOnlyAborted, TypeOK
<1>3. AwaitHasJob' /\ OrderedNeverStuck'
  BY DEF AwaitHasJob, OrderedNeverStuck
<1>4. ConcurrencyBound'
  BY DEF ConcurrencyBound, Running
<1>5. QED
  BY <1>1, <1>2, <1>3, <1>4

\* A job that settles leaves the Map of running jobs or, rejecting, stays in
\* it: the Map never grows.
LEMMA SettleIInv ==
  ASSUME IInv, NEW n \in Node, Settle(n)
  PROVE  IInv'
<1> USE DEF IInv
<1>1. /\ status[n] = "running"
      /\ UNCHANGED <<deps, cap, aborted>>
      /\ \A m \in Node \ {n} : status'[m] = status[m] /\ attempts'[m] = attempts[m]
      /\ status'[n] \in {"running", "rejected", "succeeded", "failed"}
      /\ attempts'[n] >= attempts[n] /\ attempts'[n] \in 1 .. MaxAttempts
      /\ attempts[n] \in 1 .. MaxAttempts
      /\ status' \in [Node -> Statuses] /\ attempts' \in [Node -> 0 .. MaxAttempts]
      /\ pc' \in {pc, "scan", "threw"} /\ (pc # "await" => pc' = pc)
  <2>1. status[n] = "running"
    BY DEF Settle, Succeed, Retry, Fail, Reject
  <2>2. cap[n] \in 1 .. MaxAttempts /\ attempts[n] \in 1 .. MaxAttempts
    BY <2>1, AttemptsAssumption DEF TypeOK, Started
  <2>3. CASE Succeed(n)
    BY <2>1, <2>2, <2>3 DEF Succeed, Woken, TypeOK, Statuses
  <2>4. CASE Retry(n)
    BY <2>1, <2>2, <2>4, AttemptsAssumption DEF Retry, TypeOK, Statuses
  <2>5. CASE Fail(n)
    BY <2>1, <2>2, <2>5 DEF Fail, Woken, TypeOK, Statuses
  <2>6. CASE Reject(n)
    BY <2>1, <2>2, <2>6 DEF Reject, TypeOK, Statuses
  <2>7. QED
    BY <2>3, <2>4, <2>5, <2>6 DEF Settle
<1>2. TypeOK'
  BY <1>1 DEF TypeOK, Pcs
<1>3. Validated'
  BY <1>1 DEF Validated, Known, TypeOK
<1>4. Started'
  BY <1>1, AttemptsAssumption DEF Started, TypeOK
<1>5. DependenciesFirst'
  BY <1>1 DEF DependenciesFirst, TypeOK
<1>6. Caused'
  BY <1>1 DEF Caused, TypeOK
<1>7. RejectsOnlyAborted' /\ AwaitHasJob'
  <2>1. CASE pc # "await"
    BY <1>1, <2>1 DEF RejectsOnlyAborted, AwaitHasJob, Settle, Succeed, Retry, Fail, Reject
  <2>2. CASE pc = "await" /\ Retry(n)
    BY <2>2 DEF RejectsOnlyAborted, AwaitHasJob, Retry
  <2>3. CASE pc = "await" /\ ~Retry(n)
    <3>1. pc' # "await"
      BY <2>3 DEF Settle, Succeed, Fail, Reject, Woken
    <3>2. status'[n] = "rejected" => aborted'
      BY <1>1, <2>3 DEF Settle, Succeed, Fail, Reject
    <3>3. QED
      BY <1>1, <3>1, <3>2 DEF RejectsOnlyAborted, AwaitHasJob
  <2>4. QED
    BY <2>1, <2>2, <2>3
<1>8. ConcurrencyBound'
  <2>1. Running' \in SUBSET Running /\ Running \in SUBSET Node
    BY <1>1 DEF Running
  <2>2. IsFiniteSet(Running)
    BY <2>1, NodeAssumption, FS_Subset
  <2>3. /\ Cardinality(Running') <= Cardinality(Running)
        /\ Cardinality(Running) \in Nat /\ Cardinality(Running') \in Nat
    BY <2>1, <2>2, FS_Subset, FS_CardinalityType
  <2>4. QED
    BY <2>3, LimitAssumption DEF ConcurrencyBound
<1>9. OrderedNeverStuck'
  BY <1>1 DEF OrderedNeverStuck, Topological
<1>10. QED
  BY <1>2, <1>3, <1>4, <1>5, <1>6, <1>7, <1>8, <1>9

-----------------------------------------------------------------------------
(* One turn of the main loop.                                              *)

\* On a list in dependency order a turn that starts nothing, with nothing
\* running, has decided every node: the first undecided one would have been
\* skipped or startable.
LEMMA OrderedScanDecides ==
  ASSUME TypeOK, Known(deps), Topological, NEW S, IsSkipPass(S), S \subseteq Node,
         Running = {}, Starts(S) = {}
  PROVE  Queued \subseteq S
<1>1. Startable(S) = {}
  BY StartsSome
<1>2. SUFFICES ASSUME Queued \ S # {} PROVE FALSE
  OBVIOUS
<1>3. PICK n \in Queued \ S : \A m \in Queued \ S : Pos[n] <= Pos[m]
  BY <1>2, FirstNode DEF Queued
<1>4. ASSUME NEW d \in deps[n] PROVE status[d] = "succeeded"
  <2>1. n \in Node /\ d \in Node /\ Pos[d] < Pos[n]
    BY <1>3 DEF Topological, Known, Queued
  <2>2. Pos[n] \in Nat /\ Pos[d] \in Nat
    <3>1. Cardinality(Node) \in Nat
      BY NodeAssumption, FS_CardinalityType
    <3>2. QED
      BY <2>1, <3>1, PosAssumption
  <2>3. d \notin Queued \ S
    BY <1>3, <2>1, <2>2
  <2>4. d \notin S
    BY <1>3, <2>1 DEF IsSkipPass
  <2>5. status[d] \notin {"failed", "skipped"}
    BY <1>3, <2>1 DEF IsSkipPass, Broken
  <2>6. QED
    BY <2>1, <2>3, <2>4, <2>5 DEF Queued, Running, TypeOK, Statuses
<1>5. n \in Startable(S)
  BY <1>3, <1>4 DEF Startable
<1>6. QED
  BY <1>1, <1>5

LEMMA ScanIInv ==
  ASSUME IInv, Scan
  PROVE  IInv'
<1> USE DEF IInv
<1>1. PICK S \in SUBSET Node :
        /\ IsSkipPass(S)
        /\ status' = [n \in Node |-> IF n \in S THEN "skipped"
                                     ELSE IF n \in Starts(S) THEN "running"
                                     ELSE status[n]]
        /\ attempts' = [n \in Node |-> IF n \in Starts(S) THEN 1
                                       ELSE attempts[n]]
        /\ pc' = IF Running \cup Starts(S) # {} THEN "await"
                 ELSE IF \A n \in Node : status'[n] \in Decided THEN "returned"
                 ELSE "stuck"
  BY DEF Scan
<1>2. pc = "scan" /\ ~aborted /\ UNCHANGED <<deps, cap, aborted>> /\ Known(deps)
  BY DEF Scan, Validated
<1>3. S \subseteq Queued /\ Starts(S) \subseteq Queued \ S
  BY <1>1 DEF IsSkipPass, Starts, Startable
<1>4. /\ \A n \in S : status[n] = "queued" /\ status'[n] = "skipped" /\ attempts'[n] = attempts[n]
      /\ \A n \in Starts(S) : status[n] = "queued" /\ status'[n] = "running" /\ attempts'[n] = 1
      /\ \A n \in Node \ (S \cup Starts(S)) :
           status'[n] = status[n] /\ attempts'[n] = attempts[n]
      /\ Starts(S) \subseteq Node
  BY <1>1, <1>3 DEF Queued
<1>5. \A n \in Node : status[n] # "queued" => status'[n] = status[n]
  BY <1>4
<1>6. TypeOK'
  BY <1>1, <1>2, AttemptsAssumption DEF TypeOK, Statuses, Pcs
<1>7. Validated'
  BY <1>1, <1>2 DEF Validated, Known
<1>8. Started'
  BY <1>4, AttemptsAssumption DEF Started, TypeOK
<1>9. DependenciesFirst'
  <2>1. SUFFICES ASSUME NEW n \in Node, attempts'[n] > 0
                 PROVE  deps[n] \subseteq Node /\ \A d \in deps[n] : status'[d] = "succeeded"
    BY <1>2 DEF DependenciesFirst
  <2>2. \A d \in deps[n] : status[d] = "succeeded"
    <3>1. CASE n \in Starts(S)
      BY <3>1 DEF Starts, Startable
    <3>2. CASE n \notin Starts(S)
      BY <2>1, <3>2, <1>4 DEF DependenciesFirst
    <3>3. QED
      BY <3>1, <3>2
  <2>3. QED
    BY <2>2, <1>2, <1>5 DEF Known
<1>10. Caused'
  <2>1. SUFFICES ASSUME NEW n \in Node, status'[n] = "skipped"
                 PROVE  \E d \in deps[n] \cap Node : status'[d] \in {"failed", "skipped"}
    BY <1>2 DEF Caused
  <2>2. CASE n \in S
    <3>1. Broken(n) \/ \E d \in deps[n] : d \in S
      BY <1>1, <2>2 DEF IsSkipPass
    <3>2. QED
      BY <3>1, <1>2, <1>4, <1>5 DEF Broken, Known
  <2>3. CASE n \notin S
    <3>1. status[n] = "skipped"
      BY <2>1, <2>3, <1>4
    <3>2. QED
      BY <3>1, <1>5 DEF Caused
  <2>4. QED
    BY <2>2, <2>3
<1>11. RejectsOnlyAborted'
  BY <1>2, <1>4 DEF RejectsOnlyAborted
<1>12. AwaitHasJob'
  <2>1. SUFFICES ASSUME pc' = "await" PROVE \E n \in Node : status'[n] = "running"
    BY DEF AwaitHasJob
  <2>2. PICK n \in Running \cup Starts(S) : TRUE
    BY <1>1, <2>1
  <2>3. n \in Node /\ status'[n] = "running"
    BY <2>2, <1>2, <1>4, <1>5 DEF Running, RejectsOnlyAborted
  <2>4. QED
    BY <2>3
<1>13. ConcurrencyBound'
  <2>1. Running' = Running \cup Starts(S)
    BY <1>4 DEF Running
  <2>2. QED
    BY <2>1, StartsFit DEF ConcurrencyBound
<1>14. OrderedNeverStuck'
  <2>1. SUFFICES ASSUME Topological, pc' = "stuck" PROVE FALSE
    BY <1>2 DEF OrderedNeverStuck, Topological
  <2>2. Running = {} /\ Starts(S) = {}
    BY <1>1, <2>1
  <2>3. Queued \subseteq S
    BY <1>1, <1>2, <2>1, <2>2, OrderedScanDecides
  <2>4. \A n \in Node : status'[n] \in Decided
    BY <2>2, <2>3, <1>4 DEF Queued, Running, Decided, TypeOK, Statuses
  <2>5. QED
    BY <1>1, <2>1, <2>2, <2>4
<1>15. QED
  BY <1>6, <1>7, <1>8, <1>9, <1>10, <1>11, <1>12, <1>13, <1>14

LEMMA AbortIInv ==
  ASSUME IInv, Abort
  PROVE  IInv'
<1> USE DEF IInv, Abort
<1>1. TypeOK' /\ Validated' /\ Started' /\ DependenciesFirst' /\ Caused'
  BY DEF TypeOK, Validated, Known, Started, DependenciesFirst, Caused
<1>2. RejectsOnlyAborted' /\ AwaitHasJob' /\ OrderedNeverStuck'
  BY DEF RejectsOnlyAborted, AwaitHasJob, OrderedNeverStuck, Topological
<1>3. ConcurrencyBound'
  BY DEF ConcurrencyBound, Running
<1>4. QED
  BY <1>1, <1>2, <1>3

LEMMA StepIInv == IInv /\ [Next]_vars => IInv'
<1> SUFFICES ASSUME IInv, [Next]_vars PROVE IInv'
  OBVIOUS
<1>1. CASE Validate
  BY <1>1, LoopOnlyIInv DEF Validate, Pcs
<1>2. CASE Return
  BY <1>2, LoopOnlyIInv DEF Return, Pcs, IInv, Validated
<1>3. CASE ThrowAborted
  BY <1>3, LoopOnlyIInv DEF ThrowAborted, Pcs
<1>4. CASE Scan
  BY <1>4, ScanIInv
<1>5. CASE Abort
  BY <1>5, AbortIInv
<1>6. ASSUME NEW n \in Node, Settle(n) PROVE IInv'
  BY <1>6, SettleIInv
<1>7. CASE UNCHANGED vars
  BY <1>7 DEF vars, IInv, TypeOK, Validated, Known, Started, DependenciesFirst, Caused,
              RejectsOnlyAborted, AwaitHasJob, ConcurrencyBound, Running,
              OrderedNeverStuck, Topological
<1>8. QED
  BY <1>1, <1>2, <1>3, <1>4, <1>5, <1>6, <1>7 DEF Next, Loop, Finished

\* The inductive invariant of the scheduler.
THEOREM SpecIInv == Spec => []IInv
BY InitIInv, StepIInv, PTL DEF Spec

\* Type correctness of the scheduler.
THEOREM TypeCorrect == Spec => []TypeOK
<1>1. IInv => TypeOK
  BY DEF IInv
<1>2. QED
  BY SpecIInv, <1>1, PTL

\* Never more jobs than the limit, for every list, graph and limit.
THEOREM ConcurrencyBounded == Spec => []ConcurrencyBound
<1>1. IInv => ConcurrencyBound
  BY DEF IInv
<1>2. QED
  BY SpecIInv, <1>1, PTL

\* A node never starts ahead of a dependency.
THEOREM DependenciesRespected == Spec => []DependenciesFirst
<1>1. IInv => DependenciesFirst
  BY DEF IInv
<1>2. QED
  BY SpecIInv, <1>1, PTL

\* Every skip has its cause among the results.
THEOREM SkipsCaused == Spec => []SkippedHasCause
<1>1. IInv => SkippedHasCause
  BY DEF IInv, Started, Caused, SkippedHasCause
<1>2. QED
  BY SpecIInv, <1>1, PTL

\* A list in dependency order never leaves the loop stuck.
THEOREM OrderedListsNeverStuck == Spec => []OrderedNeverStuck
<1>1. IInv => OrderedNeverStuck
  BY DEF IInv
<1>2. QED
  BY SpecIInv, <1>1, PTL

\* A waiting loop always has a job that can wake it.
THEOREM NoLostWakeup == Spec => []AwaitHasJob
<1>1. IInv => AwaitHasJob
  BY DEF IInv
<1>2. QED
  BY SpecIInv, <1>1, PTL

\* While the loop waits it has between one and Limit jobs.
THEOREM JobsBounded == Spec => []JobsWithinBounds
BY ConcurrencyBounded, NoLostWakeup, PTL DEF JobsWithinBounds

\* Results are final and no attempt starts after the abort.
THEOREM ResultsAreFinal == Spec => ResultsFinal
<1>1. IInv /\ [Next]_vars =>
        [\A n \in Node :
           /\ status[n] \in Decided => status'[n] = status[n]
           /\ aborted => attempts'[n] = attempts[n]]_vars
  <2> SUFFICES ASSUME IInv, [Next]_vars, NEW n \in Node
               PROVE  /\ status[n] \in Decided => status'[n] = status[n]
                      /\ aborted => attempts'[n] = attempts[n]
    OBVIOUS
  <2>1. CASE Loop \/ Abort \/ UNCHANGED vars
    BY <2>1 DEF Loop, Validate, Return, ThrowAborted, Scan, Abort, vars, Decided,
                IsSkipPass, Starts, Startable, Queued, IInv, TypeOK
  <2>2. ASSUME NEW m \in Node, Settle(m)
        PROVE  /\ status[n] \in Decided => status'[n] = status[n]
               /\ aborted => attempts'[n] = attempts[n]
    BY <2>2 DEF Settle, Succeed, Retry, Fail, Reject, Decided, IInv, TypeOK
  <2>3. QED
    BY <2>1, <2>2 DEF Next, Finished
<1>2. QED
  BY SpecIInv, <1>1, PTL DEF Spec, ResultsFinal

-----------------------------------------------------------------------------
(* The scheduler implements DagResults.                                    *)

ResultMap == [n \in Node |-> IF status[n] \in Decided THEN status[n] ELSE "none"]

ReturnedIsComplete == pc = "returned" => AllDecided

LEMMA StepComplete ==
  ASSUME IInv, ReturnedIsComplete, [Next]_vars
  PROVE  ReturnedIsComplete'
<1> USE DEF ReturnedIsComplete, AllDecided
<1>1. CASE Scan
  <2>1. pc' = "returned" => \A n \in Node : status'[n] \in Decided
    BY <1>1 DEF Scan
  <2>2. QED
    BY <2>1
<1>2. CASE Validate \/ Return \/ ThrowAborted \/ Abort \/ UNCHANGED vars
  BY <1>2 DEF Validate, Return, ThrowAborted, Abort, vars
<1>3. ASSUME NEW n \in Node, Settle(n) PROVE ReturnedIsComplete'
  BY <1>3 DEF Settle, Succeed, Retry, Fail, Reject, Woken, Decided, IInv, TypeOK
<1>4. QED
  BY <1>1, <1>2, <1>3 DEF Next, Loop, Finished

\* Whatever has a result has earned it.
AllEarned == \A n \in Node : Results!Earned(n, ResultMap)

LEMMA ResultsEarned == IInv => AllEarned
<1> SUFFICES ASSUME IInv, NEW n \in Node
             PROVE  Results!Earned(n, ResultMap)
  BY DEF AllEarned
<1>1. CASE status[n] \in {"succeeded", "failed"}
  <2>1. attempts[n] > 0
    BY <1>1 DEF IInv, TypeOK, Started
  <2>2. deps[n] \subseteq Node /\ \A d \in deps[n] : status[d] = "succeeded"
    BY <2>1 DEF IInv, DependenciesFirst
  <2>3. ResultMap[n] \in {"succeeded", "failed"}
    BY <1>1 DEF ResultMap, Decided
  <2>4. \A d \in deps[n] : ResultMap[d] = "succeeded"
    BY <2>2 DEF ResultMap, Decided
  <2>5. QED
    BY <2>2, <2>3, <2>4 DEF Results!Earned
<1>2. CASE status[n] = "skipped"
  <2>1. PICK d \in deps[n] \cap Node : status[d] \in {"failed", "skipped"}
    BY <1>2 DEF IInv, Caused
  <2>2. ResultMap[n] = "skipped" /\ ResultMap[d] \in {"failed", "skipped"}
    BY <1>2, <2>1 DEF ResultMap, Decided
  <2>3. QED
    BY <2>1, <2>2 DEF Results!Earned
<1>3. CASE status[n] \notin Decided
  BY <1>3 DEF ResultMap, Results!Earned
<1>4. QED
  BY <1>1, <1>2, <1>3 DEF Decided

LEMMA StepImplements ==
  ASSUME IInv, AllEarned', ReturnedIsComplete, ReturnedIsComplete', [Next]_vars
  PROVE  [Results!Next]_(Results!vars)
<1> USE DEF IInv
<1>1. deps' = deps
  BY DEF Next, Loop, Validate, Return, ThrowAborted, Scan, Settle, Succeed, Retry,
         Fail, Reject, Abort, Finished, vars
<1>2. \A n \in Node : status[n] \in Decided => status'[n] = status[n]
  <2>1. CASE Loop \/ Abort \/ UNCHANGED vars
    BY <2>1 DEF Loop, Validate, Return, ThrowAborted, Scan, Abort, vars, Decided,
                IsSkipPass, Starts, Startable, Queued, TypeOK
  <2>2. ASSUME NEW m \in Node, Settle(m)
        PROVE  \A n \in Node : status[n] \in Decided => status'[n] = status[n]
    BY <2>2 DEF Settle, Succeed, Retry, Fail, Reject, Decided, TypeOK
  <2>3. QED
    BY <2>1, <2>2 DEF Next, Finished
<1>3. \A n \in Node : ResultMap[n] # "none" => ResultMap'[n] = ResultMap[n]
  BY <1>2 DEF ResultMap, Decided
<1>4. \A n \in Node : Results!Earned(n, ResultMap)'
  BY DEF AllEarned
<1>5. ResultMap' \in [Node -> {"none", "succeeded", "failed", "skipped"}]
  BY DEF ResultMap, Decided
<1>6. CASE pc # "returned" /\ pc' # "returned"
  BY <1>1, <1>3, <1>4, <1>5, <1>6 DEF Results!Next, Results!Advance, Results!Earned, ResultMap
<1>7. CASE pc # "returned" /\ pc' = "returned"
  <2>1. ResultMap' \in [Node -> {"succeeded", "failed", "skipped"}]
    BY <1>7 DEF ResultMap, ReturnedIsComplete, AllDecided, Decided
  <2>2. QED
    BY <1>1, <1>3, <1>4, <1>7, <2>1 DEF Results!Next, Results!Return, Results!Earned, ResultMap
<1>8. CASE pc = "returned"
  <2>1. pc' = "returned" /\ status' = status
    BY <1>8 DEF Next, Loop, Validate, Return, ThrowAborted, Scan, Settle, Succeed, Retry,
         Fail, Reject, Abort, Finished, vars, ReturnedIsComplete, AllDecided, Decided
  <2>2. UNCHANGED Results!vars
    BY <1>1, <1>8, <2>1 DEF Results!vars
  <2>3. QED
    BY <2>2
<1>9. QED
  BY <1>6, <1>7, <1>8

\* Concurrency, retries, the abort and the list order are invisible in the
\* results: the scheduler implements DagResults.
THEOREM Implements == Spec => ImplementsDagResults
<1>1. Init => Results!Init
  BY DEF Init, Results!Init, Decided
<1>2. Init => ReturnedIsComplete
  BY DEF Init, ReturnedIsComplete
<1>3. Spec => []ReturnedIsComplete
  BY <1>2, SpecIInv, StepComplete, PTL DEF Spec
<1>4. QED
  BY <1>1, <1>3, SpecIInv, ResultsEarned, StepImplements, PTL DEF Spec, ImplementsDagResults, Results!Spec

-----------------------------------------------------------------------------
(* The search decides acyclicity, for every finite set of nodes and every   *)
(* relation on it.                                                         *)

\* What the finished nodes have in common: they wait only for finished
\* nodes, and there is no cycle among them.
VisitedClosed ==
  /\ \A n \in visited : deps[n] \subseteq visited
  /\ \A S \in SUBSET visited : S # {} => \E n \in S : deps[n] \cap S = {}

\* The stack is a path in the graph, and holds no finished node.
StackIsPath ==
  /\ \A i \in 1 .. Len(stack) - 1 : stack[i + 1] \in deps[stack[i]]
  /\ \A i \in 1 .. Len(stack) : stack[i] \notin visited

\* No node is on the stack twice.
StackDistinct ==
  \A i, j \in 1 .. Len(stack) : stack[i] = stack[j] => i = j

\* Found on the stack: the top waits for a node below it.
CycleFound ==
  verdict = "cycle" => /\ stack # <<>>
                       /\ \E i \in 1 .. Len(stack) : stack[i] \in deps[Search!Top]

AcceptedAll == verdict = "accepted" => visited = Node

SearchInv ==
  Search!TypeOK /\ VisitedClosed /\ StackIsPath /\ StackDistinct /\ CycleFound /\ AcceptedAll

-----------------------------------------------------------------------------
LEMMA DepsInNode ==
  ASSUME Search!TypeOK, NEW n \in Node
  PROVE  deps[n] \subseteq Node
BY DEF Search!TypeOK, Known

LEMMA TopInNode ==
  ASSUME Search!TypeOK, stack # <<>>
  PROVE  Search!Top \in Node /\ Len(stack) \in Nat \ {0} /\ Search!Top = stack[Len(stack)]
BY DEF Search!TypeOK, Search!Top

\* A finished set stays free of cycles when a node outside it, all of whose
\* dependencies are in it, is added.
LEMMA ExtendAcyclic ==
  ASSUME NEW g, NEW V, NEW t, t \notin V, g[t] \subseteq V,
         \A n \in V : g[n] \subseteq V,
         \A S \in SUBSET V : S # {} => \E n \in S : g[n] \cap S = {}
  PROVE  \A S \in SUBSET (V \cup {t}) : S # {} => \E n \in S : g[n] \cap S = {}
<1>1. SUFFICES ASSUME NEW S \in SUBSET (V \cup {t}), S # {}
               PROVE  \E n \in S : g[n] \cap S = {}
  OBVIOUS
<1>2. CASE S \cap V = {}
  <2>1. S = {t}
    BY <1>1, <1>2
  <2>2. QED
    BY <2>1
<1>3. CASE S \cap V # {}
  <2>1. PICK m \in S \cap V : g[m] \cap (S \cap V) = {}
    BY <1>3
  <2>2. g[m] \cap S = {}
    BY <2>1
  <2>3. QED
    BY <2>1, <2>2
<1>4. QED
  BY <1>2, <1>3

LEMMA InitSearch == Search!Init => SearchInv
<1> SUFFICES ASSUME Search!Init PROVE SearchInv
  OBVIOUS
<1> USE DEF Search!Init
<1>1. Search!TypeOK
  BY DEF Search!TypeOK
<1>2. VisitedClosed
  BY DEF VisitedClosed
<1>3. StackIsPath /\ StackDistinct
  BY DEF StackIsPath, StackDistinct
<1>4. CycleFound /\ AcceptedAll
  BY DEF CycleFound, AcceptedAll
<1>5. QED
  BY <1>1, <1>2, <1>3, <1>4 DEF SearchInv

LEMMA EnterSearch ==
  ASSUME SearchInv, NEW n \in Node, Search!Enter(n)
  PROVE  SearchInv'
<1> USE DEF SearchInv, Search!Enter
<1>1. Search!TypeOK'
  BY DEF Search!TypeOK
<1>2. VisitedClosed'
  BY DEF VisitedClosed
<1>3. StackIsPath'
  <2>1. stack \in Seq(Node) /\ stack' = Append(stack, n)
    BY DEF Search!TypeOK
  <2>2. Len(stack') = Len(stack) + 1 /\ stack'[Len(stack) + 1] = n
        /\ \A i \in 1 .. Len(stack) : stack'[i] = stack[i]
    BY <2>1
  <2>3. stack # <<>> => n \in deps[stack[Len(stack)]]
    BY DEF Search!Callable, Search!Top
  <2>4. Len(stack) \in Nat /\ (stack = <<>> <=> Len(stack) = 0)
    BY <2>1
  <2>5. ASSUME NEW i \in 1 .. Len(stack') - 1
        PROVE  stack'[i + 1] \in deps'[stack'[i]]
    <3>1. CASE i = Len(stack)
      BY <3>1, <2>2, <2>3, <2>4, <2>5
    <3>2. CASE i \in 1 .. Len(stack) - 1
      BY <3>2, <2>2, <2>4 DEF StackIsPath
    <3>3. QED
      BY <3>1, <3>2, <2>2, <2>4
  <2>6. ASSUME NEW i \in 1 .. Len(stack')
        PROVE  stack'[i] \notin visited'
    <3>1. CASE i = Len(stack) + 1
      BY <3>1, <2>2
    <3>2. CASE i \in 1 .. Len(stack)
      BY <3>2, <2>2 DEF StackIsPath
    <3>3. QED
      BY <3>1, <3>2, <2>2, <2>4
  <2>7. QED
    BY <2>5, <2>6 DEF StackIsPath
<1>4. StackDistinct'
  <2>1. stack \in Seq(Node) /\ stack' = Append(stack, n)
    BY DEF Search!TypeOK
  <2>2. \A i \in 1 .. Len(stack) : stack[i] # n
    BY <2>1 DEF Search!Visiting
  <2>3. Len(stack') = Len(stack) + 1 /\ stack'[Len(stack) + 1] = n
        /\ \A i \in 1 .. Len(stack) : stack'[i] = stack[i]
    BY <2>1
  <2>4. QED
    BY <2>1, <2>2, <2>3 DEF StackDistinct
<1>5. CycleFound' /\ AcceptedAll'
  BY DEF CycleFound, AcceptedAll
<1>6. QED
  BY <1>1, <1>2, <1>3, <1>4, <1>5

LEMMA MeetCycleSearch ==
  ASSUME SearchInv, NEW n \in Node, Search!MeetCycle(n)
  PROVE  SearchInv'
<1> USE DEF SearchInv, Search!MeetCycle
<1>1. Search!TypeOK' /\ VisitedClosed' /\ StackIsPath' /\ StackDistinct' /\ AcceptedAll'
  BY DEF Search!TypeOK, VisitedClosed, StackIsPath, StackDistinct, AcceptedAll
<1>2. CycleFound'
  <2>1. stack # <<>> /\ n \in deps[Search!Top]
    BY DEF Search!Callable, Search!Visiting
  <2>2. PICK i \in 1 .. Len(stack) : stack[i] = n
    BY DEF Search!Visiting, Search!TypeOK
  <2>3. QED
    BY <2>1, <2>2 DEF CycleFound, Search!Top
<1>3. QED
  BY <1>1, <1>2

LEMMA LeaveSearch ==
  ASSUME SearchInv, Search!Leave
  PROVE  SearchInv'
<1> USE DEF SearchInv, Search!Leave
<1>1. Search!Top \in Node /\ Len(stack) \in Nat \ {0} /\ Search!Top = stack[Len(stack)]
  BY TopInNode
<1>2. /\ stack' \in Seq(Node)
      /\ Len(stack') = Len(stack) - 1
      /\ \A i \in 1 .. Len(stack) - 1 : stack'[i] = stack[i]
  <2>1. stack \in Seq(Node)
    BY DEF Search!TypeOK
  <2> DEFINE k == Len(stack) - 1
  <2>2. k \in Nat /\ \A i \in 1 .. k : stack[i] \in Node
    BY <1>1, <2>1
  <2>3. /\ SubSeq(stack, 1, k) \in Seq(Node)
        /\ Len(SubSeq(stack, 1, k)) = IF 1 <= k THEN k - 1 + 1 ELSE 0
        /\ \A i \in 1 .. k - 1 + 1 : SubSeq(stack, 1, k)[i] = stack[1 + i - 1]
    BY <2>2, SubSeqProperties
  <2>4. stack' = SubSeq(stack, 1, k)
    OBVIOUS
  <2> HIDE DEF k
  <2>5. Len(stack') = k /\ \A i \in 1 .. k : stack'[i] = stack[i]
    BY <2>2, <2>3, <2>4
  <2>6. QED
    BY <2>3, <2>4, <2>5 DEF k
<1>3. Search!Top \notin visited
  BY <1>1 DEF StackIsPath
<1>4. Search!TypeOK'
  BY <1>1, <1>2 DEF Search!TypeOK
<1>5. VisitedClosed'
  <2>1. \A m \in visited' : deps'[m] \subseteq visited'
    BY DEF VisitedClosed
  <2>2. \A S \in SUBSET visited' : S # {} => \E m \in S : deps'[m] \cap S = {}
    BY <1>3, ExtendAcyclic DEF VisitedClosed
  <2>3. QED
    BY <2>1, <2>2 DEF VisitedClosed
<1>6. StackIsPath'
  <2>1. ASSUME NEW i \in 1 .. Len(stack') - 1
        PROVE  stack'[i + 1] \in deps'[stack'[i]]
    BY <1>1, <1>2 DEF StackIsPath
  <2>2. ASSUME NEW i \in 1 .. Len(stack')
        PROVE  stack'[i] \notin visited'
    <3>1. stack'[i] = stack[i] /\ i < Len(stack) /\ i \in 1 .. Len(stack)
      BY <1>1, <1>2
    <3>2. stack[i] \notin visited
      BY <3>1 DEF StackIsPath
    <3>3. stack[i] # Search!Top
      BY <1>1, <3>1 DEF StackDistinct
    <3>4. QED
      BY <3>1, <3>2, <3>3
  <2>3. QED
    BY <2>1, <2>2 DEF StackIsPath
<1>7. StackDistinct'
  BY <1>1, <1>2 DEF StackDistinct
<1>8. CycleFound' /\ AcceptedAll'
  BY DEF CycleFound, AcceptedAll
<1>9. QED
  BY <1>4, <1>5, <1>6, <1>7, <1>8

LEMMA AcceptSearch ==
  ASSUME SearchInv, Search!Accept
  PROVE  SearchInv'
<1> USE DEF SearchInv, Search!Accept
<1>1. Search!TypeOK' /\ AcceptedAll'
  BY DEF Search!TypeOK, AcceptedAll
<1>2. VisitedClosed' /\ StackIsPath' /\ StackDistinct'
  BY DEF VisitedClosed, StackIsPath, StackDistinct
<1>3. CycleFound'
  BY DEF CycleFound
<1>4. QED
  BY <1>1, <1>2, <1>3

LEMMA StepSearch == SearchInv /\ [Search!Next]_(Search!vars) => SearchInv'
<1> SUFFICES ASSUME SearchInv, [Search!Next]_(Search!vars) PROVE SearchInv'
  OBVIOUS
<1>1. ASSUME NEW n \in Node, Search!Enter(n) PROVE SearchInv'
  BY <1>1, EnterSearch
<1>2. ASSUME NEW n \in Node, Search!MeetCycle(n) PROVE SearchInv'
  BY <1>2, MeetCycleSearch
<1>3. CASE Search!Leave
  BY <1>3, LeaveSearch
<1>4. CASE Search!Accept
  BY <1>4, AcceptSearch
<1>5. CASE UNCHANGED Search!vars
  BY <1>5 DEF Search!vars, SearchInv, Search!TypeOK, VisitedClosed, StackIsPath, StackDistinct,
              CycleFound, AcceptedAll, Search!Top
<1>6. QED
  BY <1>1, <1>2, <1>3, <1>4, <1>5 DEF Search!Next, Search!Search, Search!Finished

\* The finished nodes are all of them, and they hold no cycle.
LEMMA SearchAccepts == SearchInv => Search!AcceptsOnlyAcyclic
BY DEF SearchInv, AcceptedAll, VisitedClosed, Search!AcceptsOnlyAcyclic, Search!Acyclic

\* The nodes from the one found again up to the top of the stack are a set
\* in which each waits for another.
LEMMA SearchRefuses == SearchInv => Search!RefusesOnlyCycles
<1> SUFFICES ASSUME SearchInv, verdict = "cycle" PROVE ~Search!Acyclic(deps)
  BY DEF Search!RefusesOnlyCycles
<1>1. stack # <<>> /\ Search!TypeOK
  BY DEF SearchInv, CycleFound
<1>2. Len(stack) \in Nat \ {0} /\ Search!Top = stack[Len(stack)]
  BY <1>1, TopInNode
<1>3. PICK i \in 1 .. Len(stack) : stack[i] \in deps[Search!Top]
  BY DEF SearchInv, CycleFound
<1> DEFINE S == {stack[j] : j \in i .. Len(stack)}
<1>4. S \in SUBSET Node /\ S # {}
  BY <1>1, <1>2, <1>3 DEF Search!TypeOK
<1>5. ASSUME NEW n \in S PROVE deps[n] \cap S # {}
  <2>1. PICK j \in i .. Len(stack) : n = stack[j]
    OBVIOUS
  <2>2. CASE j = Len(stack)
    <3>1. stack[i] \in S
      BY <1>2, <1>3
    <3>2. QED
      BY <3>1, <2>1, <2>2, <1>2, <1>3
  <2>3. CASE j # Len(stack)
    <3>1. j \in 1 .. Len(stack) - 1 /\ j + 1 \in i .. Len(stack)
      BY <2>3, <1>2, <1>3
    <3>2. stack[j + 1] \in deps[stack[j]]
      BY <3>1 DEF SearchInv, StackIsPath
    <3>3. stack[j + 1] \in S
      BY <3>1
    <3>4. QED
      BY <3>2, <3>3, <2>1
  <2>4. QED
    BY <2>2, <2>3
<1>6. QED
  BY <1>4, <1>5 DEF Search!Acyclic

-----------------------------------------------------------------------------
(* The call: the search is at work only on graphs without missing nodes.   *)

CallInv ==
  /\ deps \in Graphs
  /\ Known(deps) => SearchInv
  /\ ~Known(deps) => verdict = "searching"

LEMMA InitCall == CallInit => CallInv
<1> SUFFICES ASSUME CallInit PROVE CallInv
  OBVIOUS
<1>1. Known(deps) => Search!Init
  BY DEF CallInit, Init, Search!Init
<1>2. QED
  BY <1>1, InitSearch DEF CallInit, Init, CallInv

\* A step of the call that is not one of the search leaves the search alone.
LEMMA RestOfCall ==
  ASSUME CallInv, UNCHANGED <<deps, searchVars>>
  PROVE  CallInv'
<1>1. UNCHANGED Search!vars /\ Known(deps') = Known(deps)
  BY DEF searchVars, Search!vars
<1>2. Known(deps) => SearchInv'
  BY <1>1, StepSearch DEF CallInv
<1>3. QED
  BY <1>1, <1>2 DEF CallInv, searchVars

LEMMA DepsGiven ==
  ASSUME [Next]_vars \/ Judged
  PROVE  deps' = deps
BY DEF Next, Loop, Validate, Return, ThrowAborted, Scan, Abort, Settle, Succeed, Retry, Fail,
       Reject, Finished, vars, Judged

LEMMA StepCall == CallInv /\ [CallNext]_callVars => CallInv'
<1> SUFFICES ASSUME CallInv, [CallNext]_callVars PROVE CallInv'
  OBVIOUS
<1>1. CASE Searching
  <2>1. Known(deps) /\ Search!Next /\ deps' = deps
    BY <1>1 DEF Searching, Search!Next, vars
  <2>2. SearchInv'
    BY <2>1, StepSearch DEF CallInv
  <2>3. QED
    BY <2>1, <2>2 DEF CallInv, Known
<1>2. CASE Judged
  BY <1>2, DepsGiven, RestOfCall DEF Judged, searchVars
<1>3. CASE [Next]_vars /\ UNCHANGED searchVars
  BY <1>3, DepsGiven, RestOfCall DEF searchVars
<1>4. QED
  BY <1>1, <1>2, <1>3
     DEF CallNext, Main, LateAbort, Job, Next, Loop, callVars

\* Only acyclic graphs reach the main loop, only cycles are refused for one.
LEMMA CallDecides == CallInv => SearchDecides
<1>1. CASE Known(deps)
  BY <1>1, SearchAccepts, SearchRefuses DEF CallInv, SearchDecides
<1>2. CASE ~Known(deps)
  BY <1>2 DEF CallInv, SearchDecides, Search!AcceptsOnlyAcyclic, Search!RefusesOnlyCycles
<1>3. QED
  BY <1>1, <1>2

THEOREM CallSpecInv == CallSpec => []CallInv
BY InitCall, StepCall, PTL DEF CallSpec

\* assertAcyclic decides whether the graph has a cycle.
THEOREM SearchSound == CallSpec => []SearchDecides
BY CallSpecInv, CallDecides, PTL

\* The verdict of the search is the one TaskGraph takes from the definition.
LEMMA CallStep ==
  ASSUME CallInv, [CallNext]_callVars
  PROVE  [Next]_vars
<1>1. CASE Judged
  <2>1. SearchDecides /\ Search!Acyclic(deps) = Acyclic(deps)
    BY CallDecides DEF Search!Acyclic, Acyclic
  <2>2. pc' = IF Known(deps) /\ Acyclic(deps) THEN "scan" ELSE "threw"
    <3>1. CASE ~Known(deps)
      BY <1>1, <3>1 DEF Judged, CallInv
    <3>2. CASE Known(deps)
      <4>1. verdict \in {"accepted", "cycle"}
        BY <1>1, <3>2 DEF Judged, CallInv, SearchInv, Search!TypeOK
      <4>2. QED
        BY <1>1, <2>1, <3>2, <4>1
           DEF Judged, SearchDecides, Search!AcceptsOnlyAcyclic, Search!RefusesOnlyCycles
    <3>3. QED
      BY <3>1, <3>2
  <2>3. QED
    BY <1>1, <2>2 DEF Judged, Next, Loop, Validate
<1>2. CASE Searching
  BY <1>2 DEF Searching
<1>3. CASE Main \/ LateAbort \/ (\E n \in Node : Job(n)) \/ (Finished /\ UNCHANGED searchVars)
  BY <1>3 DEF Main, LateAbort, Job, Next, Loop
<1>4. CASE UNCHANGED callVars
  BY <1>4 DEF callVars
<1>5. QED
  BY <1>1, <1>2, <1>3, <1>4 DEF CallNext

\* The whole call is one of TaskGraph: what is proved of Spec holds for it.
THEOREM CallImplements == CallSpec => Spec
<1>1. CallInit => Init
  BY DEF CallInit
<1>2. QED
  BY <1>1, CallSpecInv, CallStep, PTL DEF CallSpec, Spec

\* runTaskGraph keeps its promise to its callers, validation included.
THEOREM CallKeepsPromise == CallSpec => ImplementsDagResults
BY CallImplements, Implements

-----------------------------------------------------------------------------
(* The call cannot go on for ever, and never waits for nothing: what of its *)
(* end can be said without fairness.                                       *)

\* An invariant of a call is one of its scheduler and its search together.
THEOREM CallSpecIInv == CallSpec => []IInv
BY CallImplements, SpecIInv

LEMMA SearchStepAdvances ==
  ASSUME SearchInv, Search!Search
  PROVE  SearchAdvances
<1>1. Search!TypeOK /\ stack \in Seq(Node)
  BY DEF SearchInv, Search!TypeOK
<1>2. ASSUME NEW n \in Node, Search!Enter(n) PROVE SearchAdvances
  <2>1. visited' = visited /\ n \notin Search!Visiting /\ stack' = Append(stack, n)
    BY <1>2 DEF Search!Enter
  <2>2. /\ DOMAIN stack = 1 .. Len(stack) /\ DOMAIN stack' = 1 .. Len(stack) + 1
        /\ stack'[Len(stack) + 1] = n /\ Len(stack) \in Nat
        /\ \A i \in 1 .. Len(stack) : stack'[i] = stack[i]
    BY <1>1, <2>1
  <2>3. Search!Visiting \subseteq Search!Visiting' /\ n \in Search!Visiting'
    BY <2>2 DEF Search!Visiting
  <2>4. QED
    BY <2>1, <2>3 DEF SearchAdvances
<1>3. ASSUME NEW n \in Node, Search!MeetCycle(n) PROVE SearchAdvances
  BY <1>3 DEF Search!MeetCycle, SearchAdvances
<1>4. CASE Search!Leave
  <2>1. Search!Top \notin visited
    BY <1>1, <1>4, TopInNode DEF Search!Leave, SearchInv, StackIsPath
  <2>2. QED
    BY <1>4, <2>1 DEF Search!Leave, SearchAdvances
<1>5. CASE Search!Accept
  BY <1>5 DEF Search!Accept, SearchAdvances
<1>6. QED
  BY <1>2, <1>3, <1>4, <1>5 DEF Search!Search

\* A job's step takes its node on and leaves the others.
LEMMA SettleAdvances ==
  ASSUME IInv, NEW n \in Node, Settle(n)
  PROVE  Advances
<1>1. attempts \in [Node -> 0 .. MaxAttempts] /\ status \in [Node -> Statuses]
  BY DEF IInv, TypeOK
<1>2. \A m \in Node : attempts[m] \in Nat /\ Stage(status[m]) \in 0 .. 2
  BY <1>1, AttemptsAssumption DEF Stage
<1>3. CASE Succeed(n) \/ Fail(n) \/ Reject(n)
  <2>1. /\ status[n] = "running" /\ status'[n] \in {"succeeded", "failed", "rejected"}
        /\ attempts' = attempts
        /\ \A m \in Node \ {n} : status'[m] = status[m]
    BY <1>1, <1>3 DEF Succeed, Fail, Reject
  <2>2. Stage(status[n]) = 1 /\ Stage(status'[n]) = 2
    BY <2>1 DEF Stage
  <2>3. \A m \in Node : attempts[m] <= attempts'[m] /\ Stage(status[m]) <= Stage(status'[m])
    BY <1>2, <2>1, <2>2
  <2>4. QED
    BY <2>2, <2>3 DEF Advances
<1>4. CASE Retry(n)
  <2>1. /\ status' = status /\ attempts'[n] = attempts[n] + 1
        /\ \A m \in Node \ {n} : attempts'[m] = attempts[m]
    BY <1>1, <1>4 DEF Retry
  <2>2. \A m \in Node : attempts[m] <= attempts'[m] /\ Stage(status[m]) <= Stage(status'[m])
    BY <1>2, <2>1
  <2>3. attempts[n] # attempts'[n]
    BY <1>2, <2>1
  <2>4. QED
    BY <2>2, <2>3 DEF Advances
<1>5. QED
  BY <1>3, <1>4 DEF Settle

\* A scan only starts and skips nodes that are queued, and goes on to a wait
\* or to the end.
LEMMA ScanAdvances ==
  ASSUME IInv, Scan
  PROVE  Advances
<1>1. /\ attempts \in [Node -> 0 .. MaxAttempts] /\ status \in [Node -> Statuses]
      /\ Started /\ pc = "scan" /\ aborted' = aborted
  BY DEF IInv, TypeOK, Scan
<1>2. PICK S \in SUBSET Node :
        /\ IsSkipPass(S)
        /\ status' = [n \in Node |-> IF n \in S THEN "skipped"
                                     ELSE IF n \in Starts(S) THEN "running"
                                     ELSE status[n]]
        /\ attempts' = [n \in Node |-> IF n \in Starts(S) THEN 1 ELSE attempts[n]]
  BY DEF Scan
<1>3. S \subseteq Queued /\ Starts(S) \subseteq Queued
  BY <1>2 DEF IsSkipPass, Starts, Startable
<1>4. ASSUME NEW n \in Node
      PROVE  attempts[n] <= attempts'[n] /\ Stage(status[n]) <= Stage(status'[n])
  <2>1. attempts[n] \in Nat /\ Stage(status[n]) \in 0 .. 2 /\ Stage(status'[n]) \in 0 .. 2
    BY <1>1, AttemptsAssumption DEF Stage
  <2>2. CASE n \in Queued
    <3>1. attempts[n] = 0 /\ Stage(status[n]) = 0
      BY <1>1, <2>2 DEF Queued, Started, Stage
    <3>2. attempts'[n] \in {0, 1}
      BY <1>2, <3>1
    <3>3. QED
      BY <2>1, <3>1, <3>2
  <2>3. CASE n \notin Queued
    <3>1. n \notin S /\ n \notin Starts(S)
      BY <1>3, <2>3
    <3>2. attempts'[n] = attempts[n] /\ status'[n] = status[n]
      BY <1>2, <3>1
    <3>3. QED
      BY <2>1, <3>2
  <2>4. QED
    BY <2>2, <2>3
<1>5. PhasesLeft = 2 /\ PhasesLeft' \in {0, 1}
  BY <1>1 DEF Scan, PhasesLeft
<1>6. QED
  BY <1>1, <1>4, <1>5 DEF Advances

LEMMA NodesStand ==
  ASSUME IInv, UNCHANGED <<status, attempts>>
  PROVE  \A n \in Node :
           attempts[n] <= attempts'[n] /\ Stage(status[n]) <= Stage(status'[n])
<1>1. \A n \in Node : attempts[n] \in Nat /\ Stage(status[n]) \in 0 .. 2
  BY AttemptsAssumption DEF IInv, TypeOK, Stage
<1>2. QED
  BY <1>1

LEMMA CallStepAdvances ==
  ASSUME IInv, CallInv, [CallNext]_callVars
  PROVE  Advances \/ UNCHANGED callVars
<1>1. CASE Searching
  <2>1. SearchAdvances /\ UNCHANGED vars
    BY <1>1, SearchStepAdvances DEF Searching, CallInv
  <2>2. QED
    BY <2>1, NodesStand DEF Advances, vars
<1>2. CASE Judged
  <2>1. /\ UNCHANGED <<aborted, status, attempts>>
        /\ PhasesLeft = 3 /\ PhasesLeft' \in {0, 2}
    BY <1>2 DEF Judged, PhasesLeft
  <2>2. QED
    BY <2>1, NodesStand DEF Advances
<1>3. CASE Main
  <2>1. CASE Scan
    BY <2>1, ScanAdvances
  <2>2. CASE Return \/ ThrowAborted
    <3>1. /\ UNCHANGED <<aborted, status, attempts>>
          /\ PhasesLeft = 2 /\ PhasesLeft' = 0
      BY <2>2 DEF Return, ThrowAborted, PhasesLeft
    <3>2. QED
      BY <3>1, NodesStand DEF Advances
  <2>3. QED
    BY <1>3, <2>1, <2>2 DEF Main
<1>4. CASE LateAbort
  <2>1. UNCHANGED <<status, attempts>> /\ ~aborted /\ aborted'
    BY <1>4 DEF LateAbort, Abort
  <2>2. QED
    BY <2>1, NodesStand DEF Advances
<1>5. ASSUME NEW n \in Node, Job(n) PROVE Advances
  BY <1>5, SettleAdvances DEF Job
<1>6. CASE (Finished /\ UNCHANGED searchVars) \/ UNCHANGED callVars
  BY <1>6 DEF Finished, callVars
<1>7. QED
  BY <1>1, <1>2, <1>3, <1>4, <1>5, <1>6 DEF CallNext

\* A call of runTaskGraph cannot go on for ever: no node goes back, and
\* whatever else a step does comes nearer to an end.
THEOREM CallAlwaysAdvances == CallSpec => CallAdvances
<1>1. IInv /\ CallInv /\ [CallNext]_callVars => [Advances]_callVars
  BY CallStepAdvances
<1>2. QED
  BY <1>1, CallSpecIInv, CallSpecInv, PTL DEF CallSpec, CallAdvances

\* One skip pass: the nodes marked if exactly those of T are marked already.
MarkedAfter(T) ==
  {n \in Queued : Broken(n) \/ \E d \in deps[n] : d \in T /\ Pos[d] < Pos[n]}

\* There is a skip pass: the smallest set of marks that asks for no other.
LEMMA SkipPassExists == \E S \in SUBSET Node : IsSkipPass(S)
<1> DEFINE Enough(T) == MarkedAfter(T) \subseteq T
           S == {n \in Node : \A T \in SUBSET Node : Enough(T) => n \in T}
<1>1. \A T1, T2 \in SUBSET Node : T1 \subseteq T2 => MarkedAfter(T1) \subseteq MarkedAfter(T2)
  BY DEF MarkedAfter
<1>2. \A T \in SUBSET Node : MarkedAfter(T) \in SUBSET Node
  BY DEF MarkedAfter, Queued
<1>3. S \in SUBSET Node /\ \A T \in SUBSET Node : Enough(T) => S \subseteq T
  OBVIOUS
<1>4. MarkedAfter(S) \subseteq S
  <2>1. ASSUME NEW T \in SUBSET Node, Enough(T) PROVE MarkedAfter(S) \subseteq T
    BY <1>1, <1>3, <2>1
  <2>2. QED
    BY <1>2, <1>3, <2>1
<1>5. S \subseteq MarkedAfter(S)
  <2>1. Enough(MarkedAfter(S))
    BY <1>1, <1>2, <1>3, <1>4
  <2>2. QED
    BY <1>2, <1>3, <2>1
<1> HIDE DEF S
<1>6. S = MarkedAfter(S)
  BY <1>4, <1>5
<1>7. IsSkipPass(S)
  BY <1>3, <1>6 DEF IsSkipPass, MarkedAfter
<1>8. QED
  BY <1>3, <1>7

\* There is no other: the first node on which two passes differed would wait
\* for an earlier one on which they differ.  So a scan is determined by the
\* state it finds.
LEMMA SkipPassUnique ==
  ASSUME NEW S \in SUBSET Node, NEW T \in SUBSET Node, IsSkipPass(S), IsSkipPass(T)
  PROVE  S = T
<1> DEFINE D == (S \ T) \cup (T \ S)
<1>1. SUFFICES ASSUME D # {} PROVE FALSE
  OBVIOUS
<1>2. PICK x \in D : \A y \in D : Pos[x] <= Pos[y]
  BY <1>1, FirstNode
<1>3. \A n \in Node : Pos[n] \in Nat
  BY PosAssumption, NodeAssumption, FS_CardinalityType
<1>4. \A d \in Node : Pos[d] < Pos[x] => (d \in S <=> d \in T)
  BY <1>2, <1>3
<1>5. x \in S <=> x \in T
  BY <1>2, <1>4 DEF IsSkipPass
<1>6. QED
  BY <1>2, <1>5

\* The pass over the list, stated by what it marks, is well defined: a scan has
\* one outcome, though its marks depend on each other (task-graph.ts 57-66).
THEOREM SkipPassDetermined ==
  \E S \in SUBSET Node : IsSkipPass(S) /\ \A T \in SUBSET Node : IsSkipPass(T) => T = S
BY SkipPassExists, SkipPassUnique

\* The guards of the call's steps: of the search (a node to enter or met on
\* the stack, a node to leave, or all finished), of its verdict, of the loop,
\* and of a job that settles.
SearchCanGoOn ==
  /\ verdict = "searching"
  /\ \/ \E n \in Node : n \in Search!Callable /\ (n \in Search!Visiting \/ n \notin visited)
     \/ stack # <<>> /\ deps[Search!Top] \subseteq visited
     \/ stack = <<>> /\ Node \subseteq visited

LoopCanGoOn == AllDecided \/ aborted \/ \E S \in SUBSET Node : IsSkipPass(S)

CallCanGoOn ==
  \/ pc = "validate" /\ (~Known(deps) \/ verdict # "searching" \/ SearchCanGoOn)
  \/ pc = "scan" /\ LoopCanGoOn
  \/ \E n \in Node : status[n] = "running"

\* Until a call is over, loop and jobs, it has a next step: the search finds
\* a node, a cycle or its end, a scan finds its skip pass, and a waiting loop
\* has a job that will wake it.
THEOREM CallNeverStuck == CallSpec => [](~Over => CallCanGoOn)
<1>1. ASSUME IInv, CallInv, ~Over PROVE CallCanGoOn
  <2>1. CASE pc = "validate" /\ Known(deps) /\ verdict = "searching"
    <3>1. SearchInv /\ Search!TypeOK
      BY <1>1, <2>1 DEF CallInv, SearchInv
    <3>2. CASE stack = <<>>
      BY <2>1, <3>2 DEF SearchCanGoOn, CallCanGoOn, Search!Callable
    <3>3. CASE stack # <<>>
      <4>1. deps[Search!Top] \subseteq Node /\ Search!Callable = deps[Search!Top]
        BY <3>1, <3>3, TopInNode, DepsInNode DEF Search!Callable
      <4>2. QED
        BY <2>1, <3>3, <4>1 DEF SearchCanGoOn, CallCanGoOn
    <3>4. QED
      BY <3>2, <3>3
  <2>2. CASE pc = "validate" /\ ~(Known(deps) /\ verdict = "searching")
    BY <2>2 DEF CallCanGoOn
  <2>3. CASE pc = "scan"
    BY <2>3, SkipPassExists DEF LoopCanGoOn, CallCanGoOn
  <2>4. CASE pc = "await"
    BY <1>1, <2>4 DEF IInv, AwaitHasJob, CallCanGoOn
  <2>5. CASE pc \in {"returned", "threw", "stuck"}
    BY <1>1, <2>5 DEF Over, CallCanGoOn
  <2>6. QED
    BY <1>1, <2>1, <2>2, <2>3, <2>4, <2>5 DEF IInv, TypeOK, Pcs
<1>2. QED
  BY <1>1, CallSpecIInv, CallSpecInv, PTL
=============================================================================
