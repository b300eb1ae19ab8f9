------------------------------ MODULE CycleCheck ------------------------------
(***************************************************************************)
(* assertAcyclic of packages/agent/src/task-graph.ts, call by call: a      *)
(* depth-first search whose recursion is the stack of nodes being visited. *)
(* The order in which a node's dependencies are tried is left open.        *)
(***************************************************************************)
EXTENDS Naturals, Sequences, FiniteSets

\* runTaskGraph has refused missing dependencies before it calls the search:
\* a graph is a function from Node to its subsets.
CONSTANTS Node, Graphs

VARIABLES
  deps,     \* the graph under test
  stack,    \* the calls of visit() under way, `visiting` in call order
  visited,
  verdict   \* "searching", "accepted", or "cycle" once TaskGraphError is thrown

vars == <<deps, stack, visited, verdict>>

Visiting == {stack[i] : i \in DOMAIN stack}

TypeOK ==
  /\ deps \in Graphs
  /\ stack \in Seq(Node)
  /\ visited \in SUBSET Node
  /\ verdict \in {"searching", "accepted", "cycle"}

Top == stack[Len(stack)]

Init ==
  /\ deps \in Graphs
  /\ stack = <<>>
  /\ visited = {}
  /\ verdict = "searching"

\* visit(n) from the outer loop or from the call on top of the stack: n is
\* entered, found finished (no step: `visited`), or found on the stack.
Callable == IF stack = <<>> THEN Node ELSE deps[Top]

\* Mutant of Enter: a finished node is entered again (no `visited`).
EnterAgain(n) ==
  /\ verdict = "searching"
  /\ n \in Callable
  /\ n \notin Visiting
  /\ stack' = Append(stack, n)
  /\ UNCHANGED <<deps, visited, verdict>>

Enter(n) ==
  /\ verdict = "searching"
  /\ n \in Callable
  /\ n \notin Visiting
  /\ n \notin visited
  /\ stack' = Append(stack, n)
  /\ UNCHANGED <<deps, visited, verdict>>

MeetCycle(n) ==
  /\ verdict = "searching"
  /\ n \in Callable
  /\ n \in Visiting
  /\ verdict' = "cycle"
  /\ UNCHANGED <<deps, stack, visited>>

\* Mutant of Leave: a node is finished before its dependencies.
LeaveEarly ==
  /\ verdict = "searching"
  /\ stack # <<>>
  /\ visited' = visited \cup {Top}
  /\ stack' = SubSeq(stack, 1, Len(stack) - 1)
  /\ UNCHANGED <<deps, verdict>>

\* Every dependency has been tried: visiting.delete, visited.add.
Leave ==
  /\ verdict = "searching"
  /\ stack # <<>>
  /\ deps[Top] \subseteq visited
  /\ visited' = visited \cup {Top}
  /\ stack' = SubSeq(stack, 1, Len(stack) - 1)
  /\ UNCHANGED <<deps, verdict>>

Accept ==
  /\ verdict = "searching"
  /\ stack = <<>>
  /\ Node \subseteq visited
  /\ verdict' = "accepted"
  /\ UNCHANGED <<deps, stack, visited>>

Finished == verdict # "searching" /\ UNCHANGED vars

Search == (\E n \in Node : Enter(n) \/ MeetCycle(n)) \/ Leave \/ Accept

Next == Search \/ Finished

Spec == Init /\ [][Next]_vars

FairSpec == Spec /\ WF_vars(Search)

-----------------------------------------------------------------------------
\* The reference definition TaskGraph validates with.
Acyclic(g) ==
  \A S \in SUBSET Node : S # {} => \E n \in S : g[n] \cap S = {}

\* The search lets through only graphs in which every set of nodes has one
\* that waits for nothing in the set.
AcceptsOnlyAcyclic == verdict = "accepted" => Acyclic(deps)

\* The search refuses only graphs with a real cycle: finding a node twice by
\* two different ways (a diamond) is not one.
RefusesOnlyCycles == verdict = "cycle" => ~Acyclic(deps)

\* visit() recurses and the loop over the nodes ends, on every graph.
Terminates == <>(verdict # "searching")

=============================================================================
