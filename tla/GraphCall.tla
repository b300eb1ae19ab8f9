------------------------------ MODULE GraphCall ------------------------------
(***************************************************************************)
(* A whole call of runTaskGraph: TaskGraph with its validation spelled     *)
(* out.  The call refuses a graph that names a missing node, searches the  *)
(* rest for a cycle (CycleCheck), and only then enters the main loop.      *)
(***************************************************************************)
EXTENDS TaskGraph, Sequences

VARIABLES stack, visited, verdict   \* of the search

searchVars == <<stack, visited, verdict>>
callVars == <<vars, searchVars>>

Search == INSTANCE CycleCheck WITH Graphs <- {g \in Graphs : Known(g)}

CallInit ==
  /\ Init
  /\ stack = <<>> /\ visited = {} /\ verdict = "searching"

\* assertAcyclic is called on a list whose dependencies are all in it.  What
\* precedes the main loop has no await: the abort comes before it or after.
Searching ==
  /\ pc = "validate" /\ Known(deps)
  /\ Search!Search
  /\ UNCHANGED vars

\* The call throws or goes on, as it found.
Judged ==
  /\ pc = "validate"
  /\ ~Known(deps) \/ verdict # "searching"
  /\ pc' = IF verdict = "accepted" THEN "scan" ELSE "threw"
  /\ UNCHANGED <<deps, cap, aborted, status, attempts, searchVars>>

Main == (Return \/ ThrowAborted \/ Scan) /\ UNCHANGED searchVars

Job(n) == Settle(n) /\ UNCHANGED searchVars

LateAbort == pc # "validate" /\ Abort /\ UNCHANGED searchVars

CallNext ==
  \/ Searching \/ Judged \/ Main \/ LateAbort
  \/ \E n \in Node : Job(n)
  \/ Finished /\ UNCHANGED searchVars

CallSpec == CallInit /\ [][CallNext]_callVars

\* As FairSpec of TaskGraph; the search is part of the main loop's code.
FairCallSpec ==
  /\ CallSpec
  /\ WF_callVars(Searching \/ Judged \/ Main)
  /\ \A n \in Node : WF_callVars(Job(n))

-----------------------------------------------------------------------------
(* Properties.                                                             *)

\* assertAcyclic, within the call: the graphs it lets into the main loop are
\* those in which every set of nodes has one that waits for nothing in the
\* set, and it throws only for a real cycle.  A node met again by another way
\* (a diamond) is not one.
SearchDecides == Search!AcceptsOnlyAcyclic /\ Search!RefusesOnlyCycles

Stage(s) == CASE s = "queued" -> 0 [] s = "running" -> 1 [] OTHER -> 2

PhasesLeft ==
  CASE pc = "validate" -> 3 [] pc = "scan" -> 2 [] pc = "await" -> 1 [] OTHER -> 0

\* visit() finishes a node, goes deeper, or the search is decided; a node that
\* was finished is not entered again.
SearchAdvances ==
  \/ visited \subseteq visited' /\ visited' # visited
  \/ /\ visited' = visited
     /\ \/ Search!Visiting \subseteq Search!Visiting' /\ Search!Visiting' # Search!Visiting
        \/ stack' = stack /\ verdict = "searching" /\ verdict' # "searching"

\* No node goes back.  A step takes one on, to its next attempt or its end,
\* aborts, or leaves the nodes and brings the loop or the search nearer to its
\* end; only a node that settles sends the loop back to scan.
Advances ==
  /\ \A n \in Node :
       attempts[n] <= attempts'[n] /\ Stage(status[n]) <= Stage(status'[n])
  /\ \/ \E n \in Node : <<attempts[n], Stage(status[n])>> # <<attempts'[n], Stage(status'[n])>>
     \/ ~aborted /\ aborted'
     \/ aborted' = aborted /\ PhasesLeft' < PhasesLeft
     \/ UNCHANGED vars /\ SearchAdvances

\* A call cannot go on for ever, in its search, its loop or its jobs: of what
\* Advances counts there is only so much (runTaskGraph, visit, executeNode).
CallAdvances == [][Advances]_callVars
=============================================================================
