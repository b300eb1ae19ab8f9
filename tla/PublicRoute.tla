---------------------------- MODULE PublicRoute -----------------------------
(***************************************************************************)
(* What a deployer promises of a project's public address: only the        *)
(* release it points to becomes the one on record, and as long as there is *)
(* one, the address is only switched to a release that runs and the        *)
(* release it points to is not taken down.                                 *)
(***************************************************************************)
CONSTANTS Release, None
VARIABLES
  route,      \* the release the public address points to
  running,    \* the releases whose containers run
  recorded    \* the release on record as the one in operation

routeVars == <<route, running, recorded>>

Init == route = None /\ running = {} /\ recorded = None

Start(r) == running' = running \cup {r} /\ UNCHANGED <<route, recorded>>

Switch(r) ==
  /\ recorded = None \/ r \in running
  /\ route' = r
  /\ UNCHANGED <<running, recorded>>

Record == recorded' = route /\ UNCHANGED <<route, running>>

Stop(R) ==
  /\ recorded = None \/ route \notin R
  /\ running' = running \ R
  /\ UNCHANGED <<route, recorded>>

\* A new proxy knows no release yet.
NewProxy == route' = None /\ UNCHANGED <<running, recorded>>

\* The project is taken out of operation.
Withdraw == route' = None /\ recorded' = None /\ UNCHANGED running

Next ==
  \/ \E r \in Release : Start(r) \/ Switch(r)
  \/ Record \/ NewProxy \/ Withdraw
  \/ \E R \in SUBSET Release : Stop(R)

Spec == Init /\ [][Next]_routeVars
=============================================================================
