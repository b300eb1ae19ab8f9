------------------------------ MODULE Deployer ------------------------------
(***************************************************************************)
(* DockerDeployer (packages/sandbox/src/docker/deploy.ts): deploy,         *)
(* rollback and remove of one project, under the lock of DeployLock, with  *)
(* the releases it keeps (crates/bstudio-guard/src/deploy_plan.rs).        *)
(*                                                                         *)
(* An operation is a sequence of docker commands and writes of state.json; *)
(* each is a step, and the process may die between any two of them.  What  *)
(* docker and the proxy hold stays as it is then; what was in memory goes. *)
(***************************************************************************)
EXTENDS DeployLock

CONSTANTS
  MaxDeploys,     \* bound: how many releases are ever built
  KeepPrevious,   \* KEEP_PREVIOUS
  MaxRecords,     \* MAX_RECORDS
  FaultSets       \* the faults that may come together in one behaviour

\* "docker": a command of the switch fails and has no effect.  "cancel": one
\* is cut off by the user though it has its effect.  "write": state.json
\* cannot be written.  "spawn": docker cannot be started to take the old
\* release down.  "restart": docker restarts the proxy.  "ports": the proxy has
\* stopped or its ports have changed.
Faults == {"docker", "cancel", "write", "spawn", "restart", "ports", "crash"}

ASSUME ReleasesAssumption == MaxDeploys \in Nat /\ KeepPrevious \in Nat
ASSUME RecordsAssumption == MaxRecords \in Nat \ {0}
ASSUME FaultSetsAssumption == FaultSets \subseteq SUBSET Faults

Release == 1 .. MaxDeploys
None == 0

VARIABLES
  faults,
  \* the operation under way
  pc, op, rel, previous, failure,
  mem,      \* the state it works on
  \* what outlives a process: state.json, and docker's side
  file, images, up,
  proxy,      \* the proxy container runs
  caddyfile,  \* the release its configuration file names
  route,      \* the release its running configuration names
  built,      \* releases built so far
  \* history variables
  torn,       \* a process died and no release was recorded since
  withdrawn   \* remove() began and no release was recorded since

opVars == <<pc, op, rel, previous, failure, mem>>
dockerVars == <<images, up, proxy, caddyfile, route, built>>
history == <<torn, withdrawn>>
vars == <<lockVars, faults, opVars, file, dockerVars, history>>

\* "none": there is no record of the release.  Its place in the list is 0 then.
Status == {"none", "failed", "active", "previous", "retired"}
State == [active : Release \cup {None}, status : [Release -> Status], place : [Release -> Nat]]
Empty == [active |-> None, status |-> [r \in Release |-> "none"], place |-> [r \in Release |-> 0]]

Places2 == {"idle", "build", "up", "proxy", "caddy", "reload", "verify", "restore", "record",
            "drain", "retire", "save", "clean", "note", "downAll", "forget", "done"}

TypeOK ==
  /\ LockTypeOK
  /\ faults \in FaultSets
  /\ pc \in Places2 /\ op \in {"deploy", "rollback", "remove"}
  /\ rel \in Release \cup {None} /\ previous \in Release \cup {None}
  /\ failure \in {"none", "plain", "unrestored"}
  /\ mem \in State /\ file \in State
  /\ \A s \in {mem, file}, r \in Release : s.place[r] = 0 <=> s.status[r] = "none"
  /\ images \subseteq Release /\ up \subseteq Release
  /\ proxy \in BOOLEAN
  /\ caddyfile \in Release \cup {None} /\ route \in Release \cup {None}
  /\ built \in 0 .. MaxDeploys
  /\ torn \in BOOLEAN /\ withdrawn \in BOOLEAN

Init ==
  /\ LockInit
  /\ faults \in FaultSets
  /\ pc = "idle" /\ op = "deploy" /\ rel = None /\ previous = None /\ failure = "none"
  /\ mem = Empty
  /\ file = Empty
  /\ images = {} /\ up = {} /\ proxy = FALSE
  /\ caddyfile = None /\ route = None /\ built = 0
  /\ torn = FALSE /\ withdrawn = FALSE

-----------------------------------------------------------------------------
(* The list of releases, newest first.                                     *)

\* [release, ...the others]: the newest is first, what was newer moves back.
MovedUp(place, r) ==
  [x \in Release |-> CASE x = r -> 1
                      [] x # r /\ place[x] # 0 /\ (place[r] = 0 \/ place[x] < place[r]) -> place[x] + 1
                      [] OTHER -> place[x]]

\* trim_records: so many of the newest; the active one in any case, if need
\* be in the place of the last of them.
Trimmed(place, active) ==
  LET late == active # None /\ place[active] > MaxRecords
      kept == IF late THEN MaxRecords - 1 ELSE MaxRecords
  IN [x \in Release |-> CASE late /\ x = active -> MaxRecords
                         [] ~(late /\ x = active) /\ place[x] <= kept -> place[x]
                         [] OTHER -> 0]

\* What is no longer listed has no record.
Listed(state, r, active) ==
  LET place == Trimmed(MovedUp(state.place, r), active)
  IN [active |-> active, place |-> place,
      status |-> [x \in Release |-> IF place[x] = 0 THEN "none" ELSE state.status[x]]]

WithStatus(state, r, s) == [state EXCEPT !.status = [x \in Release |-> IF x = r THEN s ELSE @[x]]]

\* releases_to_retire: the previous releases beyond the ones kept.
Previous(state) == {r \in Release : state.status[r] = "previous"}
Retired(state) ==
  {r \in Previous(state) :
     Cardinality({x \in Previous(state) : state.place[x] < state.place[r]}) >= KeepPrevious}

\* docker refuses to remove the image of a container that exists.
ImagesWithout(R) == images \ (R \ up)

-----------------------------------------------------------------------------
(* Steps.                                                                  *)

Holding == \E p \in Proc : at[p] = "held"
Step(from, to) == pc = from /\ Holding /\ pc' = to /\ UNCHANGED <<lockVars, faults>>

\* Mutant of Throws: a route that could not be put back is a failure like
\* any other.
ThrowsAlike(how) ==
  /\ failure' = how
  /\ pc' = CASE op = "deploy" -> "clean" [] op = "rollback" -> "note" [] OTHER -> "done"

\* A step that throws: deploy and rollback catch it and record the failure,
\* remove does not.
Throws(how) ==
  /\ failure' = how
  /\ pc' = CASE op = "deploy" -> (IF how = "unrestored" THEN "note" ELSE "clean")
             [] op = "rollback" -> "note"
             [] OTHER -> "done"

Fails(from, how) == pc = from /\ Holding /\ Throws(how) /\ UNCHANGED <<lockVars, faults>>

\* An operation that is refused, or fails before it has changed anything:
\* no such release, its images gone, the base services do not come up.
Refuse ==
  /\ Step("idle", "done")
  /\ UNCHANGED <<op, rel, previous, failure, mem, file, dockerVars, history>>

BeginDeploy ==
  /\ built < MaxDeploys
  /\ Step("idle", "build")
  /\ op' = "deploy" /\ failure' = "none" /\ previous' = None
  /\ built' = built + 1 /\ rel' = built + 1
  /\ mem' = file
  /\ UNCHANGED <<file, images, up, proxy, caddyfile, route, history>>

BeginRollback ==
  /\ Step("idle", "up")
  /\ op' = "rollback" /\ failure' = "none" /\ previous' = None
  /\ \E r \in images : file.status[r] = "previous" /\ file.active # r /\ rel' = r
  /\ mem' = file
  /\ UNCHANGED <<file, dockerVars, history>>

\* The base services and the images of every service.
Build ==
  /\ Step("build", "up")
  /\ images' = images \cup {rel}
  /\ UNCHANGED <<op, rel, previous, failure, mem, file, up, proxy, caddyfile, route, built, history>>

BuildFails ==
  /\ Fails("build", "plain")
  /\ images' \in {images, images \cup {rel}}
  /\ UNCHANGED <<op, rel, previous, mem, file, up, proxy, caddyfile, route, built, history>>

\* compose up, and every service answers.
Up ==
  /\ Step("up", "proxy")
  /\ up' = up \cup {rel}
  /\ UNCHANGED <<op, rel, previous, failure, mem, file, images, proxy, caddyfile, route, built, history>>

UpFails ==
  /\ Fails("up", "plain")
  /\ up' \in {up, up \cup {rel}}
  /\ UNCHANGED <<op, rel, previous, mem, file, images, proxy, caddyfile, route, built, history>>

\* The proxy is made anew: what runs, if any, is removed first.
MadeAnew(runs) == proxy' = runs /\ caddyfile' = None /\ route' = None

MustBeMade == ~proxy \/ "ports" \in faults

\* #ensureProxy: a proxy made anew knows no release.
EnsureProxy ==
  /\ Step("proxy", "caddy")
  /\ previous' = IF mem.active # rel THEN mem.active ELSE None
  /\ \/ proxy /\ UNCHANGED <<proxy, caddyfile, route>>
     \/ MustBeMade /\ MadeAnew(TRUE)
  /\ UNCHANGED <<op, rel, failure, mem, file, images, up, built, history>>

\* It cannot be looked at or removed, or is removed and not made again; or its
\* caller is cut off while it is made.
EnsureProxyFails ==
  /\ Fails("proxy", "plain")
  /\ \/ "docker" \in faults /\ UNCHANGED <<proxy, caddyfile, route>>
     \/ "docker" \in faults /\ MustBeMade /\ MadeAnew(FALSE)
     \/ "cancel" \in faults /\ MustBeMade /\ MadeAnew(TRUE)
  /\ UNCHANGED <<op, rel, previous, mem, file, images, up, built, history>>

\* #routeTo: the configuration is written, then loaded.
WriteCaddyfile ==
  /\ Step("caddy", "reload")
  /\ caddyfile' = rel
  /\ UNCHANGED <<op, rel, previous, failure, mem, file, images, up, proxy, route, built, history>>

Reload ==
  /\ Step("reload", "verify")
  /\ route' = rel
  /\ UNCHANGED <<op, rel, previous, failure, mem, file, images, up, proxy, caddyfile, built, history>>

\* The command fails, or its caller is cut off while it takes effect.
SwitchFails ==
  /\ \E from \in {"caddy", "reload"} :
       /\ Fails(from, "plain")
       /\ \/ "docker" \in faults /\ UNCHANGED <<caddyfile, route>>
          \/ /\ "cancel" \in faults
             /\ IF from = "caddy" THEN caddyfile' = rel /\ UNCHANGED route
                ELSE route' = rel /\ UNCHANGED caddyfile
  /\ UNCHANGED <<op, rel, previous, mem, file, images, up, proxy, built, history>>

\* #verifyThroughProxy: every service answers at its public address.
Verify ==
  /\ Step("verify", "record")
  /\ route \in up
  /\ UNCHANGED <<op, rel, previous, failure, mem, file, dockerVars, history>>

VerifyFails ==
  /\ IF previous # None /\ mem.place[previous] # 0 THEN Step("verify", "restore") /\ UNCHANGED failure ELSE Fails("verify", "plain")
  /\ UNCHANGED <<op, rel, previous, mem, file, dockerVars, history>>

\* restoreRouteAfterFailedCheck, without the signal of the caller.
Restore ==
  /\ Fails("restore", "plain")
  /\ caddyfile' = previous /\ route' = previous
  /\ UNCHANGED <<op, rel, previous, mem, file, images, up, proxy, built, history>>

RestoreFails ==
  /\ "docker" \in faults
  /\ Fails("restore", "unrestored")
  /\ caddyfile' \in {caddyfile, previous}
  /\ UNCHANGED <<op, rel, previous, mem, file, images, up, proxy, route, built, history>>

\* writeState: the file is replaced whole, or the step throws.
WriteState(from, to, state) ==
  /\ pc = from
  /\ mem' = state
  /\ \/ Step(from, to) /\ file' = state /\ UNCHANGED failure
     \/ "write" \in faults /\ Fails(from, "plain") /\ UNCHANGED file

Record ==
  /\ WriteState("record", IF previous # None THEN "drain" ELSE "retire",
       Listed(WithStatus(WithStatus(mem, previous, "previous"), rel, "active"), rel, rel))
  /\ torn' = FALSE /\ withdrawn' = FALSE
  /\ UNCHANGED <<op, rel, previous, dockerVars>>

\* Mutant of Drain: the release just put into operation is taken down.
DrainRel ==
  /\ Step("drain", "retire")
  /\ up' = up \ {rel}
  /\ UNCHANGED <<op, rel, previous, failure, mem, file, images, proxy, caddyfile, route, built, history>>

\* The requests of the old release have had their time.
Drain ==
  /\ \/ Step("drain", "retire") /\ up' = up \ {previous} /\ UNCHANGED failure
     \/ "spawn" \in faults /\ Fails("drain", "plain") /\ UNCHANGED up
  /\ UNCHANGED <<op, rel, previous, mem, file, images, proxy, caddyfile, route, built, history>>

\* Mutant of Retire: the images go and the record stays.
RetireUnmarked ==
  /\ Step("retire", "save")
  /\ images' = ImagesWithout(Retired(mem))
  /\ UNCHANGED <<op, rel, previous, failure, mem, file, up, proxy, caddyfile, route, built, history>>

Retire ==
  /\ Step("retire", "save")
  /\ mem' = [mem EXCEPT !.status = [r \in Release |-> IF r \in Retired(mem) THEN "retired" ELSE @[r]]]
  /\ images' = ImagesWithout(Retired(mem))
  /\ UNCHANGED <<op, rel, previous, failure, file, up, proxy, caddyfile, route, built, history>>

Save ==
  /\ WriteState("save", "done", mem)
  /\ UNCHANGED <<op, rel, previous, dockerVars, history>>

-----------------------------------------------------------------------------
(* A failed deploy or rollback.                                            *)

\* #recordFailure of a plain failure: the new release is cleared away.
CleanUp ==
  /\ Step("clean", "note")
  /\ up' = up \ {rel}
  /\ images' = images \ {rel}
  /\ UNCHANGED <<op, rel, previous, failure, mem, file, proxy, caddyfile, route, built, history>>

\* Mutant of Noted: a route that could not be put back is forgotten.
NotedPlain ==
  Listed(IF op = "deploy" THEN WithStatus(mem, rel, "failed") ELSE mem, rel, mem.active)

\* A route that could not be put back makes its release the active one.
Noted ==
  LET taken == IF failure = "unrestored" THEN WithStatus(mem, mem.active, "previous") ELSE mem
      active == IF failure = "unrestored" THEN rel ELSE mem.active
  IN IF op = "deploy" THEN Listed(WithStatus(taken, rel, "failed"), rel, active)
     ELSE [taken EXCEPT !.active = active]

Note ==
  /\ pc = "note" /\ Holding /\ pc' = "done" /\ UNCHANGED <<lockVars, faults, failure>>
  /\ mem' = Noted
  /\ file' \in {Noted} \cup (IF "write" \in faults THEN {file} ELSE {})
  /\ UNCHANGED <<op, rel, previous, dockerVars, history>>

-----------------------------------------------------------------------------
(* remove().                                                               *)

RemoveProxy ==
  /\ Step("idle", "downAll")
  /\ op' = "remove" /\ rel' = None /\ previous' = None /\ failure' = "none"
  /\ mem' = file
  /\ proxy' = FALSE /\ caddyfile' = None /\ route' = None
  /\ withdrawn' = TRUE
  /\ UNCHANGED <<file, images, up, built, torn>>

DownAll ==
  /\ Step("downAll", "forget")
  /\ up' = {}
  /\ images' = {r \in images : mem.status[r] = "none"}
  /\ UNCHANGED <<op, rel, previous, failure, mem, file, proxy, caddyfile, route, built, history>>

Forget ==
  /\ WriteState("forget", "done",
       [mem EXCEPT !.active = None,
                   !.status = [r \in Release |-> IF @[r] \in {"none", "failed"} THEN @[r] ELSE "retired"]])
  /\ torn' = FALSE
  /\ UNCHANGED <<op, rel, previous, dockerVars, withdrawn>>

-----------------------------------------------------------------------------

OpStep ==
  \/ Refuse \/ BeginDeploy \/ BeginRollback \/ Build \/ BuildFails \/ Up \/ UpFails
  \/ EnsureProxy \/ EnsureProxyFails \/ WriteCaddyfile \/ Reload \/ SwitchFails \/ Verify \/ VerifyFails
  \/ Restore \/ RestoreFails \/ Record \/ Drain \/ Retire \/ Save \/ CleanUp \/ Note
  \/ RemoveProxy \/ DownAll \/ Forget

\* Nothing of an operation runs while the lock is asked for.
Lock(p) ==
  /\ Ask(p) \/ Acquire(p)
  /\ UNCHANGED <<faults, opVars, file, dockerVars, history>>

\* The variables of an operation end with it.
NoOperation ==
  /\ pc' = "idle" /\ op' = "deploy" /\ rel' = None /\ previous' = None /\ failure' = "none"
  /\ mem' = Empty

\* Mutant of Finish: the lock is given back after a success only.
FinishWell(p) ==
  /\ pc = "done" /\ failure = "none" /\ Unlock(p)
  /\ NoOperation
  /\ UNCHANGED <<faults, file, dockerVars, history>>

Finish(p) ==
  /\ pc = "done" /\ Unlock(p)
  /\ NoOperation
  /\ UNCHANGED <<faults, file, dockerVars, history>>

Crash(p) ==
  /\ "crash" \in faults
  /\ Die(p)
  /\ IF at[p] = "held" THEN NoOperation /\ torn' = (torn \/ pc \notin {"idle", "done"})
     ELSE UNCHANGED <<opVars, torn>>
  /\ UNCHANGED <<faults, file, dockerVars, withdrawn>>

\* Docker restarts the proxy with the configuration file it has.
ProxyRestart ==
  /\ "restart" \in faults /\ proxy
  /\ route' = caddyfile
  /\ UNCHANGED <<lockVars, faults, opVars, file, images, up, proxy, caddyfile, built, history>>

Next ==
  \/ OpStep
  \/ \E p \in Proc : Lock(p) \/ Finish(p) \/ Crash(p)
  \/ ProxyRestart

Spec == Init /\ [][Next]_vars

\* A program goes on with what it has begun, unless it dies.  In the code nothing
\* makes a request for the lock wait; it waits here while Races excludes its next
\* step, so it goes on if it can again and again.
Fairness ==
  /\ WF_vars(OpStep)
  /\ \A p \in Proc : SF_vars(Acquire(p) /\ Lock(p)) /\ WF_vars(Finish(p))

FairSpec == Spec /\ Fairness

-----------------------------------------------------------------------------
(* Properties.                                                             *)

\* As long as a release is on record as the one in operation, the release
\* that the public address points to runs: whatever fails in a deploy or a
\* rollback, and wherever the process dies, what is in operation stays up.
\* recordFailure clears a failed release away because "운영 주소는 바꾸지
\* 않았거나 되돌렸으므로" (deploy.ts:457).
RouteIsServed ==
  file.active # None /\ ~withdrawn /\ route # None => route \in up

\* Between two operations state.json names the release that the public
\* address points to, unless a process died and nothing was recorded since.
StateMatchesRoute ==
  pc = "idle" /\ ~torn /\ file.active # None => route = file.active

\* A release that the record offers for a rollback still has its images
\* (no process having died in between).
PreviousIsRestorable ==
  pc = "idle" /\ "crash" \notin faults =>
    \A r \in DOMAIN file.status : file.status[r] = "previous" => r \in images

\* Every request for a deployment ends, even if the process that had the
\* lock died with it.
RequestEnds == \A p \in Proc : at[p] = "open" ~> at[p] = "out"

\* The deployer keeps the promise of PublicRoute.
Promise == INSTANCE PublicRoute
  WITH running <- up, recorded <- IF withdrawn THEN None ELSE file.active

KeepsPromise == Promise!Spec
=============================================================================
