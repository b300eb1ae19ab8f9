# TLA+ models of b-studio

b-studio lets coding agents (or people) change a project of several services. Each session works on a copy
of the project in a sandbox of its own, and nothing becomes a checkpoint before a *gate* has restarted the
services, run the project's declared checks and found them good. This directory holds TLA+ models of the
parts of that program whose correctness depends on the order in which things happen, the TLC
configurations that check them on small instances, and proofs checked by TLAPS of what holds for every
instance.

Paths below are relative to the repository's root; "docs" means its `docs/`.

- [1. The system](#1-the-system)
- [2. The modules](#2-the-modules)
- [3. What the runs check](#3-what-the-runs-check)
- [4. What is proved](#4-what-is-proved)
- [5. Disagreements between code and docs](#5-disagreements-between-code-and-docs)
- [6. What is not modelled, and the plan](#6-what-is-not-modelled-and-the-plan)
- [7. Running the checks](#7-running-the-checks)

## 1. The system

The studio server is one Node process. Its components call each other directly and share objects; the
concurrency is that of `await`: a function runs undisturbed up to its next await, and there anything else
may run — another request, a stop, an event of a child process. Beside the process there are actors it does
not control: the containers (in which commands left behind by an agent go on writing files), git, docker,
the user's editor, the model provider, and a crash.

| component | code | state it keeps | operations | talks to |
|---|---|---|---|---|
| **Task graph** | `packages/agent/src/task-graph.ts` | status and attempts of each node, the map of running jobs | `runTaskGraph`, `assertAcyclic` | called by the gate (declared checks) and by task plans (lanes); calls `node.run` |
| **Gate** | `packages/agent/src/gate.ts`, `verify.ts`, `change-tracker.ts`, `services.ts`, `workspace.ts` | attempts, failed services, `verifiedVersion`, changed files, fingerprints | `check`, `verified`, `grantRetryBudget` | reads the folder, restarts services through the sandbox, runs declared checks |
| **Agent loop** | `packages/agent/src/loop.ts`, `escalation.ts` | turn, escalation history, promoted model | `run` | model, tools, gate; returns a result to the session |
| **Session** | `apps/studio/lib/server/sessions.ts` | snapshot (status, running, checkpoints), boot promise, stop signal | boot, `sendMessage`/`execute`, `saveCheckpoint`, `revertRun`, `restoreCheckpoint`, document saves, `stopSession`, `resumeSession` | agent loop, checkpoints, databases, sandbox |
| **Checkpoints** | `packages/agent/src/checkpoints.ts` | git history of the working copy | `commit`, `discard`, `restore`, `commitDocs` | git |
| **Database branches** | `packages/agent/src/database-branches.ts` | one dump per checkpoint | `save`, `restore`, `changedSince` | `pg_dump`/`psql` in the sandbox |
| **Task plans** | `apps/studio/lib/server/task-plans.ts` | plan status, lanes, tasks, integration, board tokens | create, approve, reject, run, integrate, resume, delete | task graph, sessions, board |
| **Deployer** | `packages/sandbox/src/docker/deploy.ts`, `deploy_plan.rs` | releases, active release, route, lock file | `deploy`, `rollback`, `remove` | docker, proxy |
| **Terminal runs** | `sessions.ts` (7060-8430) | the run a CLI drives, its serial queue, a violation kept for the next run | hooks: prompt, tool, end of turn, end of CLI; cancel, violation, stop | gate, checkpoints, the chat's requests |
| **Fleets** | `apps/studio/lib/server/fleets.ts` | members with the run of each, winner, subscriptions, one file per fleet | create, watch, choose, delete, read back | sessions |
| Terminals, host agents | `session-terminal.ts`, `terminal-gateway.ts`, `host-terminal.ts` | open terminals, containers, hook tokens | open, close, send | docker, pseudo terminals |
| Board | `packages/agent/src/coordination/` | notes, bytes read per lane | `post`, `read` | lanes through MCP |
| Sandbox provider | `packages/sandbox/src/` | containers, networks, snapshots | boot, restart, sync, destroy | docker, kubectl |
| Runners, checks, policy, requirements, accounts, usage, previews, routes, CLI, native guard, specification | the rest (see `PROJECT.json`) | mostly none, or tables | | |

What makes each part correct, and what is hard about it:

- **Task graph.** Results come in the order the graph allows; every node gets exactly one; the limit on
  concurrency holds; the call ends. Hard: jobs settle in any order while the main loop is between waking and
  resuming; retries race the abort signal; skips propagate in the order of the list.
- **Gate.** A pass means that every service ran on exactly the files the report names and that none of them
  fails a check. Hard: the folder may change between any two awaits of a check; restarts fail one by one;
  the platform may fail half way; a check that ends early must leave its files to the next.
- **Agent loop.** The run ends; failures stay within the budget; a promotion of the model is used once and
  not wasted; only what was verified is committed. Hard: the gate passes, then git stages — in between the
  folder may change.
- **Session, checkpoints, databases.** Files, the list shown to the user, git and the development database
  belong to the same checkpoint whenever nothing is in progress, and a database state once kept for a
  checkpoint stays. Hard: three stores are moved one after the other, with stops, crashes, document saves
  and failing dumps in between.
- **Task plans.** Integration happens only from lanes that all passed; a plan that was interrupted integrates
  from its records; no sandbox runs that nobody lists. Hard: long-lived loops of awaits over shared objects
  which a user may delete or a restart may cut, and other activities that save the same plan.
- **Deployer.** The public route points at a release that runs, and the state file agrees with it. Hard: a
  crash between the switch and the write, a roll-back that fails, a lock taken over from a dead process.
- **Terminal runs.** One run works on the files at a time; how it ended is decided once; a refused run leaves
  no checkpoint and is closed. Hard: no runner waits for such a run — every hook is a request of its own,
  interleaved with the chat, cancels, the watcher of violations and a stop at every await of the check.
- **Fleets.** Every member gets the same request once, only a run of that request can make it a winner, every
  member ends. Hard: sessions live on without the fleet — people stop, resume, ask and delete them — and a
  restart makes the fleet learn from a replay what happened.

`PROJECT.json` lists every component, with its status, and every hazard at the line where it bites, with the
properties that would catch it.

## 2. The modules

```
DagResults  <--implements--  TaskGraph  <--EXTENDS--  GraphCall  --INSTANCE-->  CycleCheck
                             GraphCall  ---proofs---  TaskGraphProofs
Gate  <--EXTENDS--  AgentRun
Gate ---proofs---  GateProofs  <--EXTENDS--  AgentRunProofs  ---about--->  AgentRun
CheckpointHistory <--implements--  Session  ---proofs---  SessionProofs
PublicRoute <--implements--  Deployer  --EXTENDS-->  DeployLock
                             Deployer  ---proofs---  DeployerProofs
TaskPlan     ---proofs---  TaskPlanProofs
TerminalRun  ---proofs---  TerminalRunProofs
Fleet        ---proofs---  FleetProofs
MCTaskGraph, MCGate, MCAgentRun, MCSession, MCDeployer, MCTaskPlan, MCTerminalRun, MCFleet:
instances for TLC
```

Conventions. A step is the code between two awaits. Constants are declared with named assumptions, as weak
as the code justifies. A comment `Mutant of X` marks an operator that is not part of the model: it is what
X would be with a plausible mistake in the code, and shows that a property depends on X.

### TaskGraph and DagResults (`task-graph.ts`)

| state | code |
|---|---|
| `deps`, `cap` | the submitted nodes' `dependsOn` and `maxAttempts`, any the caller may submit |
| `pc` | where `runTaskGraph` is: validation, the scan between two awaits, `await Promise.race`, or over |
| `status`, `attempts` | the results so far; `rejected` is a job whose promise rejected in `throwIfAborted` |
| `aborted` | the caller's signal |

`Validate` is lines 39-46 (limit, unknown ids, `assertAcyclic`); `Scan` one turn of the `while`: the skip
pass in list order, which sees its own marks (`IsSkipPass`), then the start pass up to the limit (`Starts`),
or the throw when nothing runs (`stuck`). `Succeed`, `Retry`, `Fail` and `Reject` are the continuations of
`executeNode`. `scan` is also the state of a loop that was woken and has not resumed: other jobs may settle
first. `DagResults` states the callers' view, without limit, retries or list order; `TaskGraph` implements
it with `result` mapped to the decided statuses and `returned` to a call that has returned.

### CycleCheck and GraphCall (`assertAcyclic`, a whole call)

The recursion of `visit` is the sequence `stack`. Which dependency is tried next is left open, so the result
covers every order of the arrays.

`GraphCall` puts the two together: `Searching` runs the search inside the validation of the same call, on the
graph the call was given, `Judged` lets its verdict decide what `TaskGraph` decides by `Acyclic`, and `Main`,
`Job` and `LateAbort` are the scheduler's own steps. So the shorter `Validate` of `TaskGraph` is not taken on
trust: a whole call implements `TaskGraph`, and with it `DagResults`.

### Gate (`gate.ts`, `verify.ts`, `change-tracker.ts`, `workspace.ts`)

A file has a *content*: a fresh number, and a kind saying what the gate will make of it (`good`, `crash`,
`breaks` a contract, `fails` a check, `weak`ens an evaluation asset, `leak`s a secret, a `link`). Number 0
is the last checkpoint's.

| state | code |
|---|---|
| `disk`, `writes` | the project folder; how often it was written |
| `changed`, `unverified` | `Workspace.#changed`; the part newer than `#verifiedVersion` |
| `tracked` | `ChangeTracker.#tracked` (fingerprints) |
| `loaded`, `up` | what each service started on; whether it is up |
| `attempts`, `maxAttempts`, `failedServices`, `lastOutcome` | fields of `VerificationGate` |
| `phase` and the rest | locals of one `check` |

The check is `StartCheck` (sync, early return when nothing changed, records), `Scan` (secrets; files that do
not reach the containers), `Restart(s)`/`RestartFails(s)` one service at a time in any order, `Restarted`,
`RetryPlatform` (the whole verification again, once), `Judge`, `Tests`, `Recheck` (the last sync and the
verdict). Between any two of them `OutsideWrite` and `OutsideRevert` change the folder.

A caller of the gate (`Next`) checks whenever it likes until the gate gives up; AgentRun replaces it by the
loop that the program has.

Simplifications: the sync is atomic (a file that changes after its own fingerprint was read counts as changed
after it); contents are fresh, so a file
that is changed and changed back to the same bytes within a check is not seen, the limit gate.ts documents
(#765); before a run nothing pending is a link; a load check that cannot run is a choice of `Tests`. Left out: off services and add-ons, the adoption of newly
declared checks, lazy boot, the document checkpoint and the databases (Session has both). How a page, a
request, a test command or a load run judges what it sees is one verdict per content.

### AgentRun (`loop.ts`, `escalation.ts`, `execute`, `CheckpointStore.commit`)

Extends Gate with the run around it: turns of tool calls and of words, questions to the user, the limit on
turns, retry or exhaustion, promotion of the model with its retry budget (`Promotes`, `Continue`), cancel,
and then what the session does with the result — the scan for secrets, `git add`, the comparison of what is
staged with what was verified, the commit or the revert. `Behind` lets commands write up to the very commit.

### Session (`sessions.ts`, `checkpoints.ts`, `database-branches.ts`)

Code is the set of migrations it contains, documents are one flag, the database is its applied migrations
and a stamp of its rows. A service that restarts applies what its code has and the database lacks, and does
not come up on a database ahead of its code (`Restarted`).

| state | code |
|---|---|
| `status`, `running`, `stopping` | `snapshot.status`, `snapshot.running`, the stop signal |
| `op` | which await of `execute`, `saveCheckpoint`, `revertRun` or `restoreCheckpoint` is pending |
| `boot`, `from`, `newest` | which await of `boot` is pending; `databaseFrom` of a resume; the `checkpoints[0]` it keeps its database for |
| `commits`, `head`, `list` | git; `snapshot.checkpoints` |
| `saved` | a document save has committed this checkpoint and not yet put it on the list |
| `tree`, `touched` | the working copy; whether the run changed a file |
| `db`, `dumps` | the sandbox's database; `DatabaseBranches` |
| `point`, `made`, `kept` | the checkpoint an operation holds (restore point, target, or the HEAD whose log was read), the one just made, changes that could not be put back |

`SaveCheckpoint` = `Save`, `Commit`, `Dump`; `RevertRun` = `Discard`, `RestoreDb`, `DumpDocs`,
`RestartReverted`; `Restore` = `Reset`, `RestoreTo`, `RestartTo` (which ends with the read of `git log`), `ListTo`
(which assigns what was read); `DocsSave` = `DocsCommit`, `DocsListed`; `Boot` = `BootStart`, `BootRestore`,
`BootSave`, `BootRestart`. CheckpointHistory is what a session promises its user of all this: a checkpoint is
made on top of the place where the work stands (`Make`), the work goes back only to one the session shows
(`GoBack`), what comes on the list is of the history it stands on, as it is or as it was when it was read
(`Show`), and a database is kept once for a checkpoint of that history (`Keep`). `Promise` maps `history`, `place`, `shown`, `kept` to `commits`, `head`,
the set of `list`, and `dumps`. A document save begins in any state of a session that is not stopped, at any
await of whatever is in progress, and anything may come between its commit and its entry on the list;
`StopSession` and `Crash` come at any time at all, `ResumeSession` after either. One component's step is not
assumed to wait for another's unless the code does (`running`, `syncing`).

A restore reads git's history and assigns the list at the end of that await (sessions.ts:3563): a document that
was put on the list meanwhile is overwritten, and stays off the list until a restore or a resume reads it again.
TLC finds this in the model, and the code says nowhere that it must not be. `ListMatchesGit` is therefore what is
left: the list names no checkpoint that git's history has not, and lacks at most documents, never a checkpoint
of a run nor one with a dump.

Simplifications: a session on a copy of the project; one document save at a time, none begun in a stopped
session; a revert commits its documents and lists them in one step (`Discard`); a document that is put on the
list after a restore has read it already stands there twice, so the list is compared with git as a set, and its
*order* can come out wrong too, when a document is saved during a dump; a history has fewer than the fifty
checkpoints at which `CheckpointStore.list` cuts it; a stop finishes only when nothing is in progress. The fault
`overtaken` is a restore that takes a document's checkpoint out of the history between its commit and its
entry: the list then names a checkpoint that git's history has not; it is in no run. Left out: the user's own
folder as workspace, commits a terminal agent makes by itself, exports, remote synchronisation, putting a
discarded backup back, deletion, writes of a user through the preview.

### DeployLock, Deployer and PublicRoute (`deploy.ts`, `deploy_plan.rs`)

| state | code |
|---|---|
| `lock`, `at` | `deploy.lock` (who created it, whether it has a number in it); where in `#locked` each process is |
| `pc`, `op`, `rel`, `previous`, `failure`, `mem` | the operation under way, its locals and the state it works on |
| `file` | `state.json` |
| `images`, `up`, `proxy`, `caddyfile`, `route` | docker's side: images, containers, the proxy, the file written for it and what it has loaded |
| `torn`, `withdrawn` | history: a process died, or `remove` began, and nothing was recorded since |

`DeployLock` takes every system call of the lock apart: create the empty file, write the number, read, take
over, unlink; a process may die at each. `Deployer` runs the operations under it: `BeginDeploy`, `Build`,
`Up`, `EnsureProxy`, `WriteCaddyfile`, `Reload`, `Verify`, `Record`, `Drain`, `Retire`, `Save`; each of the
steps up to `Save` may throw (`BuildFails`, `UpFails`, `EnsureProxyFails`, `SwitchFails`, `VerifyFails`, a
second disjunct of the others), with what docker has done of it by then; and on a failure come `Restore`,
`CleanUp`, `Note`; `BeginRollback` joins at `up`; `remove` is `RemoveProxy`, `DownAll`,
`Forget`. The list of records is kept newest first and cut as `trim_records` cuts it. `PublicRoute` is what a
user is promised of the address: it is only switched to a release that runs, and what it points to is not
taken down as long as a release is on record.

`FaultSets` says which faults may come together: `docker` (a command of the switch fails), `cancel` (one is cut
off though it takes effect), `write` (state.json cannot be written), `spawn` (docker cannot be started to take
the old release down), `restart` (docker restarts the proxy), `ports`, `crash`. Requests for the lock come at
any time. `Races` names the two moments at which the lock of the code lets a second process in, hazard at
deploy.ts:486: `unwritten`, the file is read before its number is in it, and `replaced`, it is created anew
between another process's reading and unlinking it. What they leave out is exactly that: a process may still ask,
find the file, read it, take it over and die while any other does.

Simplifications: a release is one set of containers and one of images; the base services and the
ports are outcomes of a step; the network and the certificates are not there; the compose plans and the
status query are left out; while `Races` leaves a moment out, the process that would hit it waits, and where it has
one, two holders of the lock share the one operation of the model: what two deploys at once do to each other's
releases is not modelled, only that there are two.

### TaskPlan (`task-plans.ts`)

One plan, from its request to its deletion, with every activity that may hold it.

| state | code |
|---|---|
| `status`, `lane`, `todo`, `record`, `integ` | the plan's record: status, lanes, tasks left, results of lanes, the integration |
| `listed`, `onDisk` | it is in `plans`; its file exists |
| `pc` | where `execute`, `runApprovedPlan` or `integrate` awaits |
| `board`, `tokens` | the coordination board of S3/S4 plans; who holds a token of it |
| `late`, `leaving`, `loose` | others that will save the plan, sessions a deletion still has to stop, lanes that gave up on a run that goes on |
| `laneBox`, `intBox`, `crashes` | the sessions of lanes and of each integration; restarts so far |

`Carry` is the plan's own activity (plan, lanes, integration, clean up); `Owner` the person (approve, reject,
delete, resume, tokens); `Aside` everything else (sessions closed by hand, late writers, runs that end);
`Restart` reads the records back: what was running has failed or, with every lane done, is interrupted.
The record is written at the end of each step of the code, so what is on disk is what memory says, if it is
there at all (`onDisk`). Simplifications: contracts between lanes, relays, traces, the choice of models and
accounts, issue texts and the parsing of cards are left out; `MaxLanes` never binds with two lanes; errors of
`destroy` that the code swallows do not happen; after a restart the lanes of a failed plan keep the state on
record, as in the code; a person who boots the stopped session of a lane by hand is not modelled.

### TerminalRun (`sessions.ts`)

| state | code |
|---|---|
| `run`, `running`, `stop`, `pending`, `card` | `session.run`, `snapshot.running`, `stop.signal.aborted`, `pendingViolation`, `terminalTaskContext` |
| `runs` | each run: terminal or chat, read only, cancelled, violation, its baseline (`prepared`), attempts, result, over, whether it left a checkpoint |
| `jobs`, `at` | the serial queue of a run, its head in progress, and which await of it is pending |
| `saving`, `printing` | hooks that save what was changed outside, or take the fingerprint of a read only run, before they open one |

The hooks are `StartOpening`/`Saved`/`Printed`/`NotOpened` (`terminalRunForWork`, `beginTerminalRun`),
`ReadOnlyPrompt`, `Tool`, `TurnEnd`, `CliEnd`; everyone else `SendMessage`, `ChatResult`, `ChatEnds`, `Cancel`
(a spent budget too), `Violation`, `StopSession`, `Stopped`. `Work` is the queue: `Finish` up to the first
await of `finishTerminalTurn`, then one action per await (`GitLooked`, `PrintLooked`, `FilesLooked`,
`TestsRan`, `ScopeLooked`, `Verified`/`NotVerified`, `Judged`, `Committed`, `GitLookedAgain`), `Close` for
the other jobs, and `Abandon`/`Reverted`, `Settle`, `Announce` for the ways a run ends. The gate (module
Gate) is its verdict.

Simplifications: the studio's own tools only delay the queue, so they are not jobs; "failed" is "error" as
well; of a closed run only its result is kept; how the CLI's end closes a run is a choice; the limit on turns,
exports, the stall watch and terminals themselves are left out. `Timings` names two bad moments: `opening`,
something that comes between the look at the session and the opening of a read only run, and `card`, a cancel
while the check looks at a card's tests or scope. `terminal` has neither: with `opening` TLC finds
`OneRunAtATime` violated in five steps (hazard at sessions.ts:7693), with `card` see `terminal_cancel`.

### Fleet (`fleets.ts`)

| state | code |
|---|---|
| `member`, `winner`, `listed`, `loaded` | the `FleetView` in memory: status and `runId` of each member, the winner; `fleets`, `fleetStore.loaded` |
| `making` | `createFleet` has members left to create |
| `watched` | the subscriptions (`subscribed`) |
| `file` | the fleet's file, or `Gone` |
| `leaving` | where `deleteFleet` is with each session |
| `box`, `busy`, `count`, `ends`, `fell` | a member's session: status, run in progress, runs so far, the ends of runs and a failed boot in its history |
| `own` | history: which runs carry the fleet's request |

`CreateMember` and `CreateFails` are one turn of createFleet's loop. A session reports within the code that
changes it, so what it does and what `updateMember` makes of it are one action: `Boots` (with `startMember`),
`BootFails`, `RunEnds`, `Stop`, `Remove`. `StartAgain` and `Ask` are what people do with the session.
`chooseFleetWinner`, `deleteFleet`, `LeaveStops`, `LeaveRemoves` are the fleet's other operations. `Restart`
is a new server; `ensureLoaded` happens at the first call of the fleets' interface, later or never, and
replays to each member that is still live what its session holds.

Simplifications: `failed`, `error` and `cancelled` are one status, `over`; a stop is one step; candidates,
costs and the checkpoint shown are left out; the fleet's file can always be written (a write that throws in
`createFleet` leaves a booting member that nobody watches); once the fleet is deleted its sessions are only
cleaned up; a replay takes the history as it was when it began (in the code also the beginning of the run that
the replay itself starts is replayed, which tells the member what it knows already).

## 3. What the runs check

Twelve runs; the "violated" ones state what a doc or comment says and the code does not do (section 5).

| run | instance | shows |
|---|---|---|
| `graph` | three nodes, all relations over them and a missing id, two at a time, two attempts; the search of the validation call by call | `JobsWithinBounds` (no lost wake-up, no job too many); `OrderedNeverStuck` (a list in dependency order never runs dry); `SearchDecides`; `ResultsFinal`; `ImplementsDagResults` (every node gets the result it has earned, after its dependencies); `CallAdvances` (no step leads back); `Settles` |
| `gate` | two files of two services, two writes of any of six kinds, docker failing, services not coming up | `PassIsWhatRan`; `PassedIsSound`; `StaleIsOwed` |
| `agent` | the same with a run of three turns, full or light checks | `CommittedIsWhatRan` |
| `agent_faults` | one file, every fault but flaky services, a promotion after the first failure | `CommittedHasNoSecret`, `BudgetIsKept` (no attempt beyond what was granted, none granted in vain), `RunAdvances` (no step leads back), `RunSettles` |
| `session` | two migrations, four checkpoints, one write of rows; documents whose commit and entry on the list are apart, failing dumps, crashes, platform failures | `SettledIsCheckpoint`, `DumpFitsCode`, `ListMatchesGit` (nothing but documents is ever lost from the list), `KeepsHistory` (the refinement of CheckpointHistory) |
| `deploy` | two processes, three releases, one kept for a rollback, three records; docker failing, crash with a restarting proxy, ports | `MutualExclusion`, `RouteIsServed`, `StateMatchesRoute`, `PreviousIsRestorable`, `RequestEnds`, `KeepsPromise` (the refinement of PublicRoute) |
| `plan` | two lanes of two tasks, every coordination, every late writer, two restarts | `DoneHasEveryLane`, `HoldingsAccounted` (sandboxes within the lanes; neither sandbox nor token outlives what answers for it), `PlanSettles` |
| `terminal` | two runs, two hooks that open one, with and without a card, two attempts, two queued jobs | `OneRunAtATime`, `RefusedNeverCommitted`, `ReachableUnlessSaving`, `DecidedOnce`, `ViolationNotForgotten`, `ClosingUnderWay`, `RefusedCloses` |
| `fleet` | two members, one request of a person, two restarts | `SentOnce`, `WinnerPassed`, `WorkIsUnderWay`, `MembersEnd`, `DeletedForGood` |
| `deploy_cancel` | as `deploy`, the user cancels | `RouteIsServed` violated |
| `plan_delete` | two lanes of one task, one restart | `DeletedStaysDeleted` violated |
| `terminal_cancel` | one run of a card | `RefusedCloses` violated |

The type invariants are proved (section 4). Each property of a passing run has a mutant of a
modelled definition that breaks it (`PROJECT.json`, "mutants").

**Bounds and why they are enough.** Three nodes are the fewest with a node below a node below a node, a
diamond's two arms, and a skip pass in the wrong order; a limit of two makes one node wait for a slot; two
attempts give one retry. In the gate two files of two services separate "this service" from "another one",
and two writes besides the files pending from before let one content be verified, replaced and replaced
again within a check; two attempts give a retry and an exhaustion. A run of three turns has a tool turn, a
failed check and a repaired one. Four checkpoints are the first one, a run's, a document's and one more to go
back past; two migrations let code and database differ in either direction. Three releases with one kept are an active one, one to roll back to
and one to retire, and a list of three records holds them all. The run never cuts
the list; two variants that do were checked besides it: three releases over two records, with every property, where
nothing is left to retire, and four releases over three records, which also retires, without `RequestEnds`, whose check
takes too long there. Neither finds anything, and the safety theorems are about every number of records. Two
processes meet at the lock (a lock alone with three was checked too). Two lanes are a lane and another, two tasks one that is
followed by another, two restarts one before and one after a resume (a variant of three lanes passes too).
Two runs let one begin while another is checked, saved or put back, two hooks meet while they open one, two
attempts are a retry and an exhaustion, two jobs let a closing wait behind a check. Two members of a fleet let
one be created or fail while the other is at work; a request of a person besides the fleet's, and two restarts,
let a session gain a run the fleet must not take for its own, and be read back twice. `MaxWrites`,
`MaxCommits`, `MaxRows`, `MaxDeploys`, `MaxCrashes`, `MaxRuns`, `MaxHooks`, `MaxJobs`, `MaxTasks` and `MaxAsks` bound behaviours, guarded at the actions that spend them; `MaxTurns`, `MaxVerifyAttempts`, `Limit`
and the escalation constants are the program's own parameters.

**Faults.** `Faults` says which failures of the environment a run admits. The absences matter. `session`
leaves out `boot` (a boot that fails and is retried replaces a dump, and `KeepsHistory` does not hold: hazard at
sessions.ts:1876), `load`,
`terminal` and `undone`, under each of which `DumpFitsCode` does not hold, and `overtaken`, under which
`ListMatchesGit` and `KeepsHistory` do not. `agent` leaves out `revert` and
`sync`, under which `CommittedIsWhatRan` does not hold; `agent_faults` has both. `deploy` leaves out `cancel`
(`deploy_cancel`), `write`, `spawn`, and `docker` together with `restart`, under each of which `RouteIsServed` does
not hold, and the two moments of `Races`, with either of which `MutualExclusion` does not hold. `terminal` leaves out the two timings named above; `ClosingUnderWay`, too, needs the absence of `card`. `fleet` leaves out `early` (the fleet is deleted
while it is being created), under which `DeletedForGood` does not hold, and `kill` (a killed server has not yet
saved the run begun last), under which `WorkIsUnderWay` and `MembersEnd` do not hold. Each of these is a hazard in `PROJECT.json`, at
its line. Five definitions are stated beside the checked properties and do not hold: `NeverStuck`
(TaskGraph), `NoSecretPasses` and `PassMeansUp` (Gate), `PlatformFailureKeeps` (AgentRun) and
`RestorePointHasDump` (Session); the hazards say what TLC finds of each.

**Fairness.** `TaskGraph`: weak fairness of the main loop and of each node's settling; the event loop resumes
every woken continuation, and every caller gives `node.run` a time limit. `GraphCall`: also of the
search, a synchronous function. `Deployer`: a process goes on with the operation it has begun and with its
request for the lock, unless it dies; in the code a request never waits, and where it does in the model, because
`Races` leaves its next step out for a moment, strong fairness says that it goes on if it can again and again. `TaskPlan`: the plan's own activity goes on, since its boots and runs
have time limits (20 and 30 minutes) and its other awaits are calls of git, docker and the model that return;
nobody need approve, delete or write anything. `Fleet`: members are created, boots and runs end, by themselves or by a limit of their own; no person
need do anything. `TerminalRun`: the queue of a run or the runner of the chat
goes on, and a baseline is ready or fails; nobody need send a prompt, cancel or end a turn. `AgentRun`: weak fairness of the run's own steps, because model calls, docker
and git end or hit a time limit of their own; none of the commands in the containers, the user's cancel, or
any single outcome. `Gate` and `Session` are checked for safety only.

## 4. What is proved

TLC decides the instances above; TLAPS proves the following for every value of the constants that satisfies
the named assumptions.

**TaskGraphProofs.** For every finite set of nodes, list order, set of relations, limit and cap on attempts:
`TypeCorrect`, `ConcurrencyBounded` and `NoLostWakeup` (together `JobsBounded`), `DependenciesRespected`,
`SkipsCaused`, `OrderedListsNeverStuck`, `ResultsAreFinal`, and `Implements` (`Spec => Results!Spec`).

- The invariant `IInv` adds to the properties: `Validated` (past the validation every dependency is in the
  list), `Started` (which statuses go with an attempt), `Caused` (the cause of a skip is a node of the list)
  and `RejectsOnlyAborted` (a job rejects only after the abort). None of the properties is inductive without
  them: a queued node with attempts, or a dependency outside the list, would break the next scan.
- The bound (`StartsFit`): of the nodes a start pass takes, look at the last in list order. All others come
  before it and are startable, and it was taken because they and the running jobs were fewer than `Limit`.
  This needs places to be different for different nodes, which `PosAssumption` says of a list.
- The list in dependency order (`OrderedScanDecides`): suppose a scan leaves nothing running and a node
  undecided. Take the undecided node with the least place. Its dependencies come before it, so all are
  decided; if one failed or was skipped the skip pass has marked the node, otherwise it was startable, and
  with nothing running the first startable node is started (`StartsSome`): a contradiction either way.
- The refinement maps a scan, a success and a failure to an `Advance` or a `Return`, and all else to a
  stutter; that results are earned (`ResultsEarned`) follows from `DependenciesFirst` and `Caused`.

The second half of the module is about `GraphCall`, for the same constants: `SearchSound` (the search lets
exactly the graphs without a cycle into the main loop), `CallImplements` (a call is a run of `TaskGraph`) and
`CallKeepsPromise` (it keeps the promise of DagResults). The invariant of the search:
the finished nodes are closed under dependencies and contain no cycle (`VisitedClosed`: every nonempty subset of
them has a member without a dependency in it, which stays so when a node is finished after its dependencies,
`ExtendAcyclic`); the stack is a path of unfinished nodes without repetition, so a dependency met on the
stack closes a cycle (`CycleFound`).

That a call ends is liveness, but its safety halves are proved for every graph. `CallAlwaysAdvances`: no step
leads back; each finishes a node of the search, goes deeper, decides it, takes a node of the loop on to its
next attempt or its end, aborts, or moves the loop on, and of each of these there is only so much.
`CallNeverStuck`: until everything is over, the guard of some step holds. It needs a scan always to have a
skip pass, which is not evident, since the marks of a pass depend on each other (`SkipPassDetermined`): the
smallest set of marks that is closed under the pass is one, and of two different ones, look at the first node
in list order in which they differ.

`DependenciesRespected` and `SkipsCaused` are theorems without a property
of a run: there `ImplementsDagResults` covers the results they lead to.

**SessionProofs.** For every finite set of migrations, every bound and every set of faults:
`SessionTypeOK` (HEAD and everything listed are commits that exist). If boots do not fail
(`"boot" \notin Faults`): `SessionDumpsAreKept`. If no restore overtakes a document's checkpoint before it is on
the list (`"overtaken" \notin Faults`): `SessionListMatchesGit`. If neither: `SessionKeepsHistory`
(`Spec => Promise!Spec`). Without `boot`, `load`, `terminal`, `undone` and `overtaken`
(`Repairable`): `SessionSettledIsCheckpoint` and `SessionDumpFitsCode`.

- `Phases` ties the program counters together: a pending operation means `running`, a dump belongs to a
  checkpoint the operation has made, a boot means `starting` — so an operation and a boot are never both past
  their beginning.
- `DumpsAreKept` is about the steps that write a dump. `Unsaved` says of each that the checkpoint it writes
  for has none: the one just made, or, for a boot, the newest on the list when the sandbox had started: nothing was
  dumped yet, or it is a document's, or its dump was looked for and missing. A boot that fails and is
  retried forgets that it was a resume; this is where the assumption on `boot` enters, and
  the hazard at sessions.ts:1876 shows that it is needed.
- The refinement maps a commit to a `Make`, a reset to a `GoBack`, a dump to a `Keep` (to a `Show` if it
  failed and its checkpoint is listed all the same), a list read again from git to a `Show`, and all else to a
  stutter. Documents are committed, and listed, between the choice of a checkpoint and its use; `Attached` says
  that what a dump is written for, or is still to be listed, is in HEAD's history then, that the history a
  restore has read is part of HEAD's, and that what it goes back to is still listed; `Apart`, that the checkpoint a
  document save has still to list is none that a dump is written for.
- That the database belongs to the files (`FitInv`) is a matter of whole histories: a document checkpoint has
  no dump, and above a missing dump a database may lag behind its files. `Fits` says that a dump with a dump
  for everything below it has its checkpoint's migrations, for every checkpoint in the history of HEAD or of a
  listed one (`Reached`; `Ancestors` says what a history is); `BootOrder`, that a boot loads the newest dump of
  HEAD's history, for a checkpoint no older. `HeldByRun`, `HeldByRevert` and `HeldByBoot` say for each await of a run, a revert, a
  restore and a boot what the database holds, if the history it stands on is whole. The steps that write a
  dump write it for a checkpoint that no dumped one is on top of (`MadeIsNew`, `SaveHist`), so that no older
  dump becomes part of a whole history too late.
- `ListMatchesGit` needs the list, with what is made and still to be listed, to lie in HEAD's log and to lack at
  most documents of it at *every* moment outside a stop and the middle of a restore (`InSync`); between the read of
  the log and its assignment the list counts as what was read, so a document put on it meanwhile counts as lost.

**GateProofs.** For every set of files and services, every owner map, kind of content, budget of attempts and
number of writes: `GateTypeOK`, `GateStaleIsOwed`, `GatePassIsWhatRan`, `GatePassedIsSound`. They assume
(`Assumed`) that no command puts a file back to its checkpoint content and that every file reaches the
containers: with `revert` TLC finds the hazard at `change-tracker.ts:62`, with `sync` the one at `gate.ts:1442`. Every other
fault, the load check included, is covered.

- None of the properties is inductive: a pass is judged from what earlier phases left. `NothingForgotten`
  follows a file that its service does not run, through the whole check. It is unverified, or has changed
  since the tracker saw it, or is changed and its service is `Due`: owed a restart in this check, known not to
  be ready, or remembered as failed, according to the phase. A changed file's service that is down is in the
  same position. The final check sees nothing new and no service due, so nothing is left that did not run.
- `Fresh` says that contents are numbered by their writing, so a new content differs from every tracked one;
  this is what the fingerprints of the code stand for, and what a put back file breaks.
- `Found` carries the findings of a check to its verdict: services that are up did not load what crashes,
  the contracts and the tests judged what is loaded, and nothing was restarted since.
- A pass additionally looks at the folder once more (`SyncFacts`): what the tracker holds is then what the
  folder holds, `Records` rules out links and weakened assets, and loaded, folder and report agree.

**AgentRunProofs.** On top of the gate's proof, for any number of turns, with every fault: `RunNoSecret`, and,
if the gate has an attempt at all (`MaxVerifyAttempts > 0`), `RunAttempts` and `RunGoesOnPromoted` (together
`RunKeepsBudget`); with every fault `RunAlwaysAdvances`; on the gate's faults (`Assumed`): `RunTypes` and
`RunCommitsWhatRan`.

- The counts (`CountInv`): a check is only begun with an attempt to spare (`Spare`), and the loop begins one
  only after an exhaustion if a promotion has added some.
- Progress (`ProgressInv`): a lexicographic count. A step writes, of which there are `MaxWrites`; or it leaves
  the contents and takes a change back, begins another turn, comes nearer to the turn's end, or, in a check,
  spends the one retry of a platform failure, moves to a later phase or restarts one of the services due.
  `RunNeverStuck` says that a run not settled has a step; its guards are weak enough that this is a remark.
- Secrets (`SecretInv`): contents are numbered by their writing, so what the commit's scan saw and what git
  staged are the same content or different ones. Nothing else of the gate's proof is needed, and so no fault
  is excluded.
- What ran (`RanInv`): the gate's invariant holds until the run is settled; a pass leaves every reported
  file loaded by its service (`PassLeavesNothing`); from there to the commit only commands write, and what
  they wrote is not what was verified (`Handover`). A light check stops at the restarts, and the same
  argument carries over.

**DeployerProofs.** For any number of processes, releases and records kept. Without any premise: `DeployTypeOK`.
If no process hits one of the two moments of `Races` (`Unraced`), whatever else fails: `DeployMutualExclusion` and
`DeployRequestAdvances`. If moreover (`Assumed`) no command takes effect after its failure, the state can be
written, docker can be started to take a release down, and the proxy does not restart between failing commands:
`DeployRouteIsServed`, `DeployKeepsPromise` (`Spec => Promise!Spec`), `DeployStateMatches` and
`DeployRestorable`. For the lock and for `RouteIsServed` TLC finds a violation without each of these.
`DeployStateMatches` also assumes (`Steady`) that docker does not fail while the proxy loses its ports: otherwise
the proxy is made anew without a route and the command that would give it one fails.

- The types (`TInv`): nothing is known of the lock or of docker here; what carries the proof is that an operation
  works on a release, that a release it may put on record as active is listed, and that the list is cut behind it.
  This includes every write that fails and every step that throws.
- The lock (`LInv`): whoever is past the creation owns the file; a file that is about to be unlinked is owned
  by nobody alive, which is what the two moments break.
- A request's end (`RequestAdvances`): a count of the steps that are left to a request, from `#locked` to the
  end of the operation (`StepsLeft`). Each of its steps lowers the count, no failure sends it back, and no step
  of another request changes it, since an operation runs only for the one that holds the lock (`OneHolder`).
- The address follows the release an operation works on. Until the switch that release is fresh, so nothing
  points to it; after the switch it is either what the address points to, and then it is recorded even by a
  failure, or the address has been put back, and only then may it be cleared away. The list keeps the active
  release however it is cut (`Trimmed`).
- The record and the address (`MInv`): unless a record is broken off, the address is away from it only
  between the switch and the record, and every failure in between either puts it back or records where it is.
- The record and the images (`QInv`): a release being built is on no list, so clearing it away takes nothing
  the record offers; what is retired leaves the list in memory, and between `retire` and `save` only the list
  in memory holds, which is why a process must not die there.

**TaskPlanProofs.** For any number of lanes, tasks, agents and restarts: `PlanTypeOK`,
`PlanDoneHasEveryLane`; `PlanNoStraySandbox`, `PlanTokensEnd` and `PlanSandboxes` (together `PlanHoldings`);
and `PlanWorkHasWorker`, the part of `PlanSettles` that is not about time: nothing is left planning, running or
integrating without an activity that works on it. The invariant ties the status
on record to the activity that works on it (`PInv`), and says which sandboxes run and who knows of them
(`RInv`): lanes change only while the plan runs, when there is no integration yet; the integration's sandbox
comes after the lanes' are down, one attempt per restart. The bound on sandboxes then counts either the lanes'
or one integration's.

**TerminalRunProofs.** For any number of runs, hooks, attempts and jobs: `SpecTypeOK`,
`SpecRefusedNeverCommitted`, `SpecDecidedOnce`, `SpecViolationNotForgotten` whatever comes at a bad moment;
`SpecOneRunAtATime` and `SpecReachableUnlessSaving` if nothing comes between a read only run's fingerprint and
its opening (`"opening" \notin Timings`), which the five steps of TLC show to be needed; `SpecClosingUnderWay`
if no cancel comes while a card is looked at (`"card" \notin Timings`), which `terminal_cancel` shows to be.

- A step of a queue changes the session in one of seven ways, whatever its place in `finishTerminalTurn`
  (`WorkKinds`): this makes one lemma per way instead of one per place and exit.
- `RunInv` says of one run where it may be: at the commit it is off the session, neither cancelled nor in
  violation, which is why a refused run leaves no checkpoint.
- `SessionInv` says that whoever is on the session is in progress, that everything in progress is covered by
  `snapshot.running`, and that a fingerprint is taken only while nothing is. Neither property is inductive
  without it: a chat's request looks at `running` alone, a hook at `run` too.
- `CInv` says that a refused run never waits for its agent: its closing is queued, or its check is at a place
  from which every way leads to the closing. A cancel or a violation either finds no check and queues the
  closing itself, or finds one and leaves it to the check.

**FleetProofs.** For any number of members, requests of people and restarts, with `early` and `kill` too:
`TypeCorrect`, `RequestedOnce`, `WinnersPassed`; without `early`, `DeletedStays`; without `kill`,
`NeverWaitsForNothing` (`WorkIsUnderWay`). The invariant (`Sound`) compares what a member remembers with
what became of its session: a member with a run id has exactly that run, one that still waits to be sent the
request, or is not there yet, has none, and one that is done has an end of its own run in the history. It has
to hold of the file as well as of the memory, since a restart goes back to the file, which `ensureLoaded`
completes only up to the last member that told it something. That a winner stays done needs `Attentive`: only
members still at work are listened to; the same says that a fleet that may be deleted has no listener left.
A member shown at work is at work (`WInv`) because every run that was begun goes on or has its end in the
history (`Recorded`), from which `ensureLoaded` completes what the file says.

**Only model-checked.** Liveness under fairness (`Settles`, `RunSettles`, `RequestEnds`, `PlanSettles`,
`RefusedCloses`, `MembersEnd`): TLAPS has no reasoning about ENABLED here. Its safety halves are proved, as far
as the models let them be stated: that steps only lead on (`CallAdvances`, `RunAdvances`, `RequestAdvances`),
that something is at work on what is waited for (`WorkHasWorker`, `ClosingUnderWay`, `WorkIsUnderWay`), and
that a call is never stuck. What is left to TLC is that fairness turns these into an end. No recursive operator
is used.

## 5. Disagreements between code and docs

Each of the first three is a run in which TLC finds what a sentence of the repository excludes.

1. `deploy_cancel` — deploy.ts:457: a failed release is cleared away because the address was not switched or
   was put back. A cancel during `caddy reload` cuts the command off while it takes effect: the address is on
   the release that is then cleared away.
2. `plan_delete` — task-plans.ts:778: a plan whose sessions still move cannot be deleted. One that is done or
   failed can, also while its activity still stops the lanes' sessions; it is then written again, and the next
   start lists it. Late writers (issues, accounts, the board) bring it back in the same way.
3. `terminal_cancel` — sessions.ts:7724: a cancel during a check makes the check close the run. With a task's
   card the check may return feedback without a look at the signal: the run stays on the session, cancelled
   and open to nobody, and the session takes no request until it is stopped.

The others were found by TLC too, on instances which are no runs of their own; each is in the note of a hazard
in `PROJECT.json`.

4. task-graph.ts:57 — docs/architecture.md:117: the work below a failed node is recorded as skipped. On a list
   not in dependency order a failure two levels up leaves a node neither skipped nor startable, and the call
   throws (`NeverStuck`). No caller submits such a list; `OrderedListsNeverStuck` proves the rest.
5. verify.ts:106 — a check refuses a file for a secret; the next one, nothing changed, does not scan the file
   again and passes (`NoSecretPasses`). The commit's own scan still refuses the checkpoint.
6. change-tracker.ts:62 — docs/decisions.md:5802, "commit = what the gate verified". The tracker forgets a file
   that leaves the list of pending files, so an edit taken back while the tests run is not reported
   (`CommittedIsWhatRan` with `revert`).
7. sessions.ts:2386 — gate.ts:548 treats a load check that could not run as a platform failure; the session
   looks for one in the report of the restarts only, and reverts the run (`PlatformFailureKeeps`).
8. sessions.ts:3164 — 3157 fixes the database's restore point to a checkpoint "that really has a dump"; after a
   saved document the newest checkpoint has none (`RestorePointHasDump`).
9. sessions.ts:1876 — a resumed session whose boot failed is booted again without `resumed`: the empty database
   of the new sandbox replaces HEAD's dump (`KeepsHistory` with `boot`).
10. sessions.ts:7693 — 7676 says that nothing is awaited between the look at the session and the opening of the
   run; a read only run awaits its fingerprint there (`OneRunAtATime` with `opening`).
11. deploy.ts:486 — 480 says that one project is not deployed from two places at once; the file is created before
   its number is in it, and unlinked by name, so a second process can get in (`MutualExclusion` with `Races`).

One more race of the code contradicts no sentence of it: a document saved while a restore reads git's history
(sessions.ts:3563) is in git but not on the list; see Session in section 2.

## 6. What is not modelled, and the plan

`PROJECT.json` gives the reason per component. In short: the sandbox provider, proxies, pseudo terminals and
runners are I/O, and enter the models through their outcomes; requirements, specification, policy, prompts
and the native guard are pure functions over text; accounts, usage and routing are tables. The following
have protocols of their own and come next.

| module | models | abstract specification | properties |
|---|---|---|---|
| `Board` | posts and reads of lanes with the limits | — | budgets hold under any order; a duplicate never counts twice; topology is respected |
| `HostGit` | commits by a terminal agent, `realignGit`, remote synchronisation, on Session's history | — | the list follows git whoever commits |

Of the modelled components these operations are left out: off services, add-ons and newly declared checks
(Gate); lazy boot, steering and usage (AgentRun); the user's own folder, exports, remote synchronisation,
backups and deletion (Session); the contents of compose plans (Deployer); contracts, relays and accounts
(TaskPlan); validation of candidates, cost and failing writes of its file (Fleet); limits on turns, stalls and exports (TerminalRun).

## 7. Running the checks

```
tlc -workers 2 -config TaskGraph.cfg MCTaskGraph     # and so on, see "runs" in PROJECT.json
tlapm TaskGraphProofs.tla                            # and every other *Proofs module
```

`gate` and `agent` have 7.5 and 8.3 million states and take a few minutes, `session` has 8.8 million
and takes three, `terminal` 0.48 million with a liveness property that takes two minutes; the others have less
than 0.7 million. The proofs take a few minutes each, SessionProofs and TaskGraphProofs the longest.
