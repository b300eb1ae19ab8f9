------------------------------ MODULE TaskPlan ------------------------------
(***************************************************************************)
(* One task plan of apps/studio/lib/server/task-plans.ts: a request split  *)
(* into lanes, each run in a session of its own, and integrated into one   *)
(* more session when all of them have passed.                              *)
(*                                                                         *)
(* Everything between two awaits is one step.  The record of the plan is   *)
(* written to disk at the end of each such step, so what is on disk is the *)
(* plan as the server knows it, if it is there at all (onDisk).  A restart *)
(* of the server ends every activity and reads the record back.            *)
(***************************************************************************)
EXTENDS Naturals, FiniteSets

CONSTANTS
  Lane,         \* the lanes of the plan (planLanes)
  Agent,        \* agents outside the plan that may ask for a token of its board
  MaxTasks,     \* bound: tasks of a lane, done one after the other
  MaxLanes,     \* PLAN_LIMITS.maxLanes
  MaxCrashes,   \* bound: restarts of the server
  Strategies,   \* the ways lanes may be coordinated
  LateWrites    \* activities besides the plan's own that save it

ASSUME LanesAssumption == IsFiniteSet(Lane) /\ Lane # {}
ASSUME NumbersAssumption == MaxTasks \in Nat \ {0} /\ MaxLanes \in Nat \ {0} /\ MaxCrashes \in Nat
ASSUME ChoicesAssumption ==
  /\ Strategies \subseteq {"none", "S3", "S4"}
  /\ LateWrites \subseteq {"issues", "account", "board"}

\* Only a restart makes a second integration possible: its session is named
\* after the number of restarts before it.
Attempt == 1 .. MaxCrashes + 1
None == 0

VARIABLES
  cards, strategy,  \* how the plan was made: never changed
  \* the record: the plan, its lanes, its integration
  status, lane, todo, record, integ,
  \* the server's memory
  listed,   \* the plan is in `plans`
  board, tokens,
  pc,       \* where its activity (execute, runApprovedPlan, integrate) awaits
  leaving,  \* sessions a delete still has to stop and delete
  late,     \* activities under way that hold the plan
  loose,    \* lanes that gave up on a run that goes on in their session
  \* what outlives the server
  onDisk, crashes, laneBox, intBox

made == <<cards, strategy>>
recordVars == <<status, lane, todo, record, integ>>
memoryVars == <<listed, board, tokens, pc, leaving, late, loose>>
vars == <<made, recordVars, memoryVars, onDisk, crashes, laneBox, intBox>>

Statuses == {"planning", "awaiting_approval", "rejected", "running", "integrating",
             "done", "failed", "interrupted"}
InProgress == {"planning", "running", "integrating"}
Ended == {"done", "failed", "rejected"}   \* BOARD_TOKEN_BLOCKED_STATUSES
LaneStatuses == {"queued", "booting", "running", "done", "failed", "skipped"}
\* A session has none yet, is up, stopped with its record kept, or deleted.
Box == {"none", "up", "stopped", "gone"}
Integrating == {"read", "clear", "create", "boot", "merge", "repair"}
NoSessions == [lanes |-> {}, ints |-> {}]

TypeOK ==
  /\ cards \in BOOLEAN /\ strategy \in Strategies
  /\ status \in Statuses
  /\ lane \in [Lane -> LaneStatuses] /\ todo \in [Lane -> 0 .. MaxTasks]
  /\ record \subseteq Lane
  /\ integ \in [attempt : Attempt \cup {None},
                state : {"none", "booting", "running", "done", "failed"}, from : SUBSET Lane]
  /\ listed \in BOOLEAN /\ board \in BOOLEAN /\ tokens \subseteq Agent
  /\ pc \in {"idle", "plan", "lanes", "cleanup"} \cup Integrating
  /\ leaving \in [lanes : SUBSET Lane, ints : SUBSET Attempt]
  /\ late \subseteq LateWrites /\ loose \subseteq Lane
  /\ onDisk \in BOOLEAN /\ crashes \in 0 .. MaxCrashes
  /\ laneBox \in [Lane -> Box] /\ intBox \in [Attempt -> Box]
  /\ \A l \in Lane : lane[l] \in {"queued", "skipped"} => laneBox[l] = "none"

\* createTaskPlan: the plan is in the list and on disk before anything is asked.
Init ==
  /\ cards \in BOOLEAN /\ strategy \in Strategies
  /\ status = "planning"
  /\ lane = [l \in Lane |-> "queued"] /\ todo = [l \in Lane |-> MaxTasks]
  /\ record = {}
  /\ integ = [attempt |-> None, state |-> "none", from |-> {}]
  /\ listed = TRUE /\ board = (strategy # "none") /\ tokens = {}
  /\ pc = "plan" /\ leaving = NoSessions /\ late = {} /\ loose = {}
  /\ onDisk = TRUE /\ crashes = 0
  /\ laneBox = [l \in Lane |-> "none"] /\ intBox = [a \in Attempt |-> "none"]

-----------------------------------------------------------------------------
(* Steps the activities share.                                             *)

Persist == onDisk' = TRUE

\* The plan fails, and what has not begun is skipped.
Fail ==
  /\ status' = "failed"
  /\ lane' = [l \in Lane |-> IF lane[l] = "queued" THEN "skipped" ELSE lane[l]]
  /\ tokens' = {}
  /\ Persist

Approved == status' = "running" /\ pc' = "lanes"

\* integrate begins: the integration on record is replaced by a new one.
Integrate ==
  /\ status' = "integrating" /\ pc' = "read"
  /\ integ' = [attempt |-> None, state |-> "booting", from |-> {}]
  /\ Persist

-----------------------------------------------------------------------------
(* Planning and what the owner decides.                                    *)

\* The lanes are there: cards are approved by being run, a model's plan waits.
Plan ==
  /\ pc = "plan"
  /\ \/ cards /\ Approved
     \/ ~cards /\ status' = "awaiting_approval" /\ pc' = "idle"
  /\ Persist
  /\ UNCHANGED <<made, lane, todo, record, integ, listed, board, tokens, leaving, late, loose,
                 crashes, laneBox, intBox>>

PlanFails ==
  /\ pc = "plan"
  /\ Fail
  /\ pc' = "idle"
  /\ UNCHANGED <<made, todo, record, integ, listed, board, leaving, late, loose, crashes, laneBox, intBox>>

Approve(publishIssues) ==
  /\ listed /\ status = "awaiting_approval"
  /\ Approved
  /\ late' = IF publishIssues THEN late \cup ({"issues"} \cap LateWrites) ELSE late
  /\ Persist
  /\ UNCHANGED <<made, lane, todo, record, integ, listed, board, tokens, leaving, loose, crashes, laneBox, intBox>>

Reject ==
  /\ listed /\ status = "awaiting_approval"
  /\ status' = "rejected"
  /\ tokens' = {}
  /\ Persist
  /\ UNCHANGED <<made, lane, todo, record, integ, listed, board, pc, leaving, late, loose, crashes, laneBox, intBox>>

\* setLaneAccount waits for the account to be found and looks at the status again.
SetLaneAccount ==
  /\ listed /\ status = "awaiting_approval"
  /\ "account" \in LateWrites \ late
  /\ late' = late \cup {"account"}
  /\ UNCHANGED <<made, recordVars, listed, board, tokens, pc, leaving, loose, onDisk, crashes, laneBox, intBox>>

AccountFound ==
  /\ "account" \in late
  /\ late' = late \ {"account"}
  /\ onDisk' = (onDisk \/ status = "awaiting_approval")
  /\ UNCHANGED <<made, recordVars, listed, board, tokens, pc, leaving, loose, crashes, laneBox, intBox>>

\* publishPlanIssues saves the plan after each issue, and at its end.
PublishIssue(more) ==
  /\ "issues" \in late
  /\ late' = IF more THEN late ELSE late \ {"issues"}
  /\ Persist
  /\ UNCHANGED <<made, recordVars, listed, board, tokens, pc, leaving, loose, crashes, laneBox, intBox>>

MintToken(a) ==
  /\ listed /\ board /\ status \notin Ended
  /\ a \notin tokens
  /\ tokens' = tokens \cup {a}
  /\ Persist
  /\ UNCHANGED <<made, recordVars, listed, board, pc, leaving, late, loose, crashes, laneBox, intBox>>

RevokeToken(a) ==
  /\ listed /\ a \in tokens
  /\ tokens' = tokens \ {a}
  /\ Persist
  /\ UNCHANGED <<made, recordVars, listed, board, pc, leaving, late, loose, crashes, laneBox, intBox>>

-----------------------------------------------------------------------------
(* The lanes: runTaskGraph over nodes without dependencies.                *)

Under(l) == lane[l] \in {"booting", "running"}

LaneUnchanged == UNCHANGED <<made, status, integ, listed, board, tokens, pc, leaving, late, crashes, intBox>>

StartLane(l) ==
  /\ pc = "lanes" /\ lane[l] = "queued"
  /\ Cardinality({k \in Lane : Under(k)}) < MaxLanes
  /\ lane' = [lane EXCEPT ![l] = "booting"]
  /\ Persist
  /\ LaneUnchanged /\ UNCHANGED <<todo, record, loose, laneBox>>

CreateLaneSession(l) ==
  /\ lane[l] = "booting" /\ laneBox[l] = "none" /\ pc = "lanes"
  /\ laneBox' = [laneBox EXCEPT ![l] = "up"]
  /\ Persist
  /\ LaneUnchanged /\ UNCHANGED <<lane, todo, record, loose>>

\* The session is ready and the first task is sent.
LaneReady(l) ==
  /\ lane[l] = "booting" /\ laneBox[l] = "up" /\ pc = "lanes"
  /\ lane' = [lane EXCEPT ![l] = "running"]
  /\ Persist
  /\ LaneUnchanged /\ UNCHANGED <<todo, record, loose, laneBox>>

\* A task is done: the next one needs the session, the last one leaves the
\* record the integration reads, if the session is still known.
TaskDone(l) ==
  /\ lane[l] = "running" /\ pc = "lanes"
  /\ todo' = [todo EXCEPT ![l] = @ - 1]
  /\ \/ todo[l] > 1 /\ laneBox[l] = "up" /\ UNCHANGED <<lane, record>>
     \/ todo[l] > 1 /\ laneBox[l] # "up" /\ lane' = [lane EXCEPT ![l] = "failed"] /\ UNCHANGED record
     \/ /\ todo[l] = 1 /\ lane' = [lane EXCEPT ![l] = "done"]
        /\ record' = IF laneBox[l] = "gone" THEN record ELSE record \cup {l}
  /\ Persist
  /\ LaneUnchanged /\ UNCHANGED <<loose, laneBox>>

\* Mutant of LaneFails: waiting for a session does not notice that it stopped.
LaneFailsWhileUp(l, timeout) ==
  /\ Under(l) /\ pc = "lanes" /\ laneBox[l] = "up"
  /\ lane' = [lane EXCEPT ![l] = "failed"]
  /\ loose' = IF timeout THEN loose \cup {l} ELSE loose
  /\ Persist
  /\ LaneUnchanged /\ UNCHANGED <<todo, record, laneBox>>

\* No session, no readiness, a task that does not pass, or no answer in time:
\* the run then goes on in the session.
LaneFails(l, timeout) ==
  /\ Under(l) /\ pc = "lanes"
  /\ timeout => lane[l] = "running" /\ laneBox[l] = "up"
  /\ lane' = [lane EXCEPT ![l] = "failed"]
  /\ loose' = IF timeout THEN loose \cup {l} ELSE loose
  /\ Persist
  /\ LaneUnchanged /\ UNCHANGED <<todo, record, laneBox>>

\* A lane's run writes to the board, which saves the plan (onChange).
BoardPost(l) ==
  /\ "board" \in LateWrites /\ strategy = "S3"
  /\ laneBox[l] = "up" /\ (l \in loose \/ (lane[l] = "running" /\ pc = "lanes"))
  /\ Persist
  /\ UNCHANGED <<made, recordVars, memoryVars, crashes, laneBox, intBox>>

LooseEnds(l) ==
  /\ l \in loose
  /\ loose' = loose \ {l}
  /\ UNCHANGED <<made, recordVars, listed, board, tokens, pc, leaving, late, onDisk, crashes, laneBox, intBox>>

LanesOver ==
  /\ pc = "lanes"
  /\ \A l \in Lane : lane[l] \in {"done", "failed"}
  /\ \/ /\ \E l \in Lane : lane[l] = "failed"
        /\ Fail /\ pc' = "idle"
        /\ UNCHANGED integ
     \/ /\ \A l \in Lane : lane[l] = "done"
        /\ Integrate
        /\ UNCHANGED <<lane, tokens>>
  /\ UNCHANGED <<made, todo, record, listed, board, leaving, late, loose, crashes, laneBox, intBox>>
-----------------------------------------------------------------------------
(* Integration: the lanes' results written once more, in a new session.    *)

IntegrationUnchanged ==
  UNCHANGED <<made, todo, record, listed, board, leaving, late, loose, crashes, laneBox>>

\* Mutant of ReadLane: a lane without a record counts as one without changes.
ReadLaneLoosely(l) ==
  /\ pc = "read"
  /\ l \in Lane \ integ.from
  /\ integ' = [integ EXCEPT !.from = @ \cup {l}]
  /\ UNCHANGED <<status, lane, tokens, pc, onDisk, intBox>> /\ IntegrationUnchanged

\* What a lane changed is read at its last checkpoint, which needs the record
\* of the lane and the folder of its session.
ReadLane(l) ==
  /\ pc = "read"
  /\ l \in record \ integ.from /\ laneBox[l] # "gone"
  /\ integ' = [integ EXCEPT !.from = @ \cup {l}]
  /\ UNCHANGED <<status, lane, tokens, pc, onDisk, intBox>> /\ IntegrationUnchanged

ReadAll ==
  /\ pc = "read" /\ integ.from = Lane
  /\ pc' = "clear"
  /\ UNCHANGED <<status, lane, tokens, integ, onDisk, intBox>> /\ IntegrationUnchanged

\* stopLaneSessions, before the integration's sandbox and at the end.
StopLaneSession(l) ==
  /\ pc \in {"clear", "cleanup"} /\ laneBox[l] = "up"
  /\ laneBox' = [laneBox EXCEPT ![l] = "stopped"]
  /\ loose' = loose \ {l}
  /\ UNCHANGED <<made, recordVars, listed, board, tokens, pc, leaving, late, onDisk, crashes, intBox>>

LanesStopped == \A l \in Lane : laneBox[l] # "up"

\* Mutant of Cleared: the stop of the lanes' sessions is not awaited.
ClearedAtOnce ==
  /\ pc = "clear"
  /\ pc' = "create"
  /\ UNCHANGED <<status, lane, tokens, integ, onDisk, intBox>> /\ IntegrationUnchanged

Cleared ==
  /\ pc = "clear" /\ LanesStopped
  /\ pc' = "create"
  /\ UNCHANGED <<status, lane, tokens, integ, onDisk, intBox>> /\ IntegrationUnchanged

CreateIntegration ==
  /\ pc = "create"
  /\ integ' = [integ EXCEPT !.attempt = crashes + 1]
  /\ intBox' = [intBox EXCEPT ![crashes + 1] = "up"]
  /\ pc' = "boot"
  /\ Persist
  /\ UNCHANGED <<status, lane, tokens>> /\ IntegrationUnchanged

IntegrationReady ==
  /\ pc = "boot" /\ intBox[integ.attempt] = "up"
  /\ integ' = [integ EXCEPT !.state = "running"]
  /\ pc' = "merge"
  /\ Persist
  /\ UNCHANGED <<status, lane, tokens, intBox>> /\ IntegrationUnchanged

\* S4: the model gets one try at the merged files that failed the gate.
Repair ==
  /\ pc = "merge" /\ strategy = "S4" /\ intBox[integ.attempt] = "up"
  /\ pc' = "repair"
  /\ UNCHANGED <<status, lane, tokens, integ, onDisk, intBox>> /\ IntegrationUnchanged

Merged ==
  /\ pc \in {"merge", "repair"}
  /\ status' = "done"
  /\ integ' = [integ EXCEPT !.state = "done"]
  /\ pc' = "cleanup"
  /\ Persist
  /\ UNCHANGED <<lane, tokens, intBox>> /\ IntegrationUnchanged

\* Nothing to read or to write, files out of scope, no session, a gate that
\* fails, no answer in time.
IntegrationFails ==
  /\ pc \in Integrating \ {"clear"}
  /\ integ' = [integ EXCEPT !.state = "failed"]
  /\ Fail
  /\ pc' = "cleanup"
  /\ UNCHANGED intBox /\ IntegrationUnchanged

\* Mutant of CleanedUp: the tokens are left to fail().
CleanedUpQuietly ==
  /\ pc = "cleanup" /\ LanesStopped
  /\ pc' = "idle"
  /\ Persist
  /\ UNCHANGED <<status, lane, tokens, integ, intBox>> /\ IntegrationUnchanged

\* The end of integrate: tokens are revoked and the plan is saved, whatever
\* happened to it while the lanes' sessions were being stopped.
CleanedUp ==
  /\ pc = "cleanup" /\ LanesStopped
  /\ tokens' = {}
  /\ pc' = "idle"
  /\ Persist
  /\ UNCHANGED <<status, lane, integ, intBox>> /\ IntegrationUnchanged

Resume ==
  /\ listed /\ status = "interrupted"
  /\ Integrate
  /\ UNCHANGED <<lane, tokens, intBox>> /\ IntegrationUnchanged

-----------------------------------------------------------------------------
(* Deletion, the sessions' own life, and a restart of the server.          *)

\* Mutant of DeleteTaskPlan: the session of the integration is not removed.
DeleteLanesOnly ==
  /\ listed /\ status \notin InProgress
  /\ listed' = FALSE /\ board' = FALSE /\ tokens' = {} /\ onDisk' = FALSE
  /\ leaving' = [lanes |-> {l \in Lane : laneBox[l] # "none"}, ints |-> {}]
  /\ UNCHANGED <<made, recordVars, pc, late, loose, crashes, laneBox, intBox>>

DeleteTaskPlan ==
  /\ listed /\ status \notin InProgress
  /\ listed' = FALSE /\ board' = FALSE /\ tokens' = {} /\ onDisk' = FALSE
  /\ leaving' = [lanes |-> {l \in Lane : laneBox[l] # "none"}, ints |-> {integ.attempt} \ {None}]
  /\ UNCHANGED <<made, recordVars, pc, late, loose, crashes, laneBox, intBox>>

DeleteLaneSession(l) ==
  /\ l \in leaving.lanes
  /\ leaving' = [leaving EXCEPT !.lanes = @ \ {l}]
  /\ laneBox' = [laneBox EXCEPT ![l] = "gone"]
  /\ loose' = loose \ {l}
  /\ UNCHANGED <<made, recordVars, listed, board, tokens, pc, late, onDisk, crashes, intBox>>

DeleteIntegration(a) ==
  /\ a \in leaving.ints
  /\ leaving' = [leaving EXCEPT !.ints = @ \ {a}]
  /\ intBox' = [intBox EXCEPT ![a] = "gone"]
  /\ UNCHANGED <<made, recordVars, listed, board, tokens, pc, late, loose, onDisk, crashes, laneBox>>

\* A person stops or deletes a session by itself.
CloseLaneSession(l) ==
  /\ \/ laneBox[l] = "up" /\ laneBox' = [laneBox EXCEPT ![l] = "stopped"]
     \/ laneBox[l] = "stopped" /\ laneBox' = [laneBox EXCEPT ![l] = "gone"]
  /\ loose' = loose \ {l}
  /\ UNCHANGED <<made, recordVars, listed, board, tokens, pc, leaving, late, onDisk, crashes, intBox>>

CloseIntegration(a) ==
  /\ \/ intBox[a] = "up" /\ intBox' = [intBox EXCEPT ![a] = "stopped"]
     \/ intBox[a] = "stopped" /\ intBox' = [intBox EXCEPT ![a] = "gone"]
  /\ UNCHANGED <<made, recordVars, memoryVars, onDisk, crashes, laneBox>>

\* ensureLoaded: what a plan found in progress becomes.
Reloaded ==
  IF status \notin InProgress THEN status
  ELSE IF (\A l \in Lane : lane[l] = "done") /\ integ.state # "done" /\ record = Lane
       THEN "interrupted" ELSE "failed"

Halt(box) == IF box = "up" THEN "stopped" ELSE box

Restart ==
  /\ crashes < MaxCrashes /\ crashes' = crashes + 1
  /\ listed' = onDisk
  /\ status' = IF onDisk THEN Reloaded ELSE status
  /\ board' = FALSE /\ tokens' = {} /\ pc' = "idle"
  /\ leaving' = NoSessions /\ late' = {} /\ loose' = {}
  /\ laneBox' = [l \in Lane |-> Halt(laneBox[l])]
  /\ intBox' = [a \in Attempt |-> Halt(intBox[a])]
  /\ UNCHANGED <<made, lane, todo, record, integ, onDisk>>

-----------------------------------------------------------------------------
\* The activity that carries the plan on.
LaneStep(l) ==
  StartLane(l) \/ CreateLaneSession(l) \/ LaneReady(l) \/ TaskDone(l) \/ \E t \in BOOLEAN : LaneFails(l, t)

IntegrationStep ==
  \/ \E l \in Lane : ReadLane(l) \/ StopLaneSession(l)
  \/ ReadAll \/ Cleared \/ CreateIntegration \/ IntegrationReady
  \/ Repair \/ Merged \/ IntegrationFails \/ CleanedUp

Carry == Plan \/ PlanFails \/ (\E l \in Lane : LaneStep(l)) \/ LanesOver \/ IntegrationStep

Owner ==
  \/ \E publish \in BOOLEAN : Approve(publish)
  \/ Reject \/ SetLaneAccount \/ Resume \/ DeleteTaskPlan
  \/ \E a \in Agent : MintToken(a) \/ RevokeToken(a)
  \/ \E l \in Lane : CloseLaneSession(l)
  \/ \E a \in Attempt : CloseIntegration(a)

Aside ==
  \/ AccountFound
  \/ \E more \in BOOLEAN : PublishIssue(more)
  \/ \E l \in Lane : BoardPost(l) \/ LooseEnds(l) \/ DeleteLaneSession(l)
  \/ \E a \in Attempt : DeleteIntegration(a)

Next == Carry \/ Owner \/ Aside \/ Restart

Spec == Init /\ [][Next]_vars

\* Every await of the plan's activity ends: the boot and the runs have time
\* limits, the rest are calls to git, docker and the model that return.
FairSpec == Spec /\ WF_vars(Carry)

-----------------------------------------------------------------------------
(* Properties.                                                             *)

\* "All lanes pass the gate before the integration": a plan that is done has
\* integrated the recorded results of every lane, each with all of its tasks,
\* also when the integration was taken up again after a restart.
DoneHasEveryLane ==
  status = "done" =>
    /\ integ.from = Lane /\ record = Lane
    /\ \A l \in Lane : lane[l] = "done" /\ todo[l] = 0

\* The comment before stopLaneSessions in integrate: no more sandboxes run at
\* a time than the plan has lanes.
SandboxesWithinLanes ==
  Cardinality({l \in Lane : laneBox[l] = "up"}) + Cardinality({a \in Attempt : intBox[a] = "up"})
    <= Cardinality(Lane)

\* No sandbox runs that is neither on the record of a listed plan nor about to
\* be removed by the deletion of its plan.
NoStraySandbox ==
  /\ \A l \in Lane : laneBox[l] = "up" => listed \/ l \in leaving.lanes
  /\ \A a \in Attempt :
       intBox[a] = "up" => (listed /\ integ.attempt = a) \/ a \in leaving.ints

\* revokeAllBoardTokens: no agent outside the plan can reach its board once
\* the plan has ended, is deleted, or was reloaded.
TokensEndWithPlan ==
  tokens # {} => listed /\ board /\ (status \notin Ended \/ pc = "cleanup")

\* What runs for a plan is accounted for: no more sandboxes than it has lanes,
\* and neither a sandbox nor a token outlives what answers for it, the record
\* that lists it or the deletion that is still at work.
HoldingsAccounted == SandboxesWithinLanes /\ NoStraySandbox /\ TokensEndWithPlan

\* Nothing is left planning, running or integrating without an activity of the
\* server that works on it.
WorkHasWorker == pc = "idle" => status \notin InProgress

\* What the plan awaits ends, and with it the plan's activity, which leaves no
\* work behind.
PlanSettles ==
  /\ pc # "idle" ~> pc = "idle"
  /\ []WorkHasWorker

\* deleteTaskPlan: a plan that was deleted never comes back to the list.
DeletedStaysDeleted == [][listed' => listed]_vars
=============================================================================
