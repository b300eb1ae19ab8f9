--------------------------- MODULE TaskPlanProofs ---------------------------
(***************************************************************************)
(* A task plan for any number of lanes, tasks, tokens and restarts: what   *)
(* is integrated, how many sandboxes run, and what a deletion leaves.      *)
(*                                                                         *)
(* The argument ties the status on record to the activity that works on    *)
(* it.  Lanes change only while the plan runs, when there is no integration*)
(* yet; the integration gets its sandbox only after the lanes' are down,   *)
(* and at most one attempt has been made since the last restart.           *)
(***************************************************************************)
EXTENDS TaskPlan, FiniteSetTheorems, TLAPS

Merging == {"boot", "merge", "repair"}

\* What is integrated, lane by lane.
PInv ==
  /\ pc = "plan" => status = "planning"
  /\ pc = "lanes" => status = "running"
  /\ pc \in Integrating => status = "integrating" /\ \A l \in Lane : lane[l] = "done"
  /\ pc = "cleanup" => status \in {"done", "failed"}
  /\ pc = "idle" => status \notin InProgress
  /\ status \in InProgress => listed
  /\ listed => onDisk
  /\ status = "interrupted" => \A l \in Lane : lane[l] = "done"
  /\ \A l \in Lane : lane[l] = "done" => todo[l] = 0
  /\ \A l \in Lane : lane[l] \in {"queued", "booting", "running"} => todo[l] # 0
  /\ integ.from \subseteq record
  /\ pc \in {"clear", "create"} \cup Merging => integ.from = Lane
  /\ DoneHasEveryLane

\* Until the integration is created none of its sandboxes is up.
Before == pc \in {"read", "clear", "create"}
          \/ status \in {"planning", "awaiting_approval", "running", "interrupted"}

\* Which sandboxes run, and who knows of them.
RInv ==
  /\ Before => \A a \in Attempt : intBox[a] # "up"
  /\ pc \in {"create"} \cup Merging => LanesStopped
  /\ \A a \in Attempt : intBox[a] = "up" => a = crashes + 1 /\ LanesStopped
  /\ NoStraySandbox
  /\ \A l \in leaving.lanes : laneBox[l] # "none"
  /\ listed => leaving.lanes = {} /\ leaving.ints = {}
  /\ TokensEndWithPlan

IInv == TypeOK /\ PInv /\ RInv

\* Fields of the integration and of the sessions to delete.
LEMMA IntegFacts ==
  ASSUME TypeOK
  PROVE  /\ integ.attempt \in Attempt \cup {None} /\ integ.from \subseteq Lane
         /\ integ.state \in {"none", "booting", "running", "done", "failed"}
         /\ leaving.lanes \subseteq Lane /\ leaving.ints \subseteq Attempt
         /\ crashes + 1 \in Attempt
BY NumbersAssumption DEF TypeOK, Attempt

LEMMA InitInv == Init => IInv
BY LanesAssumption, NumbersAssumption
DEF Init, IInv, TypeOK, PInv, RInv, Before, Merging, Integrating, InProgress, Ended, Statuses,
    LaneStatuses, Box, NoSessions, DoneHasEveryLane, LanesStopped, NoStraySandbox, TokensEndWithPlan, Attempt, None

LEMMA PlanInv == ASSUME IInv, Plan PROVE IInv'
<1>1. TypeOK'
  BY IntegFacts, NumbersAssumption
  DEF IInv, TypeOK, PInv, Plan, Approved, Persist, made,
      Statuses, LaneStatuses, Box, Integrating
<1>2. PInv'
  BY IntegFacts, LanesAssumption
  DEF IInv, TypeOK, PInv, Plan, Approved, Persist, made,
      Integrating, Merging, InProgress, DoneHasEveryLane, Statuses
<1>3. RInv'
  BY IntegFacts
  DEF IInv, TypeOK, PInv, RInv, Plan, Approved, Persist, made,
      Before, Integrating, Merging, InProgress, Ended, LanesStopped, NoStraySandbox, TokensEndWithPlan, Box, None
<1> QED
  BY <1>1, <1>2, <1>3 DEF IInv

LEMMA PlanFailsInv == ASSUME IInv, PlanFails PROVE IInv'
<1>1. TypeOK'
  BY IntegFacts, NumbersAssumption
  DEF IInv, TypeOK, PInv, PlanFails, Fail, Persist, made,
      Statuses, LaneStatuses, Box, Integrating
<1>2. PInv'
  BY IntegFacts, LanesAssumption
  DEF IInv, TypeOK, PInv, PlanFails, Fail, Persist, made,
      Integrating, Merging, InProgress, DoneHasEveryLane, Statuses
<1>3. RInv'
  BY IntegFacts
  DEF IInv, TypeOK, PInv, RInv, PlanFails, Fail, Persist, made,
      Before, Integrating, Merging, InProgress, Ended, LanesStopped, NoStraySandbox, TokensEndWithPlan, Box, None
<1> QED
  BY <1>1, <1>2, <1>3 DEF IInv

LEMMA ApproveInv == ASSUME IInv, NEW publish \in BOOLEAN, Approve(publish) PROVE IInv'
<1>1. TypeOK'
  BY IntegFacts, NumbersAssumption
  DEF IInv, TypeOK, PInv, Approve, Approved, Persist, made,
      Statuses, LaneStatuses, Box, Integrating
<1>2. PInv'
  BY IntegFacts, LanesAssumption
  DEF IInv, TypeOK, PInv, Approve, Approved, Persist, made,
      Integrating, Merging, InProgress, DoneHasEveryLane, Statuses
<1>3. RInv'
  BY IntegFacts
  DEF IInv, TypeOK, PInv, RInv, Approve, Approved, Persist, made,
      Before, Integrating, Merging, InProgress, Ended, LanesStopped, NoStraySandbox, TokensEndWithPlan, Box, None
<1> QED
  BY <1>1, <1>2, <1>3 DEF IInv

LEMMA RejectInv == ASSUME IInv, Reject PROVE IInv'
<1>1. TypeOK'
  BY IntegFacts, NumbersAssumption
  DEF IInv, TypeOK, PInv, Reject, Persist, made,
      Statuses, LaneStatuses, Box, Integrating
<1>2. PInv'
  BY IntegFacts, LanesAssumption
  DEF IInv, TypeOK, PInv, Reject, Persist, made,
      Integrating, Merging, InProgress, DoneHasEveryLane, Statuses
<1>3. RInv'
  BY IntegFacts
  DEF IInv, TypeOK, PInv, RInv, Reject, Persist, made,
      Before, Integrating, Merging, InProgress, Ended, LanesStopped, NoStraySandbox, TokensEndWithPlan, Box, None
<1> QED
  BY <1>1, <1>2, <1>3 DEF IInv

LEMMA SetLaneAccountInv == ASSUME IInv, SetLaneAccount PROVE IInv'
<1>1. TypeOK'
  BY IntegFacts, NumbersAssumption
  DEF IInv, TypeOK, PInv, SetLaneAccount, recordVars, made,
      Statuses, LaneStatuses, Box, Integrating
<1>2. PInv'
  BY IntegFacts, LanesAssumption
  DEF IInv, TypeOK, PInv, SetLaneAccount, recordVars, made,
      Integrating, Merging, InProgress, DoneHasEveryLane, Statuses
<1>3. RInv'
  BY IntegFacts
  DEF IInv, TypeOK, PInv, RInv, SetLaneAccount, recordVars, made,
      Before, Integrating, Merging, InProgress, Ended, LanesStopped, NoStraySandbox, TokensEndWithPlan, Box, None
<1> QED
  BY <1>1, <1>2, <1>3 DEF IInv

LEMMA AccountFoundInv == ASSUME IInv, AccountFound PROVE IInv'
<1>1. TypeOK'
  BY IntegFacts, NumbersAssumption
  DEF IInv, TypeOK, PInv, AccountFound, recordVars, made,
      Statuses, LaneStatuses, Box, Integrating
<1>2. PInv'
  BY IntegFacts, LanesAssumption
  DEF IInv, TypeOK, PInv, AccountFound, recordVars, made,
      Integrating, Merging, InProgress, DoneHasEveryLane, Statuses
<1>3. RInv'
  BY IntegFacts
  DEF IInv, TypeOK, PInv, RInv, AccountFound, recordVars, made,
      Before, Integrating, Merging, InProgress, Ended, LanesStopped, NoStraySandbox, TokensEndWithPlan, Box, None
<1> QED
  BY <1>1, <1>2, <1>3 DEF IInv

LEMMA PublishIssueInv == ASSUME IInv, NEW more \in BOOLEAN, PublishIssue(more) PROVE IInv'
<1>1. TypeOK'
  BY IntegFacts, NumbersAssumption
  DEF IInv, TypeOK, PInv, PublishIssue, Persist, recordVars, made,
      Statuses, LaneStatuses, Box, Integrating
<1>2. PInv'
  BY IntegFacts, LanesAssumption
  DEF IInv, TypeOK, PInv, PublishIssue, Persist, recordVars, made,
      Integrating, Merging, InProgress, DoneHasEveryLane, Statuses
<1>3. RInv'
  BY IntegFacts
  DEF IInv, TypeOK, PInv, RInv, PublishIssue, Persist, recordVars, made,
      Before, Integrating, Merging, InProgress, Ended, LanesStopped, NoStraySandbox, TokensEndWithPlan, Box, None
<1> QED
  BY <1>1, <1>2, <1>3 DEF IInv

LEMMA MintTokenInv == ASSUME IInv, NEW g \in Agent, MintToken(g) PROVE IInv'
<1>1. TypeOK'
  BY IntegFacts, NumbersAssumption
  DEF IInv, TypeOK, PInv, MintToken, Persist, recordVars, made,
      Statuses, LaneStatuses, Box, Integrating
<1>2. PInv'
  BY IntegFacts, LanesAssumption
  DEF IInv, TypeOK, PInv, MintToken, Persist, recordVars, made,
      Integrating, Merging, InProgress, DoneHasEveryLane, Statuses
<1>3. RInv'
  BY IntegFacts
  DEF IInv, TypeOK, PInv, RInv, MintToken, Persist, recordVars, made,
      Before, Integrating, Merging, InProgress, Ended, LanesStopped, NoStraySandbox, TokensEndWithPlan, Box, None
<1> QED
  BY <1>1, <1>2, <1>3 DEF IInv

LEMMA RevokeTokenInv == ASSUME IInv, NEW g \in Agent, RevokeToken(g) PROVE IInv'
<1>1. TypeOK'
  BY IntegFacts, NumbersAssumption
  DEF IInv, TypeOK, PInv, RevokeToken, Persist, recordVars, made,
      Statuses, LaneStatuses, Box, Integrating
<1>2. PInv'
  BY IntegFacts, LanesAssumption
  DEF IInv, TypeOK, PInv, RevokeToken, Persist, recordVars, made,
      Integrating, Merging, InProgress, DoneHasEveryLane, Statuses
<1>3. RInv'
  BY IntegFacts
  DEF IInv, TypeOK, PInv, RInv, RevokeToken, Persist, recordVars, made,
      Before, Integrating, Merging, InProgress, Ended, LanesStopped, NoStraySandbox, TokensEndWithPlan, Box, None
<1> QED
  BY <1>1, <1>2, <1>3 DEF IInv

LEMMA StartLaneInv == ASSUME IInv, NEW k \in Lane, StartLane(k) PROVE IInv'
<1>1. TypeOK'
  BY IntegFacts, NumbersAssumption
  DEF IInv, TypeOK, PInv, StartLane, Persist, LaneUnchanged, made,
      Statuses, LaneStatuses, Box, Integrating
<1>2. PInv'
  BY IntegFacts, LanesAssumption
  DEF IInv, TypeOK, PInv, StartLane, Persist, LaneUnchanged, made,
      Integrating, Merging, InProgress, DoneHasEveryLane, Statuses
<1>3. RInv'
  BY IntegFacts
  DEF IInv, TypeOK, PInv, RInv, StartLane, Persist, LaneUnchanged, made,
      Before, Integrating, Merging, InProgress, Ended, LanesStopped, NoStraySandbox, TokensEndWithPlan, Box, None
<1> QED
  BY <1>1, <1>2, <1>3 DEF IInv

LEMMA CreateLaneSessionInv == ASSUME IInv, NEW k \in Lane, CreateLaneSession(k) PROVE IInv'
<1>1. TypeOK'
  BY IntegFacts, NumbersAssumption
  DEF IInv, TypeOK, PInv, CreateLaneSession, Persist, LaneUnchanged, made,
      Statuses, LaneStatuses, Box, Integrating
<1>2. PInv'
  BY IntegFacts, LanesAssumption
  DEF IInv, TypeOK, PInv, CreateLaneSession, Persist, LaneUnchanged, made,
      Integrating, Merging, InProgress, DoneHasEveryLane, Statuses
<1>3. RInv'
  BY IntegFacts
  DEF IInv, TypeOK, PInv, RInv, CreateLaneSession, Persist, LaneUnchanged, made,
      Before, Integrating, Merging, InProgress, Ended, LanesStopped, NoStraySandbox, TokensEndWithPlan, Box, None
<1> QED
  BY <1>1, <1>2, <1>3 DEF IInv

LEMMA LaneReadyInv == ASSUME IInv, NEW k \in Lane, LaneReady(k) PROVE IInv'
<1>1. TypeOK'
  BY IntegFacts, NumbersAssumption
  DEF IInv, TypeOK, PInv, LaneReady, Persist, LaneUnchanged, made,
      Statuses, LaneStatuses, Box, Integrating
<1>2. PInv'
  BY IntegFacts, LanesAssumption
  DEF IInv, TypeOK, PInv, LaneReady, Persist, LaneUnchanged, made,
      Integrating, Merging, InProgress, DoneHasEveryLane, Statuses
<1>3. RInv'
  BY IntegFacts
  DEF IInv, TypeOK, PInv, RInv, LaneReady, Persist, LaneUnchanged, made,
      Before, Integrating, Merging, InProgress, Ended, LanesStopped, NoStraySandbox, TokensEndWithPlan, Box, None
<1> QED
  BY <1>1, <1>2, <1>3 DEF IInv

LEMMA TaskDoneInv == ASSUME IInv, NEW k \in Lane, TaskDone(k) PROVE IInv'
<1>1. TypeOK'
  BY IntegFacts, NumbersAssumption
  DEF IInv, TypeOK, PInv, TaskDone, Persist, LaneUnchanged, made,
      Statuses, LaneStatuses, Box, Integrating
<1>2. PInv'
  BY IntegFacts, LanesAssumption
  DEF IInv, TypeOK, PInv, TaskDone, Persist, LaneUnchanged, made,
      Integrating, Merging, InProgress, DoneHasEveryLane, Statuses
<1>3. RInv'
  BY IntegFacts
  DEF IInv, TypeOK, PInv, RInv, TaskDone, Persist, LaneUnchanged, made,
      Before, Integrating, Merging, InProgress, Ended, LanesStopped, NoStraySandbox, TokensEndWithPlan, Box, None
<1> QED
  BY <1>1, <1>2, <1>3 DEF IInv

LEMMA LaneFailsInv == ASSUME IInv, NEW k \in Lane, NEW t \in BOOLEAN, LaneFails(k, t) PROVE IInv'
<1>1. TypeOK'
  BY IntegFacts, NumbersAssumption
  DEF IInv, TypeOK, PInv, LaneFails, Persist, LaneUnchanged, Under, made,
      Statuses, LaneStatuses, Box, Integrating
<1>2. PInv'
  BY IntegFacts, LanesAssumption
  DEF IInv, TypeOK, PInv, LaneFails, Persist, LaneUnchanged, Under, made,
      Integrating, Merging, InProgress, DoneHasEveryLane, Statuses
<1>3. RInv'
  BY IntegFacts
  DEF IInv, TypeOK, PInv, RInv, LaneFails, Persist, LaneUnchanged, Under, made,
      Before, Integrating, Merging, InProgress, Ended, LanesStopped, NoStraySandbox, TokensEndWithPlan, Box, None
<1> QED
  BY <1>1, <1>2, <1>3 DEF IInv

LEMMA BoardPostInv == ASSUME IInv, NEW k \in Lane, BoardPost(k) PROVE IInv'
<1>1. TypeOK'
  BY IntegFacts, NumbersAssumption
  DEF IInv, TypeOK, PInv, BoardPost, Persist, recordVars, memoryVars, made,
      Statuses, LaneStatuses, Box, Integrating
<1>2. PInv'
  BY IntegFacts, LanesAssumption
  DEF IInv, TypeOK, PInv, BoardPost, Persist, recordVars, memoryVars, made,
      Integrating, Merging, InProgress, DoneHasEveryLane, Statuses
<1>3. RInv'
  BY IntegFacts
  DEF IInv, TypeOK, PInv, RInv, BoardPost, Persist, recordVars, memoryVars, made,
      Before, Integrating, Merging, InProgress, Ended, LanesStopped, NoStraySandbox, TokensEndWithPlan, Box, None
<1> QED
  BY <1>1, <1>2, <1>3 DEF IInv

LEMMA LooseEndsInv == ASSUME IInv, NEW k \in Lane, LooseEnds(k) PROVE IInv'
<1>1. TypeOK'
  BY IntegFacts, NumbersAssumption
  DEF IInv, TypeOK, PInv, LooseEnds, recordVars, made,
      Statuses, LaneStatuses, Box, Integrating
<1>2. PInv'
  BY IntegFacts, LanesAssumption
  DEF IInv, TypeOK, PInv, LooseEnds, recordVars, made,
      Integrating, Merging, InProgress, DoneHasEveryLane, Statuses
<1>3. RInv'
  BY IntegFacts
  DEF IInv, TypeOK, PInv, RInv, LooseEnds, recordVars, made,
      Before, Integrating, Merging, InProgress, Ended, LanesStopped, NoStraySandbox, TokensEndWithPlan, Box, None
<1> QED
  BY <1>1, <1>2, <1>3 DEF IInv

LEMMA LanesOverInv == ASSUME IInv, LanesOver PROVE IInv'
<1>1. TypeOK'
  <2>1. CASE \E l \in Lane : lane[l] = "failed"
    BY <2>1, IntegFacts DEF IInv, TypeOK, LanesOver, Fail, Persist, made, Statuses, LaneStatuses
  <2>2. CASE ~ \E l \in Lane : lane[l] = "failed"
    <3>1. integ' = [attempt |-> None, state |-> "booting", from |-> {}] /\ lane' = lane
      BY <2>2 DEF LanesOver, Integrate
    <3> QED
      BY <2>2, <3>1 DEF IInv, TypeOK, LanesOver, Integrate, Persist, made, Statuses, Integrating
  <2> QED
    BY <2>1, <2>2
<1>2. PInv'
  BY IntegFacts, LanesAssumption
  DEF IInv, TypeOK, PInv, LanesOver, Persist, Fail, Integrate, made,
      Integrating, Merging, InProgress, DoneHasEveryLane, Statuses
<1>3. RInv'
  BY IntegFacts
  DEF IInv, TypeOK, PInv, RInv, LanesOver, Persist, Fail, Integrate, made,
      Before, Integrating, Merging, InProgress, Ended, LanesStopped, NoStraySandbox, TokensEndWithPlan, Box, None
<1> QED
  BY <1>1, <1>2, <1>3 DEF IInv

LEMMA ReadLaneInv == ASSUME IInv, NEW k \in Lane, ReadLane(k) PROVE IInv'
<1>1. TypeOK'
  BY IntegFacts, NumbersAssumption
  DEF IInv, TypeOK, PInv, ReadLane, IntegrationUnchanged, made,
      Statuses, LaneStatuses, Box, Integrating
<1>2. PInv'
  BY IntegFacts, LanesAssumption
  DEF IInv, TypeOK, PInv, ReadLane, IntegrationUnchanged, made,
      Integrating, Merging, InProgress, DoneHasEveryLane, Statuses
<1>3. RInv'
  BY IntegFacts
  DEF IInv, TypeOK, PInv, RInv, ReadLane, IntegrationUnchanged, made,
      Before, Integrating, Merging, InProgress, Ended, LanesStopped, NoStraySandbox, TokensEndWithPlan, Box, None
<1> QED
  BY <1>1, <1>2, <1>3 DEF IInv

LEMMA ReadAllInv == ASSUME IInv, ReadAll PROVE IInv'
<1>1. TypeOK'
  BY IntegFacts, NumbersAssumption
  DEF IInv, TypeOK, PInv, ReadAll, IntegrationUnchanged, made,
      Statuses, LaneStatuses, Box, Integrating
<1>2. PInv'
  BY IntegFacts, LanesAssumption
  DEF IInv, TypeOK, PInv, ReadAll, IntegrationUnchanged, made,
      Integrating, Merging, InProgress, DoneHasEveryLane, Statuses
<1>3. RInv'
  BY IntegFacts
  DEF IInv, TypeOK, PInv, RInv, ReadAll, IntegrationUnchanged, made,
      Before, Integrating, Merging, InProgress, Ended, LanesStopped, NoStraySandbox, TokensEndWithPlan, Box, None
<1> QED
  BY <1>1, <1>2, <1>3 DEF IInv

LEMMA StopLaneSessionInv == ASSUME IInv, NEW k \in Lane, StopLaneSession(k) PROVE IInv'
<1>1. TypeOK'
  BY IntegFacts, NumbersAssumption
  DEF IInv, TypeOK, PInv, StopLaneSession, recordVars, made,
      Statuses, LaneStatuses, Box, Integrating
<1>2. PInv'
  BY IntegFacts, LanesAssumption
  DEF IInv, TypeOK, PInv, StopLaneSession, recordVars, made,
      Integrating, Merging, InProgress, DoneHasEveryLane, Statuses
<1>3. RInv'
  BY IntegFacts
  DEF IInv, TypeOK, PInv, RInv, StopLaneSession, recordVars, made,
      Before, Integrating, Merging, InProgress, Ended, LanesStopped, NoStraySandbox, TokensEndWithPlan, Box, None
<1> QED
  BY <1>1, <1>2, <1>3 DEF IInv

LEMMA ClearedInv == ASSUME IInv, Cleared PROVE IInv'
<1>1. TypeOK'
  BY IntegFacts, NumbersAssumption
  DEF IInv, TypeOK, PInv, Cleared, IntegrationUnchanged, made,
      Statuses, LaneStatuses, Box, Integrating
<1>2. PInv'
  BY IntegFacts, LanesAssumption
  DEF IInv, TypeOK, PInv, Cleared, IntegrationUnchanged, made,
      Integrating, Merging, InProgress, DoneHasEveryLane, Statuses
<1>3. RInv'
  BY IntegFacts
  DEF IInv, TypeOK, PInv, RInv, Cleared, IntegrationUnchanged, made,
      Before, Integrating, Merging, InProgress, Ended, LanesStopped, NoStraySandbox, TokensEndWithPlan, Box, None
<1> QED
  BY <1>1, <1>2, <1>3 DEF IInv

LEMMA CreateIntegrationInv == ASSUME IInv, CreateIntegration PROVE IInv'
<1>1. TypeOK'
  BY IntegFacts, NumbersAssumption
  DEF IInv, TypeOK, PInv, CreateIntegration, Persist, IntegrationUnchanged, made,
      Statuses, LaneStatuses, Box, Integrating
<1>2. PInv'
  BY IntegFacts, LanesAssumption
  DEF IInv, TypeOK, PInv, CreateIntegration, Persist, IntegrationUnchanged, made,
      Integrating, Merging, InProgress, DoneHasEveryLane, Statuses
<1>3. RInv'
  BY IntegFacts
  DEF IInv, TypeOK, PInv, RInv, CreateIntegration, Persist, IntegrationUnchanged, made,
      Before, Integrating, Merging, InProgress, Ended, LanesStopped, NoStraySandbox, TokensEndWithPlan, Box, None
<1> QED
  BY <1>1, <1>2, <1>3 DEF IInv

LEMMA IntegrationReadyInv == ASSUME IInv, IntegrationReady PROVE IInv'
<1>1. TypeOK'
  BY IntegFacts, NumbersAssumption
  DEF IInv, TypeOK, PInv, IntegrationReady, Persist, IntegrationUnchanged, made,
      Statuses, LaneStatuses, Box, Integrating
<1>2. PInv'
  BY IntegFacts, LanesAssumption
  DEF IInv, TypeOK, PInv, IntegrationReady, Persist, IntegrationUnchanged, made,
      Integrating, Merging, InProgress, DoneHasEveryLane, Statuses
<1>3. RInv'
  BY IntegFacts
  DEF IInv, TypeOK, PInv, RInv, IntegrationReady, Persist, IntegrationUnchanged, made,
      Before, Integrating, Merging, InProgress, Ended, LanesStopped, NoStraySandbox, TokensEndWithPlan, Box, None
<1> QED
  BY <1>1, <1>2, <1>3 DEF IInv

LEMMA RepairInv == ASSUME IInv, Repair PROVE IInv'
<1>1. TypeOK'
  BY IntegFacts, NumbersAssumption
  DEF IInv, TypeOK, PInv, Repair, IntegrationUnchanged, made,
      Statuses, LaneStatuses, Box, Integrating
<1>2. PInv'
  BY IntegFacts, LanesAssumption
  DEF IInv, TypeOK, PInv, Repair, IntegrationUnchanged, made,
      Integrating, Merging, InProgress, DoneHasEveryLane, Statuses
<1>3. RInv'
  BY IntegFacts
  DEF IInv, TypeOK, PInv, RInv, Repair, IntegrationUnchanged, made,
      Before, Integrating, Merging, InProgress, Ended, LanesStopped, NoStraySandbox, TokensEndWithPlan, Box, None
<1> QED
  BY <1>1, <1>2, <1>3 DEF IInv

LEMMA MergedInv == ASSUME IInv, Merged PROVE IInv'
<1>1. TypeOK'
  BY IntegFacts, NumbersAssumption
  DEF IInv, TypeOK, PInv, Merged, Persist, IntegrationUnchanged, made,
      Statuses, LaneStatuses, Box, Integrating
<1>2. PInv'
  BY IntegFacts, LanesAssumption
  DEF IInv, TypeOK, PInv, Merged, Persist, IntegrationUnchanged, made,
      Integrating, Merging, InProgress, DoneHasEveryLane, Statuses
<1>3. RInv'
  BY IntegFacts
  DEF IInv, TypeOK, PInv, RInv, Merged, Persist, IntegrationUnchanged, made,
      Before, Integrating, Merging, InProgress, Ended, LanesStopped, NoStraySandbox, TokensEndWithPlan, Box, None
<1> QED
  BY <1>1, <1>2, <1>3 DEF IInv

LEMMA IntegrationFailsInv == ASSUME IInv, IntegrationFails PROVE IInv'
<1>1. TypeOK'
  BY IntegFacts, NumbersAssumption
  DEF IInv, TypeOK, PInv, IntegrationFails, Fail, Persist, IntegrationUnchanged, made,
      Statuses, LaneStatuses, Box, Integrating
<1>2. PInv'
  BY IntegFacts, LanesAssumption
  DEF IInv, TypeOK, PInv, IntegrationFails, Fail, Persist, IntegrationUnchanged, made,
      Integrating, Merging, InProgress, DoneHasEveryLane, Statuses
<1>3. RInv'
  BY IntegFacts
  DEF IInv, TypeOK, PInv, RInv, IntegrationFails, Fail, Persist, IntegrationUnchanged, made,
      Before, Integrating, Merging, InProgress, Ended, LanesStopped, NoStraySandbox, TokensEndWithPlan, Box, None
<1> QED
  BY <1>1, <1>2, <1>3 DEF IInv

LEMMA CleanedUpInv == ASSUME IInv, CleanedUp PROVE IInv'
<1>1. TypeOK'
  BY IntegFacts, NumbersAssumption
  DEF IInv, TypeOK, PInv, CleanedUp, Persist, IntegrationUnchanged, made,
      Statuses, LaneStatuses, Box, Integrating
<1>2. PInv'
  BY IntegFacts, LanesAssumption
  DEF IInv, TypeOK, PInv, CleanedUp, Persist, IntegrationUnchanged, made,
      Integrating, Merging, InProgress, DoneHasEveryLane, Statuses
<1>3. RInv'
  BY IntegFacts
  DEF IInv, TypeOK, PInv, RInv, CleanedUp, Persist, IntegrationUnchanged, made,
      Before, Integrating, Merging, InProgress, Ended, LanesStopped, NoStraySandbox, TokensEndWithPlan, Box, None
<1> QED
  BY <1>1, <1>2, <1>3 DEF IInv

LEMMA ResumeInv == ASSUME IInv, Resume PROVE IInv'
<1>1. TypeOK'
  BY IntegFacts, NumbersAssumption
  DEF IInv, TypeOK, PInv, Resume, Integrate, Persist, IntegrationUnchanged, made,
      Statuses, LaneStatuses, Box, Integrating
<1>2. PInv'
  BY IntegFacts, LanesAssumption
  DEF IInv, TypeOK, PInv, Resume, Integrate, Persist, IntegrationUnchanged, made,
      Integrating, Merging, InProgress, DoneHasEveryLane, Statuses
<1>3. RInv'
  BY IntegFacts
  DEF IInv, TypeOK, PInv, RInv, Resume, Integrate, Persist, IntegrationUnchanged, made,
      Before, Integrating, Merging, InProgress, Ended, LanesStopped, NoStraySandbox, TokensEndWithPlan, Box, None
<1> QED
  BY <1>1, <1>2, <1>3 DEF IInv

LEMMA DeleteTaskPlanInv == ASSUME IInv, DeleteTaskPlan PROVE IInv'
<1>1. TypeOK'
  BY IntegFacts, NumbersAssumption
  DEF IInv, TypeOK, PInv, DeleteTaskPlan, recordVars, made,
      Statuses, LaneStatuses, Box, Integrating
<1>2. PInv'
  BY IntegFacts, LanesAssumption
  DEF IInv, TypeOK, PInv, DeleteTaskPlan, recordVars, made,
      Integrating, Merging, InProgress, DoneHasEveryLane, Statuses
<1>3. RInv'
  <2>1. /\ leaving'.lanes = {l \in Lane : laneBox[l] # "none"}
        /\ leaving'.ints = {integ.attempt} \ {None}
    BY DEF DeleteTaskPlan
  <2>2. \A a \in Attempt : intBox[a] = "up" => integ.attempt = a
    BY DEF IInv, RInv, NoStraySandbox, DeleteTaskPlan
  <2> QED
    BY <2>1, <2>2, IntegFacts
    DEF IInv, TypeOK, RInv, DeleteTaskPlan, recordVars, Before, LanesStopped, NoStraySandbox, TokensEndWithPlan, None, Attempt
<1> QED
  BY <1>1, <1>2, <1>3 DEF IInv

LEMMA DeleteLaneSessionInv == ASSUME IInv, NEW k \in Lane, DeleteLaneSession(k) PROVE IInv'
<1>1. TypeOK'
  BY IntegFacts, NumbersAssumption
  DEF IInv, TypeOK, PInv, RInv, DeleteLaneSession, recordVars, made,
      Statuses, LaneStatuses, Box, Integrating
<1>2. PInv'
  BY IntegFacts, LanesAssumption
  DEF IInv, TypeOK, PInv, DeleteLaneSession, recordVars, made,
      Integrating, Merging, InProgress, DoneHasEveryLane, Statuses
<1>3. RInv'
  BY IntegFacts
  DEF IInv, TypeOK, PInv, RInv, DeleteLaneSession, recordVars, made,
      Before, Integrating, Merging, InProgress, Ended, LanesStopped, NoStraySandbox, TokensEndWithPlan, Box, None
<1> QED
  BY <1>1, <1>2, <1>3 DEF IInv

LEMMA DeleteIntegrationInv == ASSUME IInv, NEW e \in Attempt, DeleteIntegration(e) PROVE IInv'
<1>1. TypeOK'
  BY IntegFacts, NumbersAssumption
  DEF IInv, TypeOK, PInv, DeleteIntegration, recordVars, made,
      Statuses, LaneStatuses, Box, Integrating
<1>2. PInv'
  BY IntegFacts, LanesAssumption
  DEF IInv, TypeOK, PInv, DeleteIntegration, recordVars, made,
      Integrating, Merging, InProgress, DoneHasEveryLane, Statuses
<1>3. RInv'
  BY IntegFacts
  DEF IInv, TypeOK, PInv, RInv, DeleteIntegration, recordVars, made,
      Before, Integrating, Merging, InProgress, Ended, LanesStopped, NoStraySandbox, TokensEndWithPlan, Box, None
<1> QED
  BY <1>1, <1>2, <1>3 DEF IInv

LEMMA CloseLaneSessionInv == ASSUME IInv, NEW k \in Lane, CloseLaneSession(k) PROVE IInv'
<1>1. TypeOK'
  BY IntegFacts, NumbersAssumption
  DEF IInv, TypeOK, PInv, CloseLaneSession, recordVars, made,
      Statuses, LaneStatuses, Box, Integrating
<1>2. PInv'
  BY IntegFacts, LanesAssumption
  DEF IInv, TypeOK, PInv, CloseLaneSession, recordVars, made,
      Integrating, Merging, InProgress, DoneHasEveryLane, Statuses
<1>3. RInv'
  BY IntegFacts
  DEF IInv, TypeOK, PInv, RInv, CloseLaneSession, recordVars, made,
      Before, Integrating, Merging, InProgress, Ended, LanesStopped, NoStraySandbox, TokensEndWithPlan, Box, None
<1> QED
  BY <1>1, <1>2, <1>3 DEF IInv

LEMMA CloseIntegrationInv == ASSUME IInv, NEW e \in Attempt, CloseIntegration(e) PROVE IInv'
<1>1. TypeOK'
  BY IntegFacts, NumbersAssumption
  DEF IInv, TypeOK, PInv, CloseIntegration, recordVars, memoryVars, made,
      Statuses, LaneStatuses, Box, Integrating
<1>2. PInv'
  BY IntegFacts, LanesAssumption
  DEF IInv, TypeOK, PInv, CloseIntegration, recordVars, memoryVars, made,
      Integrating, Merging, InProgress, DoneHasEveryLane, Statuses
<1>3. RInv'
  BY IntegFacts
  DEF IInv, TypeOK, PInv, RInv, CloseIntegration, recordVars, memoryVars, made,
      Before, Integrating, Merging, InProgress, Ended, LanesStopped, NoStraySandbox, TokensEndWithPlan, Box, None
<1> QED
  BY <1>1, <1>2, <1>3 DEF IInv

LEMMA RestartInv == ASSUME IInv, Restart PROVE IInv'
<1>1. TypeOK'
  <2>1. leaving' = [lanes |-> {}, ints |-> {}] /\ crashes' \in 0 .. MaxCrashes
    BY NumbersAssumption DEF IInv, TypeOK, Restart, NoSessions
  <2>2. /\ laneBox' \in [Lane -> Box] /\ intBox' \in [Attempt -> Box]
        /\ \A l \in Lane : laneBox[l] = "none" => laneBox'[l] = "none"
    BY DEF IInv, TypeOK, Restart, Halt, Box
  <2>3. status' \in Statuses
    BY DEF IInv, TypeOK, Restart, Reloaded, Statuses
  <2>4. \A l \in Lane : lane'[l] \in {"queued", "skipped"} => laneBox'[l] = "none"
    BY <2>2 DEF IInv, TypeOK, Restart
  <2>5. leaving' \in [lanes : SUBSET Lane, ints : SUBSET Attempt]
    BY <2>1
  <2>6. /\ listed' \in BOOLEAN /\ board' \in BOOLEAN /\ tokens' \subseteq Agent /\ pc' = "idle"
        /\ late' \subseteq LateWrites /\ loose' \subseteq Lane
        /\ UNCHANGED <<cards, strategy, lane, todo, record, integ, onDisk>>
    BY DEF IInv, TypeOK, Restart, made
  <2> QED
    BY <2>1, <2>2, <2>3, <2>4, <2>5, <2>6 DEF IInv, TypeOK
<1>2. PInv'
  BY IntegFacts, LanesAssumption
  DEF IInv, TypeOK, PInv, Restart, Reloaded, Halt, NoSessions, made,
      Integrating, Merging, InProgress, DoneHasEveryLane, Statuses
<1>3. RInv'
  BY IntegFacts
  DEF IInv, TypeOK, PInv, RInv, Restart, Reloaded, Halt, NoSessions, made,
      Before, Integrating, Merging, InProgress, Ended, LanesStopped, NoStraySandbox, TokensEndWithPlan, Box, None
<1> QED
  BY <1>1, <1>2, <1>3 DEF IInv

LEMMA StutterInv == ASSUME IInv, UNCHANGED vars PROVE IInv'
BY DEF IInv, TypeOK, PInv, RInv, vars, made, recordVars, memoryVars, Before, LanesStopped,
       DoneHasEveryLane, NoStraySandbox, TokensEndWithPlan

LEMMA CarryInv == ASSUME IInv, Carry PROVE IInv'
<1>1. CASE \E l \in Lane : LaneStep(l)
  BY <1>1, StartLaneInv, CreateLaneSessionInv, LaneReadyInv, TaskDoneInv, LaneFailsInv DEF LaneStep
<1>2. CASE IntegrationStep
  BY <1>2, ReadLaneInv, StopLaneSessionInv, ReadAllInv, ClearedInv, CreateIntegrationInv,
     IntegrationReadyInv, RepairInv, MergedInv, IntegrationFailsInv, CleanedUpInv DEF IntegrationStep
<1> QED
  BY <1>1, <1>2, PlanInv, PlanFailsInv, LanesOverInv DEF Carry

LEMMA OwnerInv == ASSUME IInv, Owner PROVE IInv'
BY ApproveInv, RejectInv, SetLaneAccountInv, ResumeInv, DeleteTaskPlanInv, MintTokenInv,
   RevokeTokenInv, CloseLaneSessionInv, CloseIntegrationInv DEF Owner

LEMMA AsideInv == ASSUME IInv, Aside PROVE IInv'
BY AccountFoundInv, PublishIssueInv, BoardPostInv, LooseEndsInv, DeleteLaneSessionInv,
   DeleteIntegrationInv DEF Aside

LEMMA SpecIInv == Spec => []IInv
<1>1. IInv /\ [Next]_vars => IInv'
  BY CarryInv, OwnerInv, AsideInv, RestartInv, StutterInv DEF Next
<1> QED
  BY InitInv, <1>1, PTL DEF Spec

\* The variables of a plan keep their types, and a lane that has not begun
\* has no session, whatever the owner, the sessions and the restarts do.
THEOREM PlanTypeOK == Spec => []TypeOK
<1>1. IInv => TypeOK
  BY DEF IInv
<1> QED
  BY <1>1, SpecIInv, PTL

\* A plan that is done has integrated the results of all of its lanes.
THEOREM PlanDoneHasEveryLane == Spec => []DoneHasEveryLane
<1>1. IInv => DoneHasEveryLane
  BY DEF IInv, PInv
<1> QED
  BY <1>1, SpecIInv, PTL

\* Every sandbox that runs is on the record of a listed plan or about to go.
THEOREM PlanNoStraySandbox == Spec => []NoStraySandbox
<1>1. IInv => NoStraySandbox
  BY DEF IInv, RInv
<1> QED
  BY <1>1, SpecIInv, PTL

\* No agent outside the plan reaches the board of a plan that has ended.
THEOREM PlanTokensEnd == Spec => []TokensEndWithPlan
<1>1. IInv => TokensEndWithPlan
  BY DEF IInv, RInv
<1> QED
  BY <1>1, SpecIInv, PTL

LEMMA UpWithinLanes == ASSUME IInv PROVE SandboxesWithinLanes
<1> DEFINE UpLanes == {l \in Lane : laneBox[l] = "up"}
           UpInts == {a \in Attempt : intBox[a] = "up"}
<1>1. IsFiniteSet(Lane) /\ Cardinality(Lane) \in Nat /\ Cardinality(Lane) >= 1
  <2>1. IsFiniteSet(Lane) /\ Cardinality(Lane) \in Nat
    BY LanesAssumption, FS_CardinalityType
  <2>2. Cardinality(Lane) # 0
    BY LanesAssumption, FS_EmptySet
  <2> QED
    BY <2>1, <2>2
<1>2. Cardinality(UpLanes) \in Nat /\ Cardinality(UpLanes) <= Cardinality(Lane)
  BY <1>1, FS_Subset, FS_CardinalityType
<1>3. CASE UpInts = {}
  BY <1>1, <1>2, <1>3, FS_EmptySet DEF SandboxesWithinLanes
<1>4. CASE UpInts # {}
  <2>1. UpInts = {crashes + 1} /\ UpLanes = {}
    BY <1>4 DEF IInv, RInv, LanesStopped
  <2>2. Cardinality(UpInts) = 1 /\ Cardinality(UpLanes) = 0
    BY <2>1, FS_Singleton, FS_EmptySet
  <2> QED
    BY <1>1, <2>2 DEF SandboxesWithinLanes
<1> QED
  BY <1>3, <1>4

\* For any number of lanes, no more sandboxes run than the plan has lanes.
THEOREM PlanSandboxes == Spec => []SandboxesWithinLanes
BY UpWithinLanes, SpecIInv, PTL

\* What runs for a plan is accounted for, and ends with what answers for it.
THEOREM PlanHoldings == Spec => []HoldingsAccounted
BY PlanSandboxes, PlanNoStraySandbox, PlanTokensEnd, PTL DEF HoldingsAccounted

\* Whatever is planning, running or integrating has an activity at work on it.
THEOREM PlanWorkHasWorker == Spec => []WorkHasWorker
<1>1. IInv => WorkHasWorker
  BY DEF IInv, PInv, WorkHasWorker, InProgress
<1> QED
  BY <1>1, SpecIInv, PTL
=============================================================================
