------------------------------ MODULE AgentRun ------------------------------
(***************************************************************************)
(* One run of the built-in agent against the gate: the turn loop `run` of  *)
(* packages/agent/src/loop.ts with the promotion rules of escalation.ts,   *)
(* and what the session does with the result: `execute` of                 *)
(* apps/studio/lib/server/sessions.ts, CheckpointStore.commit and          *)
(* #stagedMismatch of checkpoints.ts.                                      *)
(*                                                                         *)
(* The loop awaits the check and the session awaits the loop, but commands *)
(* the agent left behind in the containers go on writing through all of    *)
(* it, up to and between the steps of the commit.  A user may stop the run *)
(* at any moment; a stopped run goes on to its revert.                     *)
(***************************************************************************)
EXTENDS Gate

CONSTANTS
  MaxTurns,
  Escalates,      \* the run has an escalation policy
  SameTimes,      \* sameSignatureTimes
  AfterFailures,  \* afterFailures; 0 if the policy has none
  RetryBudget     \* retryBudgetFor(policy)

ASSUME TurnsAssumption == MaxTurns \in Nat \ {0}
ASSUME EscalationAssumption ==
  /\ Escalates \in BOOLEAN /\ SameTimes \in Nat \ {0}
  /\ AfterFailures \in Nat /\ RetryBudget \in Nat

VARIABLES
  turn,       \* the number of the turn
  at,         \* where the run is
  why,        \* what the check in progress, or the last one, is for
  escalated, failures, repeats,  \* escalationHistory: its length, and the equal keys at its end
  result,     \* AgentResult.status
  kept,       \* verifiedFingerprints of the result
  saved       \* the contents the checkpoint of this run holds

loopVars == <<turn, escalated, failures, repeats>>
endVars  == <<result, kept, saved>>
runVars  == <<loopVars, at, why, endVars>>
allVars  == <<vars, runVars>>

Unsaved == [f \in File |-> None]

Places == {"turn", "tools", "limit", "check", "finished", "commit", "stage",
           "revert", "settled"}

RunTypeOK ==
  /\ TypeOK
  /\ turn \in 1 .. MaxTurns /\ at \in Places /\ why \in {"none", "ask", "end", "limit"}
  /\ escalated \in BOOLEAN /\ failures \in Nat /\ repeats \in 0 .. failures
  /\ result \in {"none", "done", "awaiting_input", "failed", "cancelled"}
  /\ kept \in [File -> Content] /\ saved \in [File -> Content]

RunInit ==
  /\ Init
  /\ turn = 1 /\ at = "turn" /\ why = "none"
  /\ escalated = FALSE /\ failures = 0 /\ repeats = 0
  /\ result = "none" /\ kept = Unsaved /\ saved = Unsaved

-----------------------------------------------------------------------------
(* The turn loop.                                                          *)

\* Mutant of NextTurn: the limit is never reached.
NextTurnForever ==
  IF turn < MaxTurns THEN turn' = turn + 1 /\ at' = "turn"
  ELSE turn' = turn /\ at' = "turn"

\* for (turn <= maxTurns): the next turn, or the check at the limit.
NextTurn ==
  IF turn < MaxTurns THEN turn' = turn + 1 /\ at' = "turn"
  ELSE turn' = turn /\ at' = "limit"

\* The model asks for tools.
CallTools ==
  /\ at = "turn"
  /\ at' = "tools"
  /\ UNCHANGED <<vars, loopVars, why, endVars>>

UseTool ==
  /\ at = "tools"
  /\ Tool
  /\ UNCHANGED runVars

\* The tools of the turn are done; so are a paused turn and one cut off at
\* max_tokens.
TurnOver ==
  /\ at \in {"turn", "tools"}
  /\ NextTurn
  /\ UNCHANGED <<vars, escalated, failures, repeats, why, endVars>>

\* finish(): the fingerprints go along if the gate's last word was pass.
Finish(status) ==
  /\ result' = status
  /\ kept' = IF status \in {"done", "awaiting_input"} /\ lastOutcome = "pass"
             THEN tracked ELSE Unsaved
  /\ at' = "finished"

\* A refusal, or the model's context is full.
ModelFails ==
  /\ at = "turn"
  /\ Finish("failed")
  /\ UNCHANGED <<vars, loopVars, why, saved>>

Check(reason) ==
  /\ CheckNothing \/ StartCheck
  /\ at' = "check" /\ why' = reason
  /\ UNCHANGED <<loopVars, endVars>>

\* ask_user among the tools: what has changed so far is verified first.
AskUser ==
  /\ at = "tools"
  /\ \/ changed # {} /\ Check("ask")
     \/ changed = {} /\ Finish("awaiting_input") /\ UNCHANGED <<vars, loopVars, why, saved>>

EndTurn == at = "turn" /\ Check("end")

TurnLimit == at = "limit" /\ Check("limit")

Working == at = "check" /\ CheckStep /\ UNCHANGED runVars

\* Mutant of Promotes: a run may promote again.
PromotesAgain ==
  /\ Escalates
  /\ \/ repeats' >= SameTimes
     \/ AfterFailures # 0 /\ failures' >= AfterFailures

\* shouldPromote on the history with this failure added.
Promotes ==
  /\ Escalates /\ ~escalated
  /\ \/ repeats' >= SameTimes
     \/ AfterFailures # 0 /\ failures' >= AfterFailures

\* The same set of failure signatures as the time before, or another one.
Note ==
  IF Escalates /\ ~escalated
  THEN /\ failures' = failures + 1
       /\ repeats' \in {1, repeats + 1} /\ (failures = 0 => repeats' = 1)
  ELSE UNCHANGED <<failures, repeats>>

\* Mutant of Continue: the loop goes on whatever the budget.
ContinueAnyway == TRUE

\* After a check that did not pass: does the loop go on?
Continue == lastOutcome = "retry" \/ (Promotes /\ attempts < Extended(RetryBudget))

\* The check the agent's end of turn asked for is over.
Decide ==
  /\ at = "check" /\ phase = "idle" /\ why = "end"
  /\ IF lastOutcome = "pass"
     THEN /\ Finish("done")
          /\ UNCHANGED <<vars, loopVars, saved>>
     ELSE /\ Note
          /\ maxAttempts' = IF Promotes THEN Extended(RetryBudget) ELSE maxAttempts
          /\ IF Continue
             THEN NextTurn /\ escalated' = (escalated \/ Promotes) /\ UNCHANGED endVars
             ELSE Finish("failed") /\ UNCHANGED <<turn, escalated, saved>>
          /\ UNCHANGED <<diskVars, spaceVars, boxVars, attempts, failedServices,
                         lastOutcome, phase, checkVars>>
  /\ UNCHANGED why

\* The check before a question, or the one at the turn limit, is over: there
\* is no other turn.
LastWord ==
  /\ at = "check" /\ phase = "idle" /\ why \in {"ask", "limit"}
  /\ Finish(IF why = "ask" THEN "awaiting_input"
            ELSE IF lastOutcome = "pass" THEN "done" ELSE "failed")
  /\ UNCHANGED <<vars, loopVars, why, saved>>

\* Stop, a spent token budget: the abort signal ends the loop, and the gate
\* with it, at the next await.
Cancel ==
  /\ at \in {"turn", "tools", "limit", "check"}
  /\ result' = "cancelled" /\ at' = "revert"
  /\ UNCHANGED <<vars, loopVars, why, kept, saved>>

-----------------------------------------------------------------------------
(* What the session does with the result.                                  *)

\* A failed run is reverted, except when the report of verifyChanges has a
\* platform failure; a question the gate has not passed leaves the folder as
\* it is.  (The session works on a copy, not in the user's own folder.)
Receive ==
  /\ at = "finished"
  /\ at' = IF result = "done" \/ (result = "awaiting_input" /\ lastOutcome = "pass") THEN "commit"
           ELSE IF result = "awaiting_input" \/ platform \in {"service", "sync"} THEN "settled"
           ELSE "revert"
  /\ UNCHANGED <<vars, loopVars, why, endVars>>

\* Mutant of ScanSecrets: the gate is trusted to have found them.
ScanNothing ==
  /\ at = "commit"
  /\ at' = IF Pending = {} THEN "settled" ELSE "stage"
  /\ UNCHANGED <<vars, loopVars, why, endVars>>

\* CheckpointStore.commit, up to the scan for secrets.
ScanSecrets ==
  /\ at = "commit"
  /\ at' = IF Pending = {} THEN "settled"
           ELSE IF \E f \in Pending : disk[f].kind = "leak" THEN "revert"
           ELSE "stage"
  /\ UNCHANGED <<vars, loopVars, why, endVars>>

\* Mutant of StagedMatch: only what was verified is compared.
StagedMatchVerified == \A f \in File : kept[f] # None => disk[f] = kept[f]

\* #stagedMismatch: what git has staged is what the gate verified, file by
\* file, and the staged files are the verified ones.
StagedMatch == \A f \in File : IF f \in Pending THEN disk[f] = kept[f] ELSE kept[f] = None

\* git add, the comparison and the commit all work on what git add staged.
Commit ==
  /\ at = "stage"
  /\ IF StagedMatch THEN at' = "settled" /\ saved' = disk
     ELSE at' = "revert" /\ UNCHANGED saved
  /\ UNCHANGED <<vars, loopVars, why, result, kept>>

\* revertRun: git reset --hard and clean, then the services of those files
\* start again; the run's gate is gone by then.
Revert ==
  /\ at = "revert"
  /\ disk' = [f \in File |-> Base]
  /\ loaded' = [f \in File |-> IF Owner[f] \in Owners(Pending) THEN Base ELSE loaded[f]]
  /\ at' = "settled"
  /\ UNCHANGED <<writes, spaceVars, up, gateVars, phase, checkVars, loopVars, why, endVars>>

-----------------------------------------------------------------------------
Run ==
  \/ CallTools \/ UseTool \/ TurnOver \/ ModelFails \/ AskUser \/ EndTurn \/ TurnLimit
  \/ Working \/ Decide \/ LastWord
  \/ Receive \/ ScanSecrets \/ Commit \/ Revert

Behind == at # "settled" /\ Outside /\ UNCHANGED runVars

Settled == at = "settled" /\ UNCHANGED allVars

RunNext == (Run \/ Cancel \/ Behind \/ Settled) /\ UNCHANGED mode

RunSpec == RunInit /\ [][RunNext]_allVars

\* Model calls, docker and git answer or run into a time limit of their own.
FairRunSpec == RunSpec /\ WF_allVars(Run /\ UNCHANGED mode)

-----------------------------------------------------------------------------
(* Properties.                                                             *)

\* docs/decisions.md, addition to ADR-132: the commit holds what the gate
\* verified.  A checkpoint of a run holds exactly the contents the services
\* ran on when the gate passed, in light checks too, whatever commands wrote
\* during the check and during the commit.
CommittedIsWhatRan ==
  saved # Unsaved =>
    \A f \in File : /\ saved[f] = loaded[f]
                    /\ saved[f] # Base => up[Owner[f]]

\* No checkpoint holds a secret, even if the gate let it pass or it was
\* written after the scan (checkpoints.ts #secretLeaks, expectStaged).
CommittedHasNoSecret ==
  saved # Unsaved => \A f \in File : saved[f].kind # "leak"

\* The gate fails at most maxVerifyAttempts times, and once more the budget
\* of the promotion, which a run has once (gate.ts grantRetryBudget).
AttemptsWithinBudget ==
  /\ attempts <= maxAttempts
  /\ maxAttempts <= MaxVerifyAttempts + (IF escalated THEN RetryBudget ELSE 0)

\* A run that went on after the gate gave up has a promoted model and an
\* attempt left to spend (escalation.ts, loop.ts 637-662).
GoesOnPromoted ==
  at \in {"turn", "tools", "limit"} /\ lastOutcome = "exhausted" =>
    escalated /\ attempts < maxAttempts

\* The gate's failures stay within what the run was granted, and nobody goes on
\* without one to spare: a promotion, granted in the turn in which the gate
\* gave up, is neither lost nor counted twice.
BudgetIsKept == AttemptsWithinBudget /\ GoesOnPromoted

\* How far a run is from its end.  A check may be left for another turn, or
\* for the limit, only if it is the one that the end of a turn asked for.
Distance ==
  CASE at = "turn" -> 9 [] at = "tools" -> 8
    [] at = "limit" -> 6 [] at = "check" -> IF why = "limit" THEN 5 ELSE 7
    [] at = "finished" -> 4 [] at = "commit" -> 3 [] at = "stage" -> 2
    [] at = "revert" -> 1 [] at = "settled" -> 0

PhasesLeft ==
  CASE phase = "idle" -> 0 [] phase = "recheck" -> 1 [] phase = "tests" -> 2
    [] phase = "judge" -> 3 [] phase = "restart" -> 4 [] phase = "scan" -> 5

\* The check in progress comes nearer to its verdict: a platform failure is
\* tried once more, and a service is restarted once in a try.
CheckAdvances ==
  \/ phase # "idle" /\ phase' = "idle"
  \/ ~retried /\ retried'
  \/ retried' = retried /\ PhasesLeft' < PhasesLeft
  \/ retried' = retried /\ phase' = phase /\ toRestart' \subseteq toRestart /\ toRestart' # toRestart

\* Neither the loop nor a command can go on for ever: every step writes, takes
\* a change back, begins another turn, or brings turn or check nearer to its
\* end, and nothing but a writing step undoes that (run, recheckGateOnMaxTurns,
\* and the check's one retry).
Advances ==
  \/ writes' > writes
  \/ /\ writes' = writes /\ Pending' \subseteq Pending
     /\ \/ Pending' # Pending
        \/ turn' > turn
        \/ turn' = turn /\ Distance' < Distance
        \/ turn' = turn /\ Distance' = Distance /\ at = "check" /\ CheckAdvances

RunAdvances == [][Advances]_allVars

\* The run comes to an end, whatever the model and the commands do.
RunSettles == <>(at = "settled")

\* gate.ts:548: a load check that could not run is treated like the platform
\* failure of a restart, and sessions.ts:2383 does not revert what failed
\* for the platform's sake.
PlatformFailureKeeps ==
  at = "revert" /\ result = "failed" => platform = "none"

=============================================================================
