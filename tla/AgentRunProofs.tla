--------------------------- MODULE AgentRunProofs ---------------------------
(***************************************************************************)
(* A run of the agent for every set of files, number of turns and policy.  *)
(* Four invariants, one for each question: the attempts and the promotion  *)
(* (CountInv), what is known of contents by their numbers (SecretInv), the *)
(* way of a verified content into the checkpoint (RanInv), on top of the   *)
(* gate's own invariant, and where loop and check are together, from which *)
(* every step is seen to come nearer to an end (ProgressInv).  All but     *)
(* RanInv hold with every fault.                                           *)
(***************************************************************************)
EXTENDS AgentRun, GateProofs

-----------------------------------------------------------------------------
(* The attempts.                                                           *)

\* Somebody who goes on, and a check in progress, has an attempt to spend.
Spare ==
  at \in {"turn", "tools", "limit"} \/ phase # "idle" \/ lastOutcome = "retry"
    => attempts < maxAttempts

CountInv ==
  /\ attempts \in Nat /\ maxAttempts \in Nat /\ escalated \in BOOLEAN
  /\ AttemptsWithinBudget
  /\ Spare
  /\ GoesOnPromoted

\* What a step of the gate does to the attempts.
Counted ==
  /\ maxAttempts' = maxAttempts
  /\ \/ UNCHANGED <<attempts, lastOutcome>>
     \/ phase' = "idle" /\ attempts' = attempts /\ lastOutcome' \in {"pass", "exhausted"}
     \/ /\ phase' = "idle" /\ attempts' = attempts + 1
        /\ lastOutcome' = IF attempts + 1 >= maxAttempts THEN "exhausted" ELSE "retry"

LEMMA VerdictCounts ==
  ASSUME maxAttempts' = maxAttempts, Failure \/ GiveUp \/ Pass
  PROVE  Counted /\ phase' = "idle"
<1>1. CASE Failure
  BY <1>1 DEF Failure, End, Counted
<1>2. CASE GiveUp \/ Pass
  BY <1>2 DEF GiveUp, Pass, Uncounted, End, Counted
<1>3. QED
  BY <1>1, <1>2

LEMMA CheckStepCounts == ASSUME CheckStep PROVE Counted /\ phase # "idle"
<1>1. CASE Scan \/ Restarted \/ RetryPlatform \/ Tests
  BY <1>1 DEF Scan, Restarted, RetryPlatform, Tests, Counted, gateVars
<1>2. CASE \E s \in Service : Restart(s) \/ RestartFails(s)
  BY <1>2 DEF Restart, RestartFails, Counted, gateVars
<1>3. CASE Judge
  <2>1. maxAttempts' = maxAttempts /\ phase = "judge"
    BY <1>3 DEF Judge
  <2>2. GoOn \/ Failure \/ GiveUp \/ Pass
    BY <1>3, Zenon DEF Judge
  <2>3. CASE GoOn
    BY <2>1, <2>3 DEF GoOn, Counted
  <2>4. QED
    BY <2>1, <2>2, <2>3, VerdictCounts
<1>4. CASE Recheck
  <2>1. maxAttempts' = maxAttempts /\ phase = "recheck"
    BY <1>4 DEF Recheck
  <2>2. Failure \/ GiveUp \/ Pass
    BY <1>4, Zenon DEF Recheck
  <2>3. QED
    BY <2>1, <2>2, VerdictCounts
<1>5. QED
  BY <1>1, <1>2, <1>3, <1>4 DEF CheckStep

\* The start of a check.
LEMMA CheckCounts ==
  ASSUME CheckNothing \/ StartCheck
  PROVE  Counted
<1>1. CASE CheckNothing
  <2>1. maxAttempts' = maxAttempts /\ (Failure \/ Pass)
    BY <1>1, Zenon DEF CheckNothing
  <2>2. QED
    BY <2>1, VerdictCounts
<1>2. CASE StartCheck
  BY <1>2 DEF StartCheck, Counted, gateVars
<1>3. QED
  BY <1>1, <1>2

\* Writing counts nothing.
LEMMA WritesCountNothing ==
  ASSUME Tool \/ Outside
  PROVE  UNCHANGED <<gateVars, phase>>
BY DEF Tool, Outside, ToolRevert, ToolWrite, OutsideRevert, OutsideWrite

\* A step of the gate that had an attempt to spend leaves the budget kept.
LEMMA CountedKeeps ==
  ASSUME CountInv, Counted, attempts < maxAttempts, UNCHANGED escalated,
         at' \notin {"turn", "tools", "limit"}
  PROVE  CountInv'
<1>1. /\ attempts' \in Nat /\ maxAttempts' = maxAttempts /\ attempts' <= maxAttempts
      /\ phase' # "idle" \/ lastOutcome' = "retry" => attempts' < maxAttempts
  BY DEF Counted, CountInv
<1>2. AttemptsWithinBudget'
  BY <1>1 DEF CountInv, AttemptsWithinBudget
<1>3. QED
  BY <1>1, <1>2 DEF CountInv, Spare, GoesOnPromoted

\* Other steps: at most the place changes, and nobody goes on who did not.
LEMMA UncountedKeeps ==
  ASSUME CountInv, UNCHANGED <<gateVars, phase, escalated>>,
         at' \in {"turn", "tools", "limit"} => at \in {"turn", "tools", "limit"}
  PROVE  CountInv'
<1>1. UNCHANGED <<attempts, maxAttempts, lastOutcome, phase, escalated>>
  BY DEF gateVars
<1>2. QED
  BY <1>1 DEF CountInv, AttemptsWithinBudget, Spare, GoesOnPromoted

\* The one promotion of a run counts from the attempts spent so far.
LEMMA DecideCountInv ==
  ASSUME CountInv, Decide
  PROVE  CountInv'
<1>1. at = "check" /\ phase = "idle"
  BY DEF Decide
<1>2. CASE lastOutcome = "pass"
  <2>1. UNCHANGED <<vars, escalated>> /\ at' = "finished"
    BY <1>2 DEF Decide, Finish, loopVars
  <2>2. QED
    BY <2>1, UncountedKeeps DEF vars
<1>3. CASE lastOutcome # "pass"
  <2>1. /\ maxAttempts' = IF Promotes THEN Extended(RetryBudget) ELSE maxAttempts
        /\ UNCHANGED <<attempts, lastOutcome, phase>>
        /\ \/ Continue /\ escalated' = (escalated \/ Promotes)
           \/ ~Continue /\ at' = "finished" /\ escalated' = escalated
    BY <1>3, Zenon DEF Decide, Finish
  <2>2. RetryBudget \in Nat /\ MaxVerifyAttempts \in Nat
    BY EscalationAssumption, AttemptsAssumption
  <2>3. CASE Promotes
    <3>1. ~escalated
      BY <2>3 DEF Promotes
    <3>2. /\ attempts \in Nat /\ maxAttempts \in Nat /\ attempts <= maxAttempts
          /\ maxAttempts <= MaxVerifyAttempts
          /\ lastOutcome = "retry" => attempts < maxAttempts
      BY <2>2, <3>1 DEF CountInv, AttemptsWithinBudget, Spare
    <3>3. /\ maxAttempts' \in Nat /\ maxAttempts <= maxAttempts'
          /\ attempts + RetryBudget <= maxAttempts'
          /\ maxAttempts' = maxAttempts \/ maxAttempts' = attempts + RetryBudget
      BY <2>1, <2>2, <2>3, <3>2 DEF Extended, Max2
    <3>4. CASE Continue
      <4>1. escalated' = TRUE
        BY <2>1, <2>3, <3>4
      <4>2. attempts < maxAttempts'
        BY <2>1, <2>3, <3>2, <3>3, <3>4 DEF Continue
      <4>3. QED
        BY <2>1, <2>2, <3>2, <3>3, <4>1, <4>2
           DEF CountInv, AttemptsWithinBudget, Spare, GoesOnPromoted
    <3>5. CASE ~Continue
      <4>1. /\ escalated' = FALSE /\ at' = "finished" /\ lastOutcome' # "retry"
            /\ phase' = "idle"
        BY <1>1, <2>1, <3>1, <3>5 DEF Continue, CountInv
      <4>2. maxAttempts' = maxAttempts
        <5>1. ~(attempts < maxAttempts')
          BY <2>1, <2>3, <3>5 DEF Continue
        <5>2. QED
          BY <2>2, <3>2, <3>3, <5>1
      <4>3. QED
        BY <2>1, <2>2, <3>2, <4>1, <4>2
           DEF CountInv, AttemptsWithinBudget, Spare, GoesOnPromoted
    <3>6. QED
      BY <3>4, <3>5
  <2>4. CASE ~Promotes
    <3>1. UNCHANGED <<attempts, maxAttempts, lastOutcome, phase>>
      BY <2>1, <2>4
    <3>2. escalated' = escalated
      BY <2>1, <2>4 DEF CountInv
    <3>3. at' \in {"turn", "tools", "limit"} => lastOutcome = "retry"
      BY <2>1, <2>4 DEF Continue
    <3>4. QED
      BY <3>1, <3>2, <3>3 DEF CountInv, AttemptsWithinBudget, Spare, GoesOnPromoted
  <2>5. QED
    BY <2>3, <2>4
<1>4. QED
  BY <1>2, <1>3

LEMMA StepCountInv ==
  ASSUME CountInv, [RunNext]_allVars
  PROVE  CountInv'
<1>1. CASE UNCHANGED allVars
  BY <1>1, UncountedKeeps DEF allVars, vars, runVars, loopVars
<1>2. CASE CallTools \/ TurnOver \/ ModelFails \/ LastWord \/ Receive \/ ScanSecrets \/ Cancel
  <2>1. UNCHANGED <<gateVars, phase, escalated>>
    BY <1>2 DEF CallTools, TurnOver, ModelFails, LastWord, Receive, ScanSecrets, Cancel,
                vars, loopVars
  <2>2. at' \in {"turn", "tools", "limit"} => at \in {"turn", "tools", "limit"}
    BY <1>2 DEF CallTools, TurnOver, ModelFails, LastWord, Receive, ScanSecrets, Cancel, Finish
  <2>3. QED
    BY <2>1, <2>2, UncountedKeeps
<1>3. CASE UseTool \/ Behind
  <2>1. UNCHANGED <<gateVars, phase, escalated, at>>
    BY <1>3, WritesCountNothing DEF UseTool, Behind, runVars, loopVars
  <2>2. QED
    BY <2>1, UncountedKeeps
<1>4. CASE Commit \/ Revert
  <2>1. /\ UNCHANGED <<gateVars, phase, escalated>>
        /\ at' \in {"settled", "revert"}
    BY <1>4 DEF Commit, Revert, vars, loopVars
  <2>2. QED
    BY <2>1, UncountedKeeps
<1>5. ASSUME NEW reason, at \in {"turn", "tools", "limit"}, Check(reason)
      PROVE  CountInv'
  <2>1. Counted /\ at' = "check" /\ escalated' = escalated
    BY <1>5, CheckCounts DEF Check, loopVars
  <2>2. attempts < maxAttempts
    BY <1>5 DEF CountInv, Spare
  <2>3. QED
    BY <2>1, <2>2, CountedKeeps
<1>6. CASE EndTurn \/ TurnLimit
  BY <1>5, <1>6 DEF EndTurn, TurnLimit
<1>7. CASE AskUser
  <2>1. CASE Check("ask")
    BY <1>5, <1>7, <2>1 DEF AskUser
  <2>2. CASE ~Check("ask")
    <3>1. UNCHANGED <<gateVars, phase, escalated>> /\ at' = "finished"
      BY <1>7, <2>2 DEF AskUser, Finish, vars, loopVars
    <3>2. QED
      BY <3>1, UncountedKeeps
  <2>3. QED
    BY <2>1, <2>2
<1>8. CASE Working
  <2>1. Counted /\ phase # "idle" /\ at' = "check" /\ escalated' = escalated
    BY <1>8, CheckStepCounts DEF Working, runVars, loopVars
  <2>2. attempts < maxAttempts
    BY <2>1 DEF CountInv, Spare
  <2>3. QED
    BY <2>1, <2>2, CountedKeeps
<1>9. CASE Settled
  BY <1>1, <1>9 DEF Settled
<1>10. QED
  BY <1>1, <1>2, <1>3, <1>4, <1>6, <1>7, <1>8, <1>9, DecideCountInv DEF RunNext, Run

LEMMA InitCountInv == ASSUME MaxVerifyAttempts > 0 PROVE RunInit => CountInv
<1> SUFFICES ASSUME RunInit PROVE CountInv
  OBVIOUS
<1>1. /\ attempts = 0 /\ maxAttempts = MaxVerifyAttempts /\ escalated = FALSE
      /\ lastOutcome = "none"
  BY DEF RunInit, Init
<1>2. MaxVerifyAttempts \in Nat /\ 0 < MaxVerifyAttempts
  BY AttemptsAssumption
<1>3. AttemptsWithinBudget
  BY <1>1, <1>2 DEF AttemptsWithinBudget
<1>4. Spare /\ GoesOnPromoted
  BY <1>1, <1>2 DEF Spare, GoesOnPromoted
<1>5. QED
  BY <1>1, <1>2, <1>3, <1>4 DEF CountInv

LEMMA SpecCountInv == ASSUME MaxVerifyAttempts > 0 PROVE RunSpec => []CountInv
<1>1. CountInv /\ [RunNext]_allVars => CountInv'
  BY StepCountInv
<1>2. QED
  BY <1>1, InitCountInv, PTL DEF RunSpec

\* The gate fails within its budget, extended at most once in a run
\* (gate.ts grantRetryBudget, escalation.ts), with every fault and whatever the
\* policy.  A gate without attempts would fail once all the same.
THEOREM RunAttempts ==
  ASSUME MaxVerifyAttempts > 0 PROVE RunSpec => []AttemptsWithinBudget
<1>1. CountInv => AttemptsWithinBudget
  BY DEF CountInv
<1>2. QED
  BY <1>1, SpecCountInv, PTL

\* Whoever goes on after the gate gave up has been promoted and has an attempt
\* left (loop.ts 637-665), with every fault and whatever the policy.
THEOREM RunGoesOnPromoted ==
  ASSUME MaxVerifyAttempts > 0 PROVE RunSpec => []GoesOnPromoted
<1>1. CountInv => GoesOnPromoted
  BY DEF CountInv
<1>2. QED
  BY <1>1, SpecCountInv, PTL

\* Both at once: what is granted is never exceeded, and never needed in vain.
THEOREM RunKeepsBudget ==
  ASSUME MaxVerifyAttempts > 0 PROVE RunSpec => []BudgetIsKept
BY RunAttempts, RunGoesOnPromoted, PTL DEF BudgetIsKept

-----------------------------------------------------------------------------
(* Contents and secrets.                                                   *)

\* A content has the number of its writing; None is the content of no file.
Numbered ==
  /\ disk \in [File -> Content] /\ writes \in Nat
  /\ \A f \in File : /\ Written(disk[f]) /\ disk[f] # None
                     /\ Written(tracked[f]) /\ Written(kept[f])

\* After the scan, a file that still is what the gate verified is no secret.
Scanned == at = "stage" => \A f \in File : disk[f] = kept[f] => disk[f].kind # "leak"

SavedIsClean == \A f \in File : saved[f].kind # "leak"

SecretInv == Numbered /\ Scanned /\ SavedIsClean

LEMMA BaseWritten ==
  ASSUME Numbered
  PROVE  /\ Written(Base) /\ Written(None)
         /\ \A f \in File : Written(Unsaved[f])
BY DEF Numbered, Written, Base, None, Unsaved

\* Nobody writes a content a second time.
LEMMA PutIsNew ==
  ASSUME Numbered, NEW f \in File, NEW k \in Kind, Put(f, k), UNCHANGED <<tracked, kept>>
  PROVE  /\ Numbered'
         /\ \A g \in File : disk'[g] = disk[g] \/ disk'[g] # kept[g]
<1> DEFINE c == [n |-> writes + 1, kind |-> k]
<1>1. /\ writes < MaxWrites /\ writes' = writes + 1 /\ disk' = [disk EXCEPT ![f] = c]
      /\ writes \in Nat /\ MaxWrites \in Nat
  BY WritesAssumption DEF Put, Numbered
<1>2. c \in Content /\ c # None /\ c.n = writes + 1
  <2>1. writes + 1 \in 0 .. MaxWrites + 1 /\ writes + 1 # 0 /\ k \in Kinds
    BY <1>1, KindAssumption
  <2>2. QED
    BY <2>1 DEF Content, None
<1>3. c # kept[f]
  <2>1. kept[f].n # writes + 1
    BY <1>1 DEF Numbered, Written
  <2>2. QED
    BY <1>2, <2>1
<1> HIDE DEF c
<1>4. disk' \in [File -> Content] /\ disk'[f] = c
  BY <1>1, <1>2 DEF Numbered
<1>5. ASSUME NEW g \in File
      PROVE  /\ Written(disk[g])' /\ disk'[g] # None
             /\ Written(tracked[g])' /\ Written(kept[g])'
             /\ disk'[g] = disk[g] \/ disk'[g] # kept[g]
  BY <1>1, <1>2, <1>3, <1>4 DEF Numbered, Written
<1>6. QED
  BY <1>1, <1>4, <1>5 DEF Numbered

LEMMA PutBackIsClean ==
  ASSUME Numbered, NEW f \in File, disk' = [disk EXCEPT ![f] = Base],
         UNCHANGED <<writes, tracked, kept>>
  PROVE  /\ Numbered'
         /\ \A g \in File : disk'[g] = disk[g] \/ disk'[g].kind # "leak"
<1>1. Base.kind # "leak"
  BY DEF Base
<1>2. disk' \in [File -> Content]
  BY BaseContent DEF Numbered
<1>3. ASSUME NEW g \in File PROVE disk'[g] = disk[g] \/ disk'[g] = Base
  BY DEF Numbered
<1>4. QED
  BY <1>1, <1>2, <1>3, BaseWritten, BaseContent DEF Numbered, Written

\* The steps of a check read the folder and write nothing into it.
LEMMA ChecksKeepNumbers ==
  ASSUME Numbered, CheckNothing \/ StartCheck \/ CheckStep, UNCHANGED kept
  PROVE  Numbered' /\ UNCHANGED diskVars
<1>1. /\ UNCHANGED diskVars
      /\ UNCHANGED tracked \/ Sync
  <2>1. CASE CheckNothing \/ StartCheck
    BY <2>1 DEF CheckNothing, StartCheck
  <2>2. CASE CheckStep
    BY <2>2 DEF CheckStep, Scan, Restarted, RetryPlatform, Judge, Tests, Recheck, Restart,
                RestartFails, spaceVars
  <2>3. QED
    BY <2>1, <2>2
<1>2. \A f \in File : Written(tracked[f])'
  <2>1. CASE UNCHANGED tracked
    BY <1>1, <2>1 DEF Numbered, Written, diskVars
  <2>2. CASE Sync
    <3>1. \A f \in File : tracked'[f] = disk[f] \/ tracked'[f] = None
      BY <2>2 DEF Sync, SyncedPrints
    <3>2. QED
      BY <1>1, <3>1, BaseWritten DEF Numbered, Written, diskVars
  <2>3. QED
    BY <1>1, <2>1, <2>2
<1>3. QED
  BY <1>1, <1>2 DEF Numbered, Written, diskVars

LEMMA StepSecretInv ==
  ASSUME SecretInv, [RunNext]_allVars
  PROVE  SecretInv'
<1>1. Numbered /\ Scanned /\ SavedIsClean
  BY DEF SecretInv
<1>2. ASSUME UNCHANGED <<diskVars, tracked, kept, saved>>, at' = "stage" => at = "stage"
      PROVE  SecretInv'
  BY <1>1, <1>2 DEF SecretInv, Numbered, Written, Scanned, SavedIsClean, diskVars
<1>3. ASSUME UNCHANGED <<vars, saved>>, NEW status, Finish(status)
      PROVE  SecretInv'
  <2>1. \A f \in File : Written(kept'[f])
    BY <1>1, <1>3, BaseWritten DEF Finish, Numbered
  <2>2. UNCHANGED <<disk, writes, tracked, saved>> /\ at' = "finished"
    BY <1>3 DEF Finish, vars, diskVars, spaceVars
  <2>3. QED
    BY <1>1, <2>1, <2>2 DEF SecretInv, Numbered, Written, Scanned, SavedIsClean
<1>4. CASE UNCHANGED allVars \/ Settled \/ CallTools \/ TurnOver \/ Receive \/ Cancel
  <2>1. /\ UNCHANGED <<diskVars, tracked, kept, saved>>
    BY <1>4 DEF Settled, CallTools, TurnOver, Receive, Cancel, allVars, vars, spaceVars,
                runVars, endVars
  <2>2. at' = "stage" => at = "stage"
    BY <1>4 DEF Settled, CallTools, TurnOver, Receive, Cancel, NextTurn, allVars, runVars
  <2>3. QED
    BY <1>2, <2>1, <2>2
<1>5. CASE ModelFails \/ LastWord
  BY <1>3, <1>5 DEF ModelFails, LastWord
<1>6. ASSUME NEW reason, Check(reason)
      PROVE  SecretInv'
  <2>1. (CheckNothing \/ StartCheck) /\ UNCHANGED <<kept, saved>> /\ at' = "check"
    BY <1>6 DEF Check, endVars
  <2>2. Numbered' /\ UNCHANGED diskVars
    BY <1>1, <2>1, ChecksKeepNumbers
  <2>3. QED
    BY <1>1, <2>1, <2>2 DEF SecretInv, Scanned, SavedIsClean
<1>7. CASE AskUser \/ EndTurn \/ TurnLimit
  BY <1>3, <1>6, <1>7 DEF AskUser, EndTurn, TurnLimit
<1>8. CASE Working
  <2>1. CheckStep /\ at = "check" /\ UNCHANGED <<at, kept, saved>>
    BY <1>8 DEF Working, runVars, endVars
  <2>2. Numbered'
    BY <1>1, <2>1, ChecksKeepNumbers
  <2>3. QED
    BY <1>1, <2>1, <2>2 DEF SecretInv, Scanned, SavedIsClean
<1>9. CASE Decide
  <2>1. CASE lastOutcome = "pass"
    BY <1>3, <1>9, <2>1 DEF Decide
  <2>2. CASE lastOutcome # "pass"
    <3>1. /\ UNCHANGED <<diskVars, spaceVars, saved>>
          /\ \/ at' \in {"turn", "limit"} /\ UNCHANGED kept
             \/ Finish("failed")
      BY <1>9, <2>2, Zenon DEF Decide, NextTurn, endVars
    <3>2. CASE Finish("failed")
      <4>1. kept' = Unsaved /\ at' = "finished"
        BY <3>2 DEF Finish
      <4>2. QED
        BY <1>1, <3>1, <4>1, BaseWritten
           DEF SecretInv, Numbered, Written, Scanned, SavedIsClean, diskVars, spaceVars
    <3>3. CASE at' \in {"turn", "limit"} /\ UNCHANGED kept
      BY <1>2, <3>1, <3>3 DEF spaceVars
    <3>4. QED
      BY <3>1, <3>2, <3>3
  <2>3. QED
    BY <2>1, <2>2
<1>10. CASE UseTool \/ Behind
  <2>1. /\ UNCHANGED <<at, kept, saved, tracked>>
        /\ \E f \in File :
             \/ \E k \in Kind : Put(f, k)
             \/ disk' = [disk EXCEPT ![f] = Base] /\ UNCHANGED writes
    BY <1>10 DEF UseTool, Behind, Tool, Outside, ToolRevert, ToolWrite, OutsideRevert,
                 OutsideWrite, runVars, endVars, spaceVars
  <2>2. Numbered' /\ \A g \in File : \/ disk'[g] = disk[g]
                                     \/ disk'[g] # kept[g] \/ disk'[g].kind # "leak"
    BY <1>1, <2>1, PutIsNew, PutBackIsClean
  <2>3. QED
    BY <1>1, <2>1, <2>2 DEF SecretInv, Scanned, SavedIsClean
<1>11. CASE ScanSecrets
  <2>1. /\ UNCHANGED <<vars, kept, saved>>
        /\ at' = "stage" => \A f \in Pending : disk[f].kind # "leak"
    BY <1>11 DEF ScanSecrets, endVars
  <2>2. at' = "stage" => \A f \in File : disk[f].kind # "leak"
    BY <2>1 DEF Pending, Base
  <2>3. QED
    BY <1>1, <2>1, <2>2
       DEF SecretInv, Numbered, Written, Scanned, SavedIsClean, vars, diskVars, spaceVars
<1>12. CASE Commit
  <2>1. /\ at = "stage" /\ at' # "stage" /\ UNCHANGED <<vars, kept>>
        /\ UNCHANGED saved \/ (StagedMatch /\ saved' = disk)
    BY <1>12 DEF Commit
  <2>2. StagedMatch => \A f \in File : disk[f].kind # "leak"
    BY <1>1, <2>1 DEF StagedMatch, Scanned, Pending, Base
  <2>3. QED
    BY <1>1, <2>1, <2>2
       DEF SecretInv, Numbered, Written, Scanned, SavedIsClean, vars, diskVars, spaceVars
<1>13. CASE Revert
  <2>1. /\ disk' = [f \in File |-> Base] /\ at' = "settled"
        /\ UNCHANGED <<writes, tracked, kept, saved>>
    BY <1>13 DEF Revert, spaceVars, endVars
  <2>2. Numbered'
    BY <1>1, <2>1, BaseContent, BaseWritten DEF Numbered, Written
  <2>3. QED
    BY <1>1, <2>1, <2>2 DEF SecretInv, Scanned, SavedIsClean
<1>14. QED
  BY <1>4, <1>5, <1>7, <1>8, <1>9, <1>10, <1>11, <1>12, <1>13 DEF RunNext, Run

LEMMA InitSecretInv == RunInit => SecretInv
<1> SUFFICES ASSUME RunInit PROVE SecretInv
  OBVIOUS
<1>1. /\ writes = 0 /\ at = "turn" /\ kept = Unsaved /\ saved = Unsaved
      /\ MaxWrites \in Nat
  BY WritesAssumption DEF RunInit, Init
<1>2. PICK F \in SUBSET File, k \in Kind \ {"link"} :
        /\ disk = [f \in File |-> IF f \in F THEN [n |-> MaxWrites + 1, kind |-> k] ELSE Base]
        /\ tracked = [f \in File |-> IF f \in F THEN disk[f] ELSE None]
  BY DEF RunInit, Init
<1>3. k \in Kinds /\ MaxWrites + 1 \in 0 .. MaxWrites + 1 /\ MaxWrites + 1 # 0
  BY <1>1, KindAssumption
<1> DEFINE c == [n |-> MaxWrites + 1, kind |-> k]
<1>4. c \in Content /\ c # None /\ c.n = MaxWrites + 1
  BY <1>3 DEF Content, None
<1> HIDE DEF c
<1>5. disk = [f \in File |-> IF f \in F THEN c ELSE Base]
  BY <1>2 DEF c
<1>6. Base.n = 0 /\ None.n = 0
  BY DEF Base, None
<1>7. disk \in [File -> Content]
  BY <1>4, <1>5, BaseContent
<1>8. ASSUME NEW f \in File
      PROVE  /\ Written(disk[f]) /\ disk[f] # None
             /\ Written(tracked[f]) /\ Written(kept[f])
  <2>1. (disk[f] = c \/ disk[f] = Base) /\ (tracked[f] = disk[f] \/ tracked[f] = None)
    BY <1>2, <1>5
  <2>2. kept[f] = None
    BY <1>1 DEF Unsaved
  <2>3. Written(c) /\ Written(Base) /\ Written(None)
    BY <1>1, <1>4, <1>6 DEF Written
  <2>4. QED
    BY <1>4, <2>1, <2>2, <2>3, BaseContent DEF Written
<1>9. QED
  BY <1>1, <1>7, <1>8 DEF SecretInv, Numbered, Scanned, SavedIsClean, Unsaved, None

LEMMA SpecSecretInv == RunSpec => []SecretInv
<1>1. SecretInv /\ [RunNext]_allVars => SecretInv'
  BY StepSecretInv
<1>2. QED
  BY <1>1, InitSecretInv, PTL DEF RunSpec

\* No checkpoint holds a secret (checkpoints.ts #secretLeaks and
\* #stagedMismatch), with every fault, though the gate may have let it pass and
\* commands go on writing between the scan and the commit.
THEOREM RunNoSecret == RunSpec => []CommittedHasNoSecret
<1>1. SecretInv => CommittedHasNoSecret
  BY DEF SecretInv, SavedIsClean, CommittedHasNoSecret
<1>2. QED
  BY <1>1, SpecSecretInv, PTL

-----------------------------------------------------------------------------
(* What is committed is what ran.                                          *)

\* A pass leaves nothing to be verified, and nobody works on after it.
PassLeavesNothing ==
  lastOutcome = "pass" =>
    /\ phase = "idle" /\ at \notin {"turn", "tools", "limit"}
    /\ unverified = {}
    /\ \A f \in changed : Owner[f] \notin failedServices

\* Outside of checks the gate is idle, and a commit is of what it passed.
Handover ==
  /\ at \in {"turn", "tools", "limit", "finished", "commit", "stage"} => phase = "idle"
  /\ at \in {"commit", "stage"} => lastOutcome = "pass" /\ kept = tracked
  /\ at = "finished" =>
       /\ result = "done" => lastOutcome = "pass"
       /\ result \in {"done", "awaiting_input"} /\ lastOutcome = "pass" => kept = tracked

RanInv ==
  /\ RunTypeOK
  /\ at # "settled" => IInv /\ saved = Unsaved
  /\ PassLeavesNothing
  /\ Handover
  /\ CommittedIsWhatRan

LEMMA UnsavedType == Unsaved \in [File -> Content]
BY BaseContent DEF Unsaved

\* Whatever check passes, it had no service that did not come up, and no
\* change was waiting for it.
LEMMA PassIsClean ==
  ASSUME IInv, CheckNothing \/ StartCheck \/ CheckStep, lastOutcome # "pass",
         lastOutcome' = "pass"
  PROVE  /\ phase' = "idle" /\ unverified' = {}
         /\ \A f \in changed' : Owner[f] \notin failedServices'
<1>1. TypeOK /\ Found
  BY DEF IInv
<1>2. CASE CheckNothing
  <2>1. /\ changed' = {} /\ unverified' = {}
    BY <1>1, <1>2 DEF CheckNothing, Sync, TypeOK
  <2>2. phase' = "idle"
    BY <1>2 DEF CheckNothing, Failure, Pass, Uncounted, End
  <2>3. QED
    BY <2>1, <2>2
<1>3. CASE StartCheck
  BY <1>3 DEF StartCheck, gateVars
<1>4. CASE Judge
  <2>1. /\ phase = "judge" /\ failedServices' = notReady /\ UNCHANGED spaceVars
    BY <1>4 DEF Judge
  <2>2. Failure \/ GiveUp \/ (ReportOk /\ (GoOn \/ Pass))
    BY <1>4, Zenon DEF Judge
  <2>3. ~Failure /\ ~GiveUp
    BY <1>1, VerdictEnds
  <2>4. ReportOk /\ Pass
    BY <2>2, <2>3 DEF GoOn
  <2>5. notReady = {} /\ phase' = "idle"
    BY <2>4 DEF ReportOk, Pass, Uncounted, End
  <2>6. QED
    BY <1>1, <2>1, <2>5 DEF Found, spaceVars
<1>5. CASE Recheck
  <2>1. /\ phase = "recheck" /\ unverified' = unverified \cup ChangedNow
        /\ failedServices' = failedServices
    BY <1>5 DEF Recheck
  <2>2. Failure \/ GiveUp \/ (Unchanged /\ Pass)
    BY <1>5, Zenon DEF Recheck
  <2>3. Unchanged /\ Pass
    BY <1>1, <2>2, VerdictEnds
  <2>4. ChangedNow = {} /\ phase' = "idle"
    BY <2>3 DEF Unchanged, Pass, Uncounted, End
  <2>5. QED
    BY <1>1, <2>1, <2>4 DEF Found
<1>6. CASE Scan \/ Restarted \/ RetryPlatform \/ Tests
            \/ \E s \in Service : Restart(s) \/ RestartFails(s)
  BY <1>6 DEF Scan, Restarted, RetryPlatform, Tests, Restart, RestartFails, gateVars
<1>7. QED
  BY <1>2, <1>3, <1>4, <1>5, <1>6 DEF CheckStep

\* The files git has staged are those the gate passed: no service runs on
\* anything else.
LEMMA StagedRan ==
  ASSUME IInv, PassLeavesNothing, Numbered, lastOutcome = "pass", kept = tracked,
         StagedMatch
  PROVE  \A f \in File : loaded[f] = disk[f] /\ (disk[f] # Base => up[Owner[f]])
<1> SUFFICES ASSUME NEW f \in File
             PROVE  loaded[f] = disk[f] /\ (disk[f] # Base => up[Owner[f]])
  OBVIOUS
<1>1. /\ TypeOK /\ Fresh /\ NothingForgotten /\ Found
      /\ phase = "idle" /\ unverified = {}
      /\ \A g \in changed : Owner[g] \notin failedServices
  BY DEF IInv, PassLeavesNothing
<1>2. Due = failedServices
  BY <1>1 DEF Due
<1>3. f \notin ChangedNow
  BY DEF ChangedNow, StagedMatch
<1>4. ~Stale(f)
  BY <1>1, <1>2, <1>3 DEF NothingForgotten
<1>5. CASE f \in Pending
  <2>1. tracked[f] = disk[f] /\ tracked[f] # None
    BY <1>5 DEF StagedMatch, Numbered
  <2>2. disk[f].kind # "link" /\ f \in changed
    BY <1>1, <2>1 DEF Fresh, Found
  <2>3. up[Owner[f]]
    BY <1>1, <1>2, <2>2 DEF NothingForgotten
  <2>4. QED
    BY <1>4, <2>2, <2>3 DEF Stale
<1>6. CASE f \notin Pending
  <2>1. disk[f] = Base /\ Base.kind # "link"
    BY <1>6 DEF Pending, Base
  <2>2. QED
    BY <1>4, <2>1 DEF Stale
<1>7. QED
  BY <1>5, <1>6

-----------------------------------------------------------------------------
(* The steps.  The gate's invariant is kept by its own steps.              *)

LEMMA GateStepKeeps ==
  ASSUME Assumed, IInv, UNCHANGED mode,
         UNCHANGED vars \/ Tool \/ Outside \/ CheckNothing \/ StartCheck \/ CheckStep
  PROVE  IInv'
<1>1. CASE CheckNothing \/ StartCheck
  BY <1>1, CheckNothingIInv, StartCheckIInv
<1>2. CASE UNCHANGED vars \/ Tool \/ Outside \/ CheckStep
  <2>1. [Next]_vars
    BY <1>2 DEF Next
  <2>2. QED
    BY <2>1, StepIInv
<1>3. QED
  BY <1>1, <1>2

LEMMA TurnType ==
  ASSUME RunTypeOK, NextTurn
  PROVE  turn' \in 1 .. MaxTurns /\ at' \in {"turn", "limit"}
BY TurnsAssumption DEF RunTypeOK, NextTurn

\* A step of the loop that leaves the gate alone, before the end.
LEMMA LoopKeeps ==
  ASSUME Assumed, RanInv, at # "settled", UNCHANGED <<vars, saved>>,
         turn' \in 1 .. MaxTurns, at' \in Places, UNCHANGED <<escalated, failures, repeats>>,
         why' \in {"none", "ask", "end", "limit"},
         result' \in {"none", "done", "awaiting_input", "failed", "cancelled"},
         kept' = kept \/ kept' = tracked \/ kept' = Unsaved
  PROVE  /\ RunTypeOK' /\ IInv' /\ saved' = Unsaved /\ CommittedIsWhatRan'
         /\ UNCHANGED <<lastOutcome, phase, tracked, unverified, changed, failedServices>>
<1>1. RunTypeOK /\ IInv /\ saved = Unsaved
  BY DEF RanInv
<1>2. IInv'
  <2>1. UNCHANGED mode
    BY DEF vars
  <2>2. QED
    BY <1>1, <2>1, GateStepKeeps
<1>3. kept' \in [File -> Content]
  <2>1. tracked \in [File -> Content] /\ kept \in [File -> Content]
    BY <1>1 DEF IInv, TypeOK, RunTypeOK
  <2>2. QED
    BY <2>1, UnsavedType
<1>4. RunTypeOK'
  BY <1>1, <1>2, <1>3 DEF RunTypeOK, IInv
<1>5. UNCHANGED <<lastOutcome, phase, tracked, unverified, changed, failedServices>>
  BY DEF vars, gateVars, spaceVars
<1>6. QED
  BY <1>1, <1>2, <1>4, <1>5 DEF CommittedIsWhatRan

LEMMA FinishRanInv ==
  ASSUME Assumed, RanInv, at # "settled", phase = "idle",
         NEW status \in {"done", "awaiting_input", "failed"}, Finish(status),
         status = "done" => lastOutcome = "pass",
         UNCHANGED <<vars, turn, escalated, failures, repeats, why, saved>>
  PROVE  RanInv'
<1>1. /\ result' = status /\ at' = "finished"
      /\ kept' = IF status \in {"done", "awaiting_input"} /\ lastOutcome = "pass"
                 THEN tracked ELSE Unsaved
  BY DEF Finish
<1>2. /\ turn' \in 1 .. MaxTurns /\ at' \in Places
      /\ why' \in {"none", "ask", "end", "limit"}
      /\ result' \in {"none", "done", "awaiting_input", "failed", "cancelled"}
  BY <1>1 DEF RanInv, RunTypeOK, Places
<1>3. /\ RunTypeOK' /\ IInv' /\ saved' = Unsaved /\ CommittedIsWhatRan'
      /\ UNCHANGED <<lastOutcome, phase, tracked, unverified, changed, failedServices>>
  BY <1>1, <1>2, LoopKeeps
<1>4. PassLeavesNothing' /\ Handover'
  BY <1>1, <1>3 DEF RanInv, PassLeavesNothing, Handover
<1>5. QED
  BY <1>3, <1>4 DEF RanInv

LEMMA CheckRanInv ==
  ASSUME Assumed, RanInv, at \in {"turn", "tools", "limit"}, UNCHANGED mode,
         NEW reason \in {"ask", "end", "limit"}, Check(reason)
  PROVE  RanInv'
<1>1. /\ CheckNothing \/ StartCheck
      /\ at' = "check" /\ why' = reason
      /\ UNCHANGED <<turn, escalated, failures, repeats, result, kept, saved>>
  BY DEF Check, loopVars, endVars
<1>2. RunTypeOK /\ IInv /\ saved = Unsaved /\ lastOutcome # "pass"
  BY DEF RanInv, PassLeavesNothing
<1>3. IInv'
  BY <1>1, <1>2, GateStepKeeps
<1>4. RunTypeOK'
  BY <1>1, <1>2, <1>3 DEF RunTypeOK, IInv, Places
<1>5. PassLeavesNothing' /\ Handover' /\ CommittedIsWhatRan'
  BY <1>1, <1>2, PassIsClean DEF PassLeavesNothing, Handover, CommittedIsWhatRan
<1>6. QED
  BY <1>1, <1>2, <1>3, <1>4, <1>5 DEF RanInv

LEMMA WorkingRanInv ==
  ASSUME Assumed, RanInv, UNCHANGED mode, Working
  PROVE  RanInv'
<1>1. /\ at = "check" /\ at' = "check" /\ CheckStep
      /\ UNCHANGED <<turn, escalated, failures, repeats, why, result, kept, saved>>
  BY DEF Working, runVars, loopVars, endVars
<1>2. /\ RunTypeOK /\ IInv /\ saved = Unsaved /\ phase # "idle" /\ lastOutcome # "pass"
  BY <1>1, CheckStepCounts DEF RanInv, PassLeavesNothing
<1>3. IInv'
  BY <1>1, <1>2, GateStepKeeps
<1>4. RunTypeOK'
  BY <1>1, <1>2, <1>3 DEF RunTypeOK, IInv
<1>5. PassLeavesNothing' /\ Handover' /\ CommittedIsWhatRan'
  BY <1>1, <1>2, PassIsClean DEF PassLeavesNothing, Handover, CommittedIsWhatRan
<1>6. QED
  BY <1>1, <1>2, <1>3, <1>4, <1>5 DEF RanInv

LEMMA WritesRanInv ==
  ASSUME Assumed, RanInv, UNCHANGED mode, UseTool \/ Behind
  PROVE  RanInv'
<1>1. /\ at # "settled" /\ UNCHANGED runVars
      /\ (at = "tools" /\ Tool) \/ Outside
  BY DEF UseTool, Behind
<1>2. /\ RunTypeOK /\ IInv /\ saved = Unsaved
      /\ UNCHANGED <<turn, escalated, failures, repeats, at, why, result, kept, saved>>
  BY <1>1 DEF RanInv, runVars, loopVars, endVars
<1>3. UNCHANGED <<attempts, maxAttempts, lastOutcome, phase, failedServices>>
  BY <1>1, WritesCountNothing DEF gateVars
<1>4. /\ UNCHANGED tracked
      /\ at # "tools" => UNCHANGED <<changed, unverified>>
  BY <1>1 DEF Tool, Outside, ToolRevert, ToolWrite, OutsideRevert, OutsideWrite, spaceVars
<1>5. IInv'
  BY <1>1, <1>2, GateStepKeeps
<1>6. RunTypeOK'
  BY <1>2, <1>5 DEF RunTypeOK, IInv
<1>7. PassLeavesNothing' /\ Handover' /\ CommittedIsWhatRan'
  BY <1>2, <1>3, <1>4 DEF RanInv, PassLeavesNothing, Handover, CommittedIsWhatRan
<1>8. QED
  BY <1>1, <1>2, <1>5, <1>6, <1>7 DEF RanInv

\* A failure of the check leads to another turn or to the end.
LEMMA DecideRanInv ==
  ASSUME Assumed, RanInv, UNCHANGED mode, Decide
  PROVE  RanInv'
<1>1. at = "check" /\ phase = "idle" /\ why' = why
  BY DEF Decide
<1>2. RunTypeOK /\ IInv /\ saved = Unsaved
  BY <1>1 DEF RanInv
<1>3. CASE lastOutcome = "pass"
  <2>1. /\ Finish("done")
        /\ UNCHANGED <<vars, turn, escalated, failures, repeats, saved>>
    BY <1>3 DEF Decide, loopVars
  <2>2. QED
    BY <1>1, <1>3, <2>1, FinishRanInv
<1>4. CASE lastOutcome # "pass"
  <2>1. /\ UNCHANGED <<diskVars, spaceVars, boxVars, attempts, failedServices, lastOutcome,
                       phase, checkVars>>
        /\ Note
        /\ escalated' = (escalated \/ Promotes) \/ escalated' = escalated
        /\ maxAttempts' = IF Promotes THEN Extended(RetryBudget) ELSE maxAttempts
        /\ \/ NextTurn /\ UNCHANGED endVars
           \/ Finish("failed") /\ UNCHANGED <<turn, saved>>
    BY <1>4, Zenon DEF Decide
  <2>2. IInv'
    <3>0. maxAttempts' \in Nat
      BY <1>2, <2>1, EscalationAssumption DEF IInv, TypeOK, Extended, Max2
    <3>1. TypeOK'
      BY <1>2, <2>1, <3>0 DEF IInv, TypeOK, diskVars, spaceVars, boxVars, checkVars
    <3>2. Fresh'
      BY <1>2, <2>1 DEF IInv, Fresh, Written, diskVars, spaceVars
    <3>3. Due' = Due /\ ChangedNow' = ChangedNow
      BY <2>1 DEF Due, ChangedNow, Pending, Rejected, diskVars, spaceVars, checkVars
    <3>4. NothingForgotten'
      BY <1>2, <2>1, <3>3 DEF IInv, NothingForgotten, Stale, diskVars, spaceVars, boxVars
    <3>5. Found'
      BY <1>2, <2>1 DEF IInv, Found, spaceVars, boxVars, checkVars
    <3>6. PassIsWhatRan' /\ PassedIsSound'
      BY <1>4, <2>1 DEF PassIsWhatRan, PassedIsSound, Passed
    <3>7. QED
      BY <3>1, <3>2, <3>4, <3>5, <3>6 DEF IInv
  <2>3. escalated' \in BOOLEAN
    BY <1>2, <2>1 DEF RunTypeOK
  <2>4. failures' \in Nat /\ repeats' \in 0 .. failures'
    BY <1>2, <2>1 DEF RunTypeOK, Note
  <2>5. /\ turn' \in 1 .. MaxTurns /\ at' \in {"turn", "limit", "finished"}
        /\ result' \in {"none", "done", "awaiting_input", "failed", "cancelled"}
        /\ kept' \in [File -> Content] /\ saved' = saved
        /\ at' = "finished" => result' = "failed"
    <3>1. CASE NextTurn /\ UNCHANGED endVars
      BY <1>2, <3>1, TurnType DEF RunTypeOK, endVars
    <3>2. CASE Finish("failed") /\ UNCHANGED <<turn, saved>>
      BY <1>2, <3>2, UnsavedType DEF RunTypeOK, Finish
    <3>3. QED
      BY <2>1, <3>1, <3>2
  <2>6. RunTypeOK'
    BY <1>1, <1>2, <2>2, <2>3, <2>4, <2>5 DEF RunTypeOK, IInv, Places
  <2>7. PassLeavesNothing' /\ Handover' /\ CommittedIsWhatRan'
    BY <1>1, <1>2, <1>4, <2>1, <2>5 DEF PassLeavesNothing, Handover, CommittedIsWhatRan
  <2>8. QED
    BY <1>2, <2>2, <2>5, <2>6, <2>7 DEF RanInv
<1>5. QED
  BY <1>3, <1>4

LEMMA CommitRanInv ==
  ASSUME RanInv, Numbered, UNCHANGED mode, Commit, Assumed
  PROVE  RanInv'
<1>1. /\ at = "stage" /\ UNCHANGED <<vars, turn, escalated, failures, repeats, why, result, kept>>
  BY DEF Commit, loopVars
<1>2. /\ RunTypeOK /\ IInv /\ saved = Unsaved /\ PassLeavesNothing
      /\ lastOutcome = "pass" /\ kept = tracked
  BY <1>1 DEF RanInv, Handover
<1>3. CASE StagedMatch
  <2>1. at' = "settled" /\ saved' = disk
    BY <1>3 DEF Commit
  <2>2. RunTypeOK'
    BY <1>1, <1>2, <2>1
       DEF RunTypeOK, TypeOK, Places, vars, diskVars, spaceVars, boxVars, gateVars, checkVars
  <2>3. CommittedIsWhatRan'
    BY <1>1, <1>2, <1>3, <2>1, StagedRan DEF CommittedIsWhatRan, vars, boxVars
  <2>4. PassLeavesNothing' /\ Handover'
    BY <1>1, <1>2, <2>1 DEF PassLeavesNothing, Handover, vars, spaceVars, gateVars
  <2>5. QED
    BY <2>1, <2>2, <2>3, <2>4 DEF RanInv
<1>4. CASE ~StagedMatch
  <2>1. at' = "revert" /\ saved' = saved
    BY <1>4 DEF Commit
  <2>2. /\ RunTypeOK' /\ IInv' /\ saved' = Unsaved /\ CommittedIsWhatRan'
        /\ UNCHANGED <<lastOutcome, phase, tracked, unverified, changed, failedServices>>
    BY <1>1, <1>2, <2>1, LoopKeeps DEF RunTypeOK, Places
  <2>3. PassLeavesNothing' /\ Handover'
    BY <1>2, <2>1, <2>2 DEF PassLeavesNothing, Handover
  <2>4. QED
    BY <2>2, <2>3 DEF RanInv
<1>5. QED
  BY <1>3, <1>4

\* After a revert the run is over, and nothing has been saved.
LEMMA RevertRanInv ==
  ASSUME RanInv, UNCHANGED mode, Revert
  PROVE  RanInv'
<1>1. /\ at = "revert" /\ at' = "settled"
      /\ disk' = [f \in File |-> Base]
      /\ loaded' = [f \in File |-> IF Owner[f] \in Owners(Pending) THEN Base ELSE loaded[f]]
      /\ UNCHANGED <<mode, writes, spaceVars, up, gateVars, phase, checkVars, loopVars, why, endVars>>
  BY DEF Revert
<1>2. RunTypeOK /\ TypeOK /\ saved = Unsaved /\ PassLeavesNothing
  BY <1>1 DEF RanInv, RunTypeOK
<1>3. disk' \in [File -> Content] /\ loaded' \in [File -> Content]
  BY <1>1, <1>2, BaseContent DEF TypeOK
<1>4. TypeOK'
  BY <1>1, <1>2, <1>3 DEF TypeOK, spaceVars, gateVars, checkVars
<1>5. RunTypeOK'
  BY <1>1, <1>2, <1>4 DEF RunTypeOK, Places, loopVars, endVars
<1>6. PassLeavesNothing' /\ Handover' /\ CommittedIsWhatRan'
  BY <1>1, <1>2 DEF PassLeavesNothing, Handover, CommittedIsWhatRan, spaceVars, gateVars, endVars
<1>7. QED
  BY <1>1, <1>5, <1>6 DEF RanInv

LEMMA StepRanInv ==
  ASSUME Assumed, RanInv, SecretInv, [RunNext]_allVars
  PROVE  RanInv'
<1>1. CASE UNCHANGED allVars
  <2>1. UNCHANGED vars /\ UNCHANGED <<turn, escalated, failures, repeats, at, why, result, kept, saved>>
    BY <1>1 DEF allVars, runVars, loopVars, endVars
  <2>2. UNCHANGED <<mode, lastOutcome, phase, tracked, unverified, changed, failedServices, loaded, up>>
    BY <2>1 DEF vars, gateVars, spaceVars, boxVars
  <2>3. TypeOK' /\ (at # "settled" => IInv')
    <3>1. TypeOK'
      BY <2>1 DEF RanInv, RunTypeOK, TypeOK, vars, diskVars, spaceVars, boxVars, gateVars, checkVars
    <3>2. QED
      BY <2>1, <2>2, <3>1, GateStepKeeps DEF RanInv
  <2>4. RunTypeOK'
    BY <2>1, <2>3 DEF RanInv, RunTypeOK
  <2>5. PassLeavesNothing' /\ Handover' /\ CommittedIsWhatRan'
    BY <2>1, <2>2 DEF RanInv, PassLeavesNothing, Handover, CommittedIsWhatRan
  <2>6. QED
    BY <2>1, <2>3, <2>4, <2>5 DEF RanInv
<1>2. CASE RunNext
  <2>1. UNCHANGED mode
    BY <1>2 DEF RunNext
  <2>2. CASE CallTools \/ TurnOver \/ Receive \/ ScanSecrets \/ Cancel
    <3>1. /\ at # "settled" /\ UNCHANGED <<vars, saved, escalated, failures, repeats, why, kept>>
      BY <2>2 DEF CallTools, TurnOver, Receive, ScanSecrets, Cancel, loopVars, endVars
    <3>2. /\ turn' \in 1 .. MaxTurns /\ at' \in Places
          /\ result' \in {"none", "done", "awaiting_input", "failed", "cancelled"}
          /\ at' \in {"turn", "tools", "limit"} => at \in {"turn", "tools"}
          /\ at' # "finished"
          /\ at' = "commit" => at = "finished" /\ (result = "done" \/ (result = "awaiting_input"
                                                              /\ lastOutcome = "pass"))
          /\ at' = "stage" => at = "commit"
      BY <2>2, TurnType DEF CallTools, TurnOver, Receive, ScanSecrets, Cancel, RanInv,
                            RunTypeOK, Places, loopVars, endVars
    <3>3. /\ RunTypeOK' /\ IInv' /\ saved' = Unsaved /\ CommittedIsWhatRan'
          /\ UNCHANGED <<lastOutcome, phase, tracked, unverified, changed, failedServices>>
      BY <3>1, <3>2, LoopKeeps DEF RanInv, RunTypeOK
    <3>4. PassLeavesNothing' /\ Handover'
      BY <3>1, <3>2, <3>3 DEF RanInv, PassLeavesNothing, Handover
    <3>5. QED
      BY <3>3, <3>4 DEF RanInv
  <2>3. CASE ModelFails
    <3>1. /\ at = "turn" /\ phase = "idle" /\ Finish("failed")
          /\ UNCHANGED <<vars, turn, escalated, failures, repeats, why, saved>>
      BY <2>3 DEF ModelFails, RanInv, Handover, loopVars
    <3>2. QED
      BY <3>1, FinishRanInv
  <2>4. CASE LastWord
    <3>1. PICK status \in {"done", "awaiting_input", "failed"} :
            /\ Finish(status)
            /\ status = "done" => lastOutcome = "pass"
      BY <2>4 DEF LastWord
    <3>2. /\ at = "check" /\ phase = "idle"
          /\ UNCHANGED <<vars, turn, escalated, failures, repeats, why, saved>>
      BY <2>4 DEF LastWord, loopVars
    <3>3. QED
      BY <3>1, <3>2, FinishRanInv
  <2>5. CASE AskUser
    <3>1. at = "tools" /\ phase = "idle"
      BY <2>5 DEF AskUser, RanInv, Handover
    <3>2. CASE Check("ask")
      BY <2>1, <3>1, <3>2, CheckRanInv
    <3>3. CASE ~Check("ask")
      <4>1. /\ Finish("awaiting_input")
            /\ UNCHANGED <<vars, turn, escalated, failures, repeats, why, saved>>
        BY <2>5, <3>3 DEF AskUser, loopVars
      <4>2. QED
        BY <3>1, <4>1, FinishRanInv
    <3>4. QED
      BY <3>2, <3>3
  <2>6. CASE EndTurn \/ TurnLimit
    BY <2>1, <2>6, CheckRanInv DEF EndTurn, TurnLimit
  <2>7. CASE Working \/ UseTool \/ Behind
    BY <2>1, <2>7, WorkingRanInv, WritesRanInv
  <2>8. CASE Decide
    BY <2>1, <2>8, DecideRanInv
  <2>9. CASE Commit \/ Revert
    BY <2>1, <2>9, CommitRanInv, RevertRanInv DEF SecretInv
  <2>10. CASE Settled
    BY <1>1, <2>10 DEF Settled
  <2>11. QED
    BY <1>2, <2>2, <2>3, <2>4, <2>5, <2>6, <2>7, <2>8, <2>9, <2>10 DEF RunNext, Run
<1>3. QED
  BY <1>1, <1>2

LEMMA InitRanInv == RunInit => RanInv
<1> SUFFICES ASSUME RunInit PROVE RanInv
  OBVIOUS
<1>1. /\ IInv /\ lastOutcome = "none" /\ phase = "idle"
  BY InitIInv DEF RunInit, Init
<1>2. /\ turn = 1 /\ at = "turn" /\ why = "none" /\ escalated = FALSE /\ failures = 0
      /\ repeats = 0 /\ result = "none" /\ kept = Unsaved /\ saved = Unsaved
  BY DEF RunInit
<1>3. RunTypeOK
  <2>1. turn \in 1 .. MaxTurns
    BY <1>2, TurnsAssumption
  <2>2. failures \in Nat /\ repeats \in 0 .. failures
    BY <1>2
  <2>3. QED
    BY <1>1, <1>2, <2>1, <2>2, UnsavedType DEF RunTypeOK, IInv, Places
<1>4. QED
  BY <1>1, <1>2, <1>3 DEF RanInv, PassLeavesNothing, Handover, CommittedIsWhatRan

LEMMA SpecRanInv == ASSUME Assumed PROVE RunSpec => []RanInv
<1>1. RanInv /\ SecretInv /\ [RunNext]_allVars => RanInv'
  BY StepRanInv
<1>2. QED
  BY <1>1, InitRanInv, SpecSecretInv, PTL DEF RunSpec

\* Every variable of the run keeps its type, the gate's included (loop.ts run,
\* sessions.ts execute), on the faults of GateTypeOK.
THEOREM RunTypes == ASSUME Assumed PROVE RunSpec => []RunTypeOK
<1>1. RanInv => RunTypeOK
  BY DEF RanInv
<1>2. QED
  BY <1>1, SpecRanInv, PTL

\* What a checkpoint holds is what the services ran on when the gate passed
\* (checkpoints.ts #stagedMismatch, docs/decisions.md ADR-132), in light checks
\* as in full ones, whatever is written up to the commit, on the same faults.
THEOREM RunCommitsWhatRan == ASSUME Assumed PROVE RunSpec => []CommittedIsWhatRan
<1>1. RanInv => CommittedIsWhatRan
  BY DEF RanInv
<1>2. QED
  BY <1>1, SpecRanInv, PTL

-----------------------------------------------------------------------------
(* Nothing goes on for ever.  The distance of a run from its end is made of *)
(* the writes that are left, the files that differ from the checkpoint, the *)
(* turns, the place in the turn and the place in the check; a step lessens  *)
(* one of them and leaves those before it alone.  With finitely many files  *)
(* and services that bounds the steps of a run, and a run that is not at    *)
(* its end can always go on: it is the part of RunSettles that needs no     *)
(* fairness.                                                                *)

\* The sets of files and services hold files and services.
SetsTyped ==
  /\ changed \subseteq File /\ unverified \subseteq File
  /\ wanted \subseteq Service /\ toRestart \subseteq Service

ProgressInv ==
  /\ turn \in Nat
  /\ at = "limit" => phase = "idle"
  /\ at \in {"turn", "tools"} => phase = "idle"
  /\ at = "check" => why \in {"ask", "end", "limit"}
  /\ at \in Places /\ phase \in Phases
  /\ SetsTyped

LEMMA PutAdvances ==
  ASSUME SecretInv, NEW f \in File, NEW k \in Kind, Put(f, k)
  PROVE  writes' > writes
BY DEF SecretInv, Numbered, Put

LEMMA PutBackAdvances ==
  ASSUME SecretInv, NEW f \in File, disk[f] # Base, disk' = [disk EXCEPT ![f] = Base],
         UNCHANGED writes
  PROVE  Pending' \subseteq Pending /\ Pending' # Pending
<1>1. f \in Pending /\ f \notin Pending'
  BY DEF SecretInv, Numbered, Pending
<1>2. Pending' \subseteq Pending
  BY DEF SecretInv, Numbered, Pending
<1> QED BY <1>1, <1>2

LEMMA WritesAdvance ==
  ASSUME SecretInv, Tool \/ Outside
  PROVE  Advances
<1>1. ASSUME NEW f \in File, NEW k \in Kind, Put(f, k) PROVE Advances
  BY <1>1, PutAdvances DEF Advances
<1>2. ASSUME NEW f \in File, disk[f] # Base, disk' = [disk EXCEPT ![f] = Base], UNCHANGED writes
      PROVE  Advances
  BY <1>2, PutBackAdvances DEF Advances
<1> QED BY <1>1, <1>2 DEF Tool, Outside, ToolRevert, ToolWrite, OutsideRevert, OutsideWrite

\* A step that writes nothing and moves the run nearer to its end.
LEMMA MoveAdvances ==
  ASSUME UNCHANGED diskVars, turn' > turn \/ (turn' = turn /\ Distance' < Distance)
  PROVE  Advances
BY DEF Advances, Pending, diskVars

\* Every verdict and every phase is one on the way through a check.
LEMMA CheckStepAdvances ==
  ASSUME CheckStep
  PROVE  CheckAdvances /\ UNCHANGED diskVars
<1>1. CASE Scan
  <2>1. /\ phase = "scan" /\ phase' \in {"restart", "judge"}
        /\ retried' = retried /\ UNCHANGED diskVars
    BY <1>1 DEF Scan
  <2> QED BY <2>1 DEF CheckAdvances, PhasesLeft
<1>2. CASE Restarted
  BY <1>2 DEF Restarted, CheckAdvances, PhasesLeft, checkVars
<1>3. CASE RetryPlatform
  BY <1>3 DEF RetryPlatform, CheckAdvances
<1>4. CASE Judge
  <2>1. phase = "judge" /\ UNCHANGED diskVars
    BY <1>4 DEF Judge
  <2>2. GoOn \/ Failure \/ GiveUp \/ Pass
    BY <1>4, Zenon DEF Judge
  <2>3. CASE GoOn
    BY <2>1, <2>3 DEF GoOn, CheckAdvances, PhasesLeft
  <2> QED BY <2>1, <2>2, <2>3 DEF Failure, GiveUp, Pass, Uncounted, End, CheckAdvances
<1>5. CASE Tests
  BY <1>5 DEF Tests, CheckAdvances, PhasesLeft
<1>6. CASE Recheck
  <2>1. phase = "recheck" /\ UNCHANGED diskVars
    BY <1>6 DEF Recheck
  <2>2. Failure \/ GiveUp \/ Pass
    BY <1>6, Zenon DEF Recheck
  <2> QED BY <2>1, <2>2 DEF Failure, GiveUp, Pass, Uncounted, End, CheckAdvances
<1>7. ASSUME NEW s \in Service, Restart(s) \/ RestartFails(s)
      PROVE  CheckAdvances /\ UNCHANGED diskVars
  BY <1>7 DEF Restart, RestartFails, CheckAdvances
<1> QED BY <1>1, <1>2, <1>3, <1>4, <1>5, <1>6, <1>7 DEF CheckStep

LEMMA NextTurnAdvances ==
  ASSUME ProgressInv, NextTurn, UNCHANGED diskVars,
         at \in {"turn", "tools"} \/ (at = "check" /\ why = "end")
  PROVE  Advances
<1>1. CASE turn' = turn + 1
  BY <1>1, MoveAdvances DEF ProgressInv
<1>2. CASE turn' = turn /\ at' = "limit"
  <2>1. Distance' = 6 /\ Distance \in {7, 8, 9}
    BY <1>2 DEF Distance
  <2> QED BY <1>2, <2>1, MoveAdvances
<1> QED BY <1>1, <1>2 DEF NextTurn

LEMMA StepAdvances ==
  ASSUME ProgressInv, SecretInv, RunNext
  PROVE  Advances \/ UNCHANGED allVars
<1>1. CASE CallTools \/ ModelFails \/ LastWord \/ Receive \/ ScanSecrets \/ Cancel \/ Commit
  <2>1. UNCHANGED <<diskVars, turn>>
    BY <1>1 DEF CallTools, ModelFails, LastWord, Receive, ScanSecrets, Cancel, Commit, vars, loopVars
  <2>2. Distance' < Distance
    BY <1>1 DEF CallTools, ModelFails, LastWord, Receive, ScanSecrets, Cancel, Commit, Finish, Distance
  <2> QED BY <2>1, <2>2, MoveAdvances
<1>2. CASE UseTool \/ Behind
  BY <1>2, WritesAdvance DEF UseTool, Behind
<1>3. CASE TurnOver
  BY <1>3, NextTurnAdvances DEF TurnOver, vars
<1>4. ASSUME NEW reason, Check(reason),
             at \in {"turn", "tools"} \/ (at = "limit" /\ reason = "limit")
      PROVE  Advances
  <2>1. UNCHANGED <<diskVars, turn>> /\ at' = "check" /\ why' = reason
    BY <1>4 DEF Check, CheckNothing, StartCheck, loopVars
  <2>2. Distance' < Distance
    BY <1>4, <2>1 DEF Distance
  <2> QED BY <2>1, <2>2, MoveAdvances
<1>5. CASE AskUser
  <2>1. CASE Check("ask")
    BY <1>4, <1>5, <2>1 DEF AskUser
  <2>2. CASE Finish("awaiting_input") /\ UNCHANGED <<vars, loopVars, why, saved>>
    <3>1. UNCHANGED <<diskVars, turn>> /\ Distance' < Distance
      BY <1>5, <2>2 DEF AskUser, Finish, Distance, vars, loopVars
    <3> QED BY <3>1, MoveAdvances
  <2> QED BY <1>5, <2>1, <2>2 DEF AskUser
<1>6. CASE EndTurn \/ TurnLimit
  BY <1>4, <1>6 DEF EndTurn, TurnLimit
<1>7. CASE Working
  <2>1. at = "check" /\ CheckAdvances /\ UNCHANGED <<diskVars, turn, at, why>>
    BY <1>7, CheckStepAdvances DEF Working, runVars, loopVars
  <2>2. Distance' = Distance
    BY <2>1 DEF Distance
  <2> QED BY <2>1, <2>2 DEF Advances, Pending, diskVars
<1>8. CASE Decide
  <2>1. at = "check" /\ why = "end" /\ UNCHANGED diskVars
    BY <1>8 DEF Decide, vars
  <2>2. CASE NextTurn
    BY <2>1, <2>2, NextTurnAdvances
  <2>3. CASE at' = "finished" /\ turn' = turn
    BY <2>1, <2>3, MoveAdvances DEF Distance
  <2>4. NextTurn \/ (at' = "finished" /\ turn' = turn)
    BY <1>8, Zenon DEF Decide, Finish, loopVars
  <2> QED BY <2>2, <2>3, <2>4
<1>9. CASE Revert
  <2>1. /\ UNCHANGED writes /\ turn' = turn
        /\ \A f \in File : disk'[f] = Base
    BY <1>9 DEF Revert, loopVars
  <2>2. Pending' = {}
    BY <2>1 DEF Pending
  <2>3. Distance' < Distance
    BY <1>9 DEF Revert, Distance
  <2> QED BY <2>1, <2>2, <2>3 DEF Advances
<1>10. CASE Settled
  BY <1>10 DEF Settled
<1> QED
  BY <1>1, <1>2, <1>3, <1>5, <1>6, <1>7, <1>8, <1>9, <1>10 DEF RunNext, Run

LEMMA InitProgress == RunInit => ProgressInv
BY DEF RunInit, Init, ProgressInv, SetsTyped, Places, Phases

LEMMA VerdictTyped ==
  ASSUME Failure \/ GiveUp \/ Pass
  PROVE  phase' = "idle" /\ wanted' = {} /\ toRestart' = {}
BY DEF Failure, GiveUp, Pass, Uncounted, End

LEMMA CheckStepTyped ==
  ASSUME SetsTyped, CheckStep
  PROVE  phase' \in Phases /\ SetsTyped'
<1>1. CASE Scan
  BY <1>1 DEF Scan, SetsTyped, spaceVars, Phases
<1>2. CASE Restarted
  BY <1>2 DEF Restarted, SetsTyped, spaceVars, checkVars, Phases
<1>3. CASE RetryPlatform \/ Tests
  BY <1>3 DEF RetryPlatform, Tests, SetsTyped, spaceVars, Phases
<1>4. CASE Judge
  <2>1. UNCHANGED spaceVars /\ (GoOn \/ Failure \/ GiveUp \/ Pass)
    BY <1>4, Zenon DEF Judge
  <2> QED BY <2>1, VerdictTyped DEF GoOn, SetsTyped, spaceVars, Phases
<1>5. CASE Recheck
  <2>1. Sync /\ unverified' = unverified \cup ChangedNow /\ (Failure \/ GiveUp \/ Pass)
    BY <1>5, Zenon DEF Recheck
  <2> QED BY <2>1, VerdictTyped DEF Sync, ChangedNow, Pending, SetsTyped, Phases
<1>6. ASSUME NEW s \in Service, Restart(s) \/ RestartFails(s)
      PROVE  phase' \in Phases /\ SetsTyped'
  BY <1>6 DEF Restart, RestartFails, SetsTyped, spaceVars, Phases
<1> QED BY <1>1, <1>2, <1>3, <1>4, <1>5, <1>6 DEF CheckStep

LEMMA CheckTyped ==
  ASSUME SetsTyped, CheckNothing \/ StartCheck
  PROVE  phase' \in Phases /\ SetsTyped'
<1>1. CASE CheckNothing
  <2>1. Sync /\ UNCHANGED unverified /\ (Failure \/ Pass)
    BY <1>1, Zenon DEF CheckNothing
  <2> QED BY <2>1, VerdictTyped DEF Sync, ChangedNow, Pending, SetsTyped, Phases
<1>2. CASE StartCheck
  <2>1. ChangedNow \subseteq File /\ Owed \subseteq File
    BY DEF ChangedNow, Pending, Owed, SetsTyped
  <2>2. Owners(Owed) \subseteq Service
    BY <2>1, OwnerAssumption DEF Owners
  <2>3. changed' \subseteq File /\ unverified' = {} /\ phase' = "scan"
    BY <1>2, <2>1 DEF StartCheck, Sync, SetsTyped
  <2>4. wanted' \subseteq Service /\ toRestart' = wanted'
    BY <1>2, <2>2 DEF StartCheck
  <2> QED BY <2>3, <2>4 DEF SetsTyped, Phases
<1> QED BY <1>1, <1>2

LEMMA WritesTyped ==
  ASSUME SetsTyped, Tool \/ Outside
  PROVE  SetsTyped'
BY DEF SetsTyped, Tool, Outside, ToolRevert, ToolWrite, OutsideRevert, OutsideWrite, Record, spaceVars, checkVars

LEMMA StepProgress ==
  ASSUME ProgressInv, [RunNext]_allVars
  PROVE  ProgressInv'
<1>1. CASE UNCHANGED allVars \/ Settled
  BY <1>1 DEF Settled, ProgressInv, SetsTyped, allVars, vars, runVars, loopVars, spaceVars, checkVars
<1>2. CASE CallTools \/ ModelFails \/ LastWord \/ Receive \/ ScanSecrets \/ Cancel \/ Commit \/ Revert
  BY <1>2 DEF CallTools, ModelFails, LastWord, Receive, ScanSecrets, Cancel, Commit, Revert, Finish,
              vars, loopVars, ProgressInv, Places, SetsTyped, spaceVars, checkVars
<1>3. CASE UseTool \/ Behind
  BY <1>3, WritesCountNothing, WritesTyped DEF UseTool, Behind, runVars, loopVars, ProgressInv
<1>4. ASSUME NextTurn, phase = "idle", UNCHANGED phase, SetsTyped'
      PROVE  ProgressInv'
  <2>1. turn' \in Nat
    BY <1>4 DEF NextTurn, ProgressInv
  <2> QED BY <1>4, <2>1 DEF NextTurn, ProgressInv, Places
<1>5. CASE TurnOver
  BY <1>4, <1>5 DEF TurnOver, vars, ProgressInv, SetsTyped, spaceVars, checkVars
<1>6. ASSUME NEW reason \in {"ask", "end", "limit"}, Check(reason)
      PROVE  ProgressInv'
  <2>1. turn' = turn /\ at' = "check" /\ why' = reason
    BY <1>6 DEF Check, loopVars
  <2>2. phase' \in Phases /\ SetsTyped'
    BY <1>6, CheckTyped DEF Check, ProgressInv
  <2> QED BY <1>6, <2>1, <2>2 DEF ProgressInv, Places
<1>7. CASE AskUser
  <2>1. CASE Finish("awaiting_input") /\ UNCHANGED <<vars, loopVars, why, saved>>
    BY <2>1 DEF Finish, vars, loopVars, ProgressInv, Places, SetsTyped, spaceVars, checkVars
  <2> QED BY <1>6, <1>7, <2>1 DEF AskUser
<1>8. CASE EndTurn \/ TurnLimit
  BY <1>6, <1>8 DEF EndTurn, TurnLimit
<1>9. CASE Working
  BY <1>9, CheckStepTyped DEF Working, runVars, loopVars, ProgressInv
<1>10. CASE Decide
  <2>1. at = "check" /\ phase = "idle" /\ phase' = phase /\ SetsTyped' /\ why' = why
    BY <1>10 DEF Decide, vars, spaceVars, checkVars, ProgressInv, SetsTyped
  <2>2. NextTurn \/ (at' = "finished" /\ turn' = turn)
    BY <1>10, Zenon DEF Decide, Finish, loopVars
  <2> QED BY <1>4, <2>1, <2>2 DEF ProgressInv, Places
<1> QED
  BY <1>1, <1>2, <1>3, <1>5, <1>7, <1>8, <1>9, <1>10 DEF RunNext, Run

LEMMA SpecProgress == RunSpec => []ProgressInv
<1>1. ProgressInv /\ [RunNext]_allVars => ProgressInv'
  BY StepProgress
<1> QED BY InitProgress, <1>1, PTL DEF RunSpec

\* Every step of a run, its own, a command's or the user's, brings it nearer to
\* its end (loop.ts run, gate.ts #check), with every fault and whatever the
\* policy, the files and the services.
THEOREM RunAlwaysAdvances == RunSpec => RunAdvances
<1>1. ProgressInv /\ SecretInv /\ [RunNext]_allVars => [Advances]_allVars
  BY StepAdvances
<1> QED BY SpecProgress, SpecSecretInv, <1>1, PTL DEF RunSpec, RunAdvances

\* The next step of a run, whose guards these are: the model answers, the
\* tools end, a check begins, does its next thing (judge the report or try the
\* platform again; restart one of the services that are left), or is over and
\* somebody waits for it, and the session goes through commit and revert.
HasNext ==
  \/ at \in {"turn", "tools", "finished", "commit", "stage", "revert"}
  \/ at = "limit" /\ phase = "idle"
  \/ at = "check" /\ phase = "idle" /\ why \in {"ask", "end", "limit"}
  \/ at = "check" /\ phase \in {"scan", "judge", "tests", "recheck"}
  \/ at = "check" /\ phase = "restart" /\ (toRestart = {} \/ \E s \in Service : s \in toRestart)

\* A run never waits for anything but its own next step.
THEOREM RunNeverStuck == RunSpec => [](at # "settled" => HasNext)
<1>1. ProgressInv => (at # "settled" => HasNext)
  BY DEF ProgressInv, SetsTyped, HasNext, Places, Phases
<1> QED BY SpecProgress, <1>1, PTL

=============================================================================
