-------------------------------- MODULE Gate --------------------------------
(***************************************************************************)
(* The verification gate of packages/agent/src: VerificationGate.check     *)
(* (gate.ts) with verifyChanges and restartServicesFor (verify.ts), the    *)
(* list of changed files it works from (workspace.ts) and the tracker of   *)
(* changes made outside the file tools (change-tracker.ts).                *)
(*                                                                         *)
(* An agent edits files; a check restarts the services that own them, runs *)
(* the declared checks and passes, sends the agent back, or gives up.  A   *)
(* check awaits docker and git many times, and commands the agent left in  *)
(* the containers write files in between: a phase of the check is a step,  *)
(* a service restarts at its own pace, and OutsideWrite may come anywhere. *)
(***************************************************************************)
EXTENDS Naturals, FiniteSets

CONSTANTS
  File, Service,
  Owner,              \* the service whose folder a file lies in
  Kind,               \* the kinds of content somebody may write
  Contracted,         \* the services whose API contract is compared
  Modes,              \* "full", and "light": restarts and contracts only
  Required,           \* every stage of workflow.required has declared checks
  MaxVerifyAttempts,
  Faults,             \* what may go wrong besides the content of files
  MaxWrites           \* bound: how many writes there are in a behaviour

\* What a content does to the gate.  "crash": its service does not come up.
\* "breaks": its service serves a breaking contract.  "fails": a declared
\* check fails.  "weak": an evaluation asset no longer what it was.  "leak":
\* it holds a secret.  "link": a link, which the gate refuses to look at.
Kinds == {"good", "crash", "breaks", "fails", "weak", "leak", "link"}

\* "platform": docker fails under a service.  "flaky": a service does not come
\* up though its content is good.  "sync": the files do not reach the
\* containers.  "load": the load check cannot run.  "revert": a command puts a
\* changed file back to what the last checkpoint holds.
AllFaults == {"platform", "flaky", "sync", "load", "revert"}

ASSUME OwnerAssumption == Owner \in [File -> Service]
ASSUME KindAssumption == Kind \subseteq Kinds
ASSUME ContractAssumption == Contracted \subseteq Service
ASSUME ModeAssumption == Modes \subseteq {"full", "light"} /\ Required \in BOOLEAN
ASSUME AttemptsAssumption == MaxVerifyAttempts \in Nat
ASSUME FaultsAssumption == Faults \subseteq AllFaults
ASSUME WritesAssumption == MaxWrites \in Nat

VARIABLES
  mode,   \* options.verify of the run
  \* the project folder
  disk, writes,
  \* Workspace: #changed, and the part of it changedSince(#verifiedVersion)
  changed, unverified,
  \* ChangeTracker: #tracked
  tracked,
  \* the sandbox: the content each file had when its service last started
  loaded, up,
  \* VerificationGate, between two checks
  attempts, maxAttempts, failedServices, lastOutcome,
  \* VerificationGate, inside a check
  \* (spoiled: a secret was found, or files did not arrive as they should)
  phase, files, wanted, toRestart, notReady, spoiled, platform, retried, recordsOk, testsOk

diskVars  == <<disk, writes>>
spaceVars == <<changed, unverified, tracked>>
boxVars   == <<loaded, up>>
gateVars  == <<attempts, maxAttempts, failedServices, lastOutcome>>
checkVars == <<files, wanted, toRestart, notReady, spoiled, platform, retried, recordsOk, testsOk>>
vars == <<mode, diskVars, spaceVars, boxVars, gateVars, phase, checkVars>>

\* A content is told from every other by its number.  The checkpoint holds
\* number 0, the same for every file.
Content == [n : 0 .. MaxWrites + 1, kind : Kinds]
Base == [n |-> 0, kind |-> "good"]
None == [n |-> 0, kind |-> "link"]   \* no fingerprint; never a content

Phases == {"idle", "scan", "restart", "judge", "tests", "recheck"}
Outcomes == {"none", "pass", "retry", "exhausted"}

TypeOK ==
  /\ mode \in Modes
  /\ disk \in [File -> Content] /\ writes \in 0 .. MaxWrites
  /\ changed \subseteq File /\ unverified \subseteq changed
  /\ tracked \in [File -> Content]
  /\ loaded \in [File -> Content] /\ up \in [Service -> BOOLEAN]
  /\ attempts \in Nat /\ maxAttempts \in Nat
  /\ failedServices \subseteq Service /\ lastOutcome \in Outcomes
  /\ phase \in Phases /\ files \subseteq changed
  /\ toRestart \subseteq wanted /\ wanted \subseteq Service /\ notReady \subseteq wanted
  /\ spoiled \in BOOLEAN /\ platform \in {"none", "service", "sync", "load"}
  /\ retried \in BOOLEAN /\ recordsOk \in BOOLEAN /\ testsOk \in BOOLEAN

-----------------------------------------------------------------------------
(* ChangeTracker.sync().                                                   *)

Pending == {f \in File : disk[f] # Base}
Rejected == {f \in Pending : disk[f].kind = "link"}
ChangedNow == {f \in Pending \ Rejected : tracked[f] # disk[f]}

SyncedPrints == [f \in File |-> IF f \in Pending \ Rejected THEN disk[f] ELSE None]

\* Files and fingerprints are read one after the other; a file that changes
\* after its own fingerprint was taken counts as changed after the sync.
Sync ==
  /\ tracked' = SyncedPrints
  /\ changed' = changed \cup ChangedNow

-----------------------------------------------------------------------------
(* What the next check would look at.                                      *)

Owners(F) == {Owner[f] : f \in F}

\* Mutant of Owed: a service that was not ready is not looked at again.
OwedChangesOnly == unverified \cup ChangedNow

\* #filesToVerify() after the sync: what changed since the last check, and
\* the changed files of the services that were not ready then.
Owed ==
  unverified \cup ChangedNow
    \cup {f \in changed \cup ChangedNow : Owner[f] \in failedServices}

-----------------------------------------------------------------------------
\* Before the run: files changed by hand or by a restored backup wait in the
\* folder, and the first sync (VerificationGate.create) reports them.
Init ==
  /\ mode \in Modes
  /\ \E F \in SUBSET File, k \in Kind \ {"link"} :
       /\ disk = [f \in File |-> IF f \in F THEN [n |-> MaxWrites + 1, kind |-> k] ELSE Base]
       /\ tracked = [f \in File |-> IF f \in F THEN disk[f] ELSE None]
       /\ changed = F /\ unverified = F
  /\ writes = 0
  /\ loaded = [f \in File |-> Base] /\ up = [s \in Service |-> TRUE]
  /\ attempts = 0 /\ maxAttempts = MaxVerifyAttempts
  /\ failedServices = {} /\ lastOutcome = "none"
  /\ phase = "idle" /\ files = {} /\ wanted = {} /\ toRestart = {} /\ notReady = {}
  /\ spoiled = FALSE /\ platform = "none" /\ retried = FALSE
  /\ recordsOk = TRUE /\ testsOk = FALSE

-----------------------------------------------------------------------------
(* The folder changes.                                                     *)

Put(f, k) ==
  /\ writes < MaxWrites
  /\ writes' = writes + 1
  /\ disk' = [disk EXCEPT ![f] = [n |-> writes + 1, kind |-> k]]

\* Workspace.write, edit, remove: #record notes the file and its version.
\* Tools run only while no check does, and they never make links.
Record(f) == changed' = changed \cup {f} /\ unverified' = unverified \cup {f}

ToolWrite(f, k) ==
  /\ phase = "idle"
  /\ k # "link"
  /\ Put(f, k)
  /\ Record(f)
  /\ UNCHANGED <<tracked, boxVars, gateVars, phase, checkVars>>

\* The agent takes its own change back.
ToolRevert(f) ==
  /\ phase = "idle"
  /\ disk[f] # Base
  /\ disk' = [disk EXCEPT ![f] = Base]
  /\ Record(f)
  /\ UNCHANGED <<writes, tracked, boxVars, gateVars, phase, checkVars>>

\* A command in a container, or somebody at the computer.
OutsideWrite(f, k) ==
  /\ Put(f, k)
  /\ UNCHANGED <<spaceVars, boxVars, gateVars, phase, checkVars>>

OutsideRevert(f) ==
  /\ "revert" \in Faults
  /\ disk[f] # Base
  /\ disk' = [disk EXCEPT ![f] = Base]
  /\ UNCHANGED <<writes, spaceVars, boxVars, gateVars, phase, checkVars>>

-----------------------------------------------------------------------------
(* The end of a check.                                                     *)

\* check() notes the outcome; its local variables are gone.  (platform stays:
\* it also stands for the report of the last check.)
End(outcome) ==
  /\ lastOutcome' = outcome
  /\ phase' = "idle" /\ files' = {} /\ wanted' = {} /\ toRestart' = {} /\ notReady' = {}
  /\ spoiled' = FALSE /\ retried' = FALSE /\ recordsOk' = TRUE /\ testsOk' = FALSE

\* #failure(): counts, then sends the agent back or gives up.
Failure ==
  /\ attempts' = attempts + 1
  /\ End(IF attempts + 1 >= maxAttempts THEN "exhausted" ELSE "retry")

Uncounted(outcome) == End(outcome) /\ attempts' = attempts

\* Nobody can repair it from inside the project: give up without counting.
GiveUp == Uncounted("exhausted")

Pass == Uncounted("pass")

\* Mutant of Records: evaluation assets are not compared.
RecordsOfPaths == Rejected = {}

\* The checks made before anything runs: the records and evaluation assets
\* as they are on the disk, and no path the tracker refuses.
Records == Rejected = {} /\ \A f \in File : disk[f].kind # "weak"

-----------------------------------------------------------------------------
(* A check, phase by phase.                                                *)

\* No file changed in this run: only the records are looked at.
CheckNothing ==
  /\ phase = "idle"
  /\ changed \cup ChangedNow = {}
  /\ Sync
  /\ IF Records THEN Pass ELSE Failure
  /\ UNCHANGED <<diskVars, unverified, boxVars, maxAttempts, failedServices, platform>>

\* verifiedVersion moves on before anything has been verified.
StartCheck ==
  /\ phase = "idle"
  /\ changed \cup ChangedNow # {}
  /\ Sync
  /\ files' = Owed
  /\ unverified' = {}
  /\ recordsOk' = Records
  \* services in which a process of an earlier command is still running
  /\ \E strays \in SUBSET Service : wanted' = Owners(Owed) \cup strays
  /\ toRestart' = wanted'
  /\ notReady' = {} /\ spoiled' = FALSE /\ platform' = "none"
  /\ retried' = FALSE /\ testsOk' = FALSE
  /\ phase' = "scan"
  /\ UNCHANGED <<diskVars, boxVars, gateVars>>

\* findSecretLeaks, then sandbox.sync: a file that does not arrive ends
\* verifyChanges with an empty list of restarted services, for the platform's
\* reasons or as a failure like any other.
Scan ==
  /\ phase = "scan"
  /\ \/ /\ phase' = "restart"
        /\ spoiled' = (\E f \in files : disk[f].kind = "leak") /\ UNCHANGED platform
     \/ /\ "sync" \in Faults /\ files # {} /\ phase' = "judge"
        /\ \/ platform' = "sync" /\ UNCHANGED spoiled
           \/ spoiled' = TRUE /\ UNCHANGED platform
  /\ UNCHANGED <<diskVars, spaceVars, boxVars, gateVars, files, wanted, toRestart,
                 notReady, retried, recordsOk, testsOk>>

Crashes(s) == \E f \in File : Owner[f] = s /\ disk[f].kind = "crash"

\* The container is made anew and reads its files.
Restart(s) ==
  /\ phase = "restart"
  /\ s \in toRestart
  /\ toRestart' = toRestart \ {s}
  /\ loaded' = [f \in File |-> IF Owner[f] = s THEN disk[f] ELSE loaded[f]]
  /\ \E ready \in {~Crashes(s), ~Crashes(s) /\ "flaky" \notin Faults} :
       /\ up' = [up EXCEPT ![s] = ready]
       /\ notReady' = IF ready THEN notReady ELSE notReady \cup {s}
  /\ UNCHANGED <<diskVars, spaceVars, gateVars, phase, files, wanted, spoiled, platform,
                 retried, recordsOk, testsOk>>

\* docker fails: no new container.
RestartFails(s) ==
  /\ phase = "restart"
  /\ "platform" \in Faults
  /\ s \in toRestart
  /\ toRestart' = toRestart \ {s}
  /\ up' = [up EXCEPT ![s] = FALSE]
  /\ notReady' = notReady \cup {s}
  /\ platform' = "service"
  /\ UNCHANGED <<diskVars, spaceVars, loaded, gateVars, phase, files, wanted, spoiled,
                 retried, recordsOk, testsOk>>

Restarted ==
  /\ phase = "restart"
  /\ toRestart = {}
  /\ phase' = "judge"
  /\ UNCHANGED <<diskVars, spaceVars, boxVars, gateVars, checkVars>>

\* Mutant of RetryPlatform: a platform failure is tried again until it is gone.
RetryPlatformAgain ==
  /\ phase = "judge"
  /\ platform # "none"
  /\ retried' = TRUE
  /\ platform' = "none" /\ notReady' = {}
  /\ toRestart' = wanted
  /\ phase' = "scan"
  /\ UNCHANGED <<diskVars, spaceVars, boxVars, gateVars, files, wanted, spoiled, recordsOk,
                 testsOk>>

\* A platform failure is tried once more, services that came up included.
RetryPlatform ==
  /\ phase = "judge"
  /\ platform # "none" /\ ~retried
  /\ retried' = TRUE
  /\ platform' = "none" /\ notReady' = {}
  /\ toRestart' = wanted
  /\ phase' = "scan"
  /\ UNCHANGED <<diskVars, spaceVars, boxVars, gateVars, files, wanted, spoiled, recordsOk,
                 testsOk>>

\* Contracts are fetched and compared for every service, restarted or not.
ReportOk ==
  /\ notReady = {}
  /\ ~spoiled
  /\ \A s \in Contracted : up[s]
  /\ \A f \in File : Owner[f] \in Contracted => loaded[f].kind # "breaks"

\* A full check has more to do.
GoOn ==
  /\ phase' = "tests"
  /\ UNCHANGED <<attempts, lastOutcome, files, wanted, toRestart, notReady, spoiled, retried,
                 recordsOk, testsOk>>

\* Mutant of Judge: the services that were not ready are not remembered.
JudgeForgetful ==
  /\ phase = "judge"
  /\ platform = "none" \/ retried
  /\ failedServices' = {}
  /\ IF platform # "none" THEN GiveUp
     ELSE IF ~ReportOk THEN Failure
     ELSE IF mode = "full" THEN GoOn
     ELSE IF recordsOk THEN Pass
     ELSE Failure
  /\ UNCHANGED <<diskVars, spaceVars, boxVars, maxAttempts, platform>>

\* The report of verifyChanges is in.
Judge ==
  /\ phase = "judge"
  /\ platform = "none" \/ retried
  /\ failedServices' = notReady
  /\ IF platform # "none" THEN GiveUp
     ELSE IF ~ReportOk THEN Failure
     ELSE IF mode = "full" THEN GoOn
     ELSE IF recordsOk THEN Pass
     ELSE Failure
  /\ UNCHANGED <<diskVars, spaceVars, boxVars, maxAttempts, platform>>

\* runDeclaredChecks: pages and requests meet what the services started with,
\* test commands meet the folder.  The load check comes last.
Tests ==
  /\ phase = "tests"
  /\ testsOk' = \A f \in File : disk[f].kind # "fails" /\ loaded[f].kind # "fails"
  /\ platform' \in {"none"} \cup (Faults \cap {"load"})
  /\ phase' = "recheck"
  /\ UNCHANGED <<diskVars, spaceVars, boxVars, gateVars, files, wanted, toRestart, notReady,
                 spoiled, retried, recordsOk>>

\* Mutant of Unchanged: refused paths are looked for, changes are not.
UnchangedUnlessRejected == Rejected = {}

\* #recheckOutsideChanges finds nothing new.
Unchanged == ChangedNow = {} /\ Rejected = {}

\* #recheckEvaluationAssets, #recheckOutsideChanges, and the verdict.
Recheck ==
  /\ phase = "recheck"
  /\ Sync
  /\ unverified' = unverified \cup ChangedNow
  /\ IF platform = "load" THEN GiveUp
     ELSE IF ~(testsOk /\ recordsOk /\ Records /\ Unchanged) THEN Failure
     ELSE IF Required THEN Pass
     ELSE GiveUp
  /\ UNCHANGED <<diskVars, boxVars, maxAttempts, failedServices, platform>>

\* grantRetryBudget: the caller changed the model.
Max2(a, b) == IF a > b THEN a ELSE b
Extended(budget) == Max2(maxAttempts, attempts + budget)

-----------------------------------------------------------------------------
CheckStep ==
  \/ Scan \/ Restarted \/ RetryPlatform \/ Judge \/ Tests \/ Recheck
  \/ \E s \in Service : Restart(s) \/ RestartFails(s)

Outside == \E f \in File : OutsideRevert(f) \/ \E k \in Kind : OutsideWrite(f, k)

Tool == \E f \in File : ToolRevert(f) \/ \E k \in Kind : ToolWrite(f, k)

\* A caller that checks whenever it likes, until the gate gives up.
Next ==
  /\ \/ Tool \/ Outside \/ CheckStep
     \/ lastOutcome # "exhausted" /\ (CheckNothing \/ StartCheck)
     \/ phase = "idle" /\ lastOutcome = "exhausted" /\ UNCHANGED vars
  /\ UNCHANGED mode

Spec == Init /\ [][Next]_vars

-----------------------------------------------------------------------------
(* Properties.                                                             *)

\* What the runner reports as verified (verifiedFingerprints), the files that
\* are not in the list being those of the checkpoint.
Kept(f) == IF tracked[f] = None THEN Base ELSE tracked[f]

Passed == phase = "idle" /\ lastOutcome = "pass"

\* Commits hold what the gate verified (docs/decisions.md, addition to
\* ADR-132): whatever commands wrote while the check went on, a full check
\* that passes has run every service on exactly the contents it reports.
PassIsWhatRan ==
  mode = "full" /\ Passed =>
    \A f \in File : /\ loaded[f] = Kept(f)
                    /\ tracked[f] # None => up[Owner[f]]

\* What a full check reports as verified holds nothing that one of its checks
\* rejects, though each check looked at the folder at a moment of its own.
PassedIsSound ==
  mode = "full" /\ Passed =>
    \A f \in File : /\ Kept(f).kind \notin {"crash", "fails", "weak", "link"}
                    /\ Owner[f] \in Contracted => Kept(f).kind # "breaks"

\* Between two checks nothing is forgotten: a file whose service runs on other
\* content is one the next check restarts that service for
\* (gate.ts #filesToVerify), whatever way the last check ended.
StaleIsOwed ==
  phase = "idle" =>
    \A f \in File :
      loaded[f] # disk[f] /\ disk[f].kind # "link" => Owner[f] \in Owners(Owed)

\* gate.ts `verified`, verify.ts findSecretLeaks: the changed files were
\* verified and none holds a secret.
NoSecretPasses == Passed => \A f \in File : Kept(f).kind # "leak"

\* gate.ts #filesToVerify: a service that was not ready last time is looked at
\* again even if nothing was repaired.
PassMeansUp == Passed => \A s \in Service : up[s]

=============================================================================
