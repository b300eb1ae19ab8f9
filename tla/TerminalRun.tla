---------------------------- MODULE TerminalRun ----------------------------
(***************************************************************************)
(* Runs driven by a CLI in the session's terminal                          *)
(* (apps/studio/lib/server/sessions.ts). No runner waits for such a run:   *)
(* the hooks of the CLI open it, check it and close it, each an HTTP       *)
(* request of its own, while the chat window, a cancel, the watcher of     *)
(* violations and a stop act on the same session. What a run has queued    *)
(* is done in order (serialQueue); everything else interleaves at every    *)
(* await.                                                                  *)
(***************************************************************************)
EXTENDS Naturals, Sequences, FiniteSets

CONSTANTS
  MaxRuns,      \* bound on the runs of a behaviour
  MaxHooks,     \* bound on the requests of hooks that are opening a run
  Cards,        \* may the session carry the limits of a task's card
  Timings,      \* what may come at a bad moment: "opening", "card"
  MaxAttempts,  \* TERMINAL_MAX_VERIFY_ATTEMPTS
  MaxJobs       \* bound on what a run has queued

ASSUME RunsAssumption == MaxRuns \in Nat
ASSUME HooksAssumption == MaxHooks \in Nat
ASSUME CardsAssumption == Cards \subseteq BOOLEAN
ASSUME AttemptsAssumption == MaxAttempts \in Nat \ {0}
ASSUME JobsAssumption == MaxJobs \in Nat

VARIABLES
  run,      \* session.run
  running,  \* session.snapshot.running
  stop,     \* session.stop.signal.aborted
  pending,  \* session.pendingViolation is set
  card,     \* session.terminalTaskContext is set
  runs,     \* every run (ActiveRun, TerminalRunState)
  jobs,     \* what a terminal run's serial queue holds, the head in progress
  at,       \* which await the head, or a chat run's execute, is at
  saving,   \* hooks that are saving what was changed outside
  printing  \* hooks that are taking the fingerprint of a read only run

vars == <<run, running, stop, pending, card, runs, jobs, at, saving, printing>>

Runs == 1 .. MaxRuns
None == 0

Results == {"open", "done", "failed", "cancelled"}  \* "failed" is "error" as well
JobKinds == {"finish", "violation", "cancel", "cliEnd"}
InCheck == {"files", "tests", "scope", "verify", "failed", "gate", "commit", "regit"}
Places == InCheck \cup {"idle", "git", "readOnlyGit", "print", "revert", "chat", "window"}

RunRecord == [kind : {"unused", "chat", "terminal"}, readOnly : BOOLEAN, cancelled : BOOLEAN,
              violation : BOOLEAN, prepared : {"none", "pending", "ready"}, tries : Nat,
              result : Results, over : BOOLEAN, committed : BOOLEAN]

Unused == [kind |-> "unused", readOnly |-> FALSE, cancelled |-> FALSE, violation |-> FALSE,
           prepared |-> "none", tries |-> 0, result |-> "open", over |-> FALSE, committed |-> FALSE]

TypeOK ==
  /\ run \in Runs \cup {None}
  /\ running \in BOOLEAN /\ stop \in BOOLEAN /\ pending \in BOOLEAN /\ card \in BOOLEAN
  /\ runs \in [Runs -> RunRecord]
  /\ jobs \in [Runs -> Seq(JobKinds)]
  /\ at \in [Runs -> Places]
  /\ saving \in Nat /\ printing \in Nat

Init ==
  /\ run = None /\ running = FALSE /\ stop = FALSE /\ pending = FALSE
  /\ card \in Cards
  /\ runs = [r \in Runs |-> Unused]
  /\ jobs = [r \in Runs |-> <<>>]
  /\ at = [r \in Runs |-> "idle"]
  /\ saving = 0 /\ printing = 0

-----------------------------------------------------------------------------
Settled(r) == runs[r].result # "open"
Active(r) == runs[r].kind # "unused" /\ ~runs[r].over

(* openTerminalRun finds the run r.                                        *)
Open(r) ==
  /\ run = r
  /\ runs[r].kind = "terminal"
  /\ ~Settled(r)
  /\ ~runs[r].cancelled

NoneOpen == \A r \in Runs : ~Open(r)

(* r is the next run to begin (session.runsStarted).                       *)
Unstarted(r) == runs[r].kind = "unused" /\ \A q \in Runs : q < r => runs[q].kind # "unused"

(* Mutant of Busy: a run that is being saved is not on the session.        *)
RunOnSession == run # None

(* terminalBusy: a request is in progress, or is being saved.              *)
Busy == run # None \/ running

Queue(r, job) == jobs' = [jobs EXCEPT ![r] = Append(@, job)]
Room(r, job) == Len(jobs[r]) < MaxJobs /\ \A i \in 1 .. Len(jobs[r]) : jobs[r][i] # job
Go(r, place) == at' = [at EXCEPT ![r] = place]

-----------------------------------------------------------------------------
(* The hooks of the CLI.                                                   *)

(* terminalVerification: the baseline of the run is begun by the first     *)
(* tool that asks for it. A tool is answered when it is there; the         *)
(* studio's own tools then run in the queue, where they only delay what    *)
(* comes after them.                                                       *)
AskBaseline(r) == runs' = [runs EXCEPT ![r].prepared = IF @ = "none" THEN "pending" ELSE @]

(* A prompt or a tool that may write while no run is open: what was        *)
(* changed outside is saved before a run is opened.                        *)
StartOpening ==
  /\ ~stop /\ NoneOpen /\ ~Busy
  /\ saving + printing < MaxHooks
  /\ saving' = saving + 1
  /\ UNCHANGED <<run, running, stop, pending, card, runs, jobs, at, printing>>

(* A prompt for the open run changes nothing, but one marked read only     *)
(* marks the run, when it has read the fingerprint.                        *)
ReadOnlyPrompt(r) ==
  /\ ~stop /\ Open(r)
  /\ runs' = [runs EXCEPT ![r].readOnly = TRUE]
  /\ UNCHANGED <<run, running, stop, pending, card, jobs, at, saving, printing>>

(* A tool that may write asks before it does (PreToolUse), or is one of    *)
(* the studio's own (MCP). A read only run denies it.                      *)
Tool(r) ==
  /\ ~stop /\ Open(r)
  /\ ~runs[r].readOnly /\ AskBaseline(r)
  /\ UNCHANGED <<run, running, stop, pending, card, jobs, at, saving, printing>>

(* The run r begins, from here without an await.                           *)
OpenRun(r, readOnly, prepared) ==
  /\ Unstarted(r)
  /\ runs' = [runs EXCEPT ![r] = [Unused EXCEPT !.kind = "terminal", !.readOnly = readOnly,
                                                !.prepared = prepared]]
  /\ run' = r
  /\ running' = TRUE

(* Nobody is taking the fingerprint that a read only run begins with; with *)
(* "opening" that may be.                                                  *)
Undisturbed == "opening" \in Timings \/ printing = 0

(* The edits made outside are saved: the session is looked at again. A     *)
(* tool goes on in the run that was opened meanwhile, or in its own; a     *)
(* read only run still has its fingerprint taken before it is opened.      *)
Saved ==
  /\ saving > 0
  /\ saving' = saving - 1
  /\ \/ \E r \in Runs : Open(r) /\ ~runs[r].readOnly /\ AskBaseline(r) /\ UNCHANGED <<run, running, printing>>
     \/ NoneOpen /\ ~Busy /\ Undisturbed /\ printing' = printing + 1 /\ UNCHANGED <<run, running, runs>>
     \/ /\ NoneOpen /\ ~Busy /\ Undisturbed
        /\ \E r \in Runs, prepared \in {"none", "pending"} : OpenRun(r, FALSE, prepared)
        /\ UNCHANGED printing
  /\ UNCHANGED <<stop, pending, card, jobs, at>>

Printed ==
  /\ printing > 0
  /\ printing' = printing - 1
  /\ \E r \in Runs : OpenRun(r, TRUE, "none")
  /\ UNCHANGED <<stop, pending, card, jobs, at, saving>>

(* The edits cannot be saved, the fingerprint cannot be read, the session  *)
(* was busy, or a prompt found a run to go on with: none is opened.        *)
NotOpened ==
  /\ \/ saving > 0 /\ saving' = saving - 1 /\ UNCHANGED printing
     \/ printing > 0 /\ printing' = printing - 1 /\ UNCHANGED saving
  /\ UNCHANGED <<run, running, stop, pending, card, runs, jobs, at>>

(* The baseline is there, or could not be made: the sandbox does not come  *)
(* up, and a check that waits for it throws.                               *)
Prepared(r) ==
  /\ runs[r].prepared = "pending"
  /\ \/ runs' = [runs EXCEPT ![r].prepared = "ready"] /\ UNCHANGED at
     \/ /\ runs' = [runs EXCEPT ![r].prepared = "none"]
        /\ IF at[r] = "verify" THEN Go(r, "failed") ELSE UNCHANGED at
  /\ UNCHANGED <<run, running, stop, pending, card, jobs, saving, printing>>

(* The end of a turn (Stop hook), and of the CLI.                          *)
TurnEnd(r) ==
  /\ ~stop /\ Open(r) /\ Room(r, "finish")
  /\ Queue(r, "finish")
  /\ UNCHANGED <<run, running, stop, pending, card, runs, at, saving, printing>>

(* Mutant of Listening: the check has begun before the history is looked   *)
(* at, where no cancel is seen.                                            *)
ListeningIdle(r) == at[r] = "idle"

(* No check of r is in progress (TerminalRunState.checking), which would   *)
(* close the run itself.                                                   *)
Listening(r) == at[r] \notin InCheck

CliEnd(r) ==
  /\ ~stop /\ Open(r) /\ Room(r, "cliEnd")
  /\ Listening(r)
  /\ Queue(r, "cliEnd")
  /\ UNCHANGED <<run, running, stop, pending, card, runs, at, saving, printing>>

-----------------------------------------------------------------------------
(* Everyone else.                                                          *)

(* A request of the chat window looks at snapshot.running only.            *)
SendMessage ==
  /\ ~stop /\ ~running
  /\ Undisturbed
  /\ \E r \in Runs :
       /\ Unstarted(r)
       /\ run' = r
       /\ runs' = [runs EXCEPT ![r].kind = "chat"]
       /\ Go(r, "chat")
  /\ running' = TRUE
  /\ UNCHANGED <<stop, pending, card, jobs, saving, printing>>

(* Its runner is done; its changes are saved or reverted and a cancel      *)
(* comes too late.                                                         *)
ChatResult(r) ==
  /\ at[r] = "chat" /\ ~runs[r].cancelled
  /\ run' = None
  /\ Go(r, "window")
  /\ UNCHANGED <<running, stop, pending, card, runs, jobs, saving, printing>>

ChatEnds(r) ==
  /\ \/ /\ at[r] = "window"
        /\ \E status \in {"done", "failed"} :
             runs' = [runs EXCEPT ![r].result = status, ![r].over = TRUE,
                                  ![r].committed = (status = "done")]
     \/ /\ at[r] = "chat" /\ runs[r].cancelled
        /\ runs' = [runs EXCEPT ![r].result = "cancelled", ![r].over = TRUE]
  /\ run' = None
  /\ running' = FALSE
  /\ Go(r, "idle")
  /\ UNCHANGED <<stop, pending, card, jobs, saving, printing>>

(* cancelRun, or a budget that is spent. The listener of a terminal run    *)
(* queues the closing, unless a check is in progress, which sees the       *)
(* signal itself.                                                          *)
Cancel(r) ==
  /\ run = r /\ ~runs[r].cancelled
  /\ "card" \in Timings \/ ~(card /\ at[r] \in {"files", "tests", "scope"})
  /\ runs' = [runs EXCEPT ![r].cancelled = TRUE]
  /\ IF runs[r].kind = "terminal" /\ Listening(r) THEN Queue(r, "cancel") ELSE UNCHANGED jobs
  /\ UNCHANGED <<run, running, stop, pending, card, at, saving, printing>>

(* terminalViolation: the watcher of the terminal found the gateway's      *)
(* files changed or a CLI without hooks.                                   *)
Violation ==
  /\ ~stop
  /\ \/ \E r \in Runs :
          /\ Open(r) /\ Room(r, "violation")
          /\ runs' = [runs EXCEPT ![r].violation = TRUE]
          /\ Queue(r, "violation")
          /\ UNCHANGED pending
     \/ /\ NoneOpen /\ ~pending
        /\ pending' = TRUE
        /\ UNCHANGED <<runs, jobs>>
  /\ UNCHANGED <<run, running, stop, card, at, saving, printing>>

(* stopSession: an open run is closed here, since no runner will.          *)
StopSession ==
  /\ ~stop
  /\ stop' = TRUE
  /\ pending' = FALSE
  /\ IF NoneOpen
     THEN UNCHANGED <<run, runs>>
     ELSE /\ runs' = [runs EXCEPT ![run].result = "cancelled", ![run].over = TRUE]
          /\ run' = None
  /\ UNCHANGED <<running, card, jobs, at, saving, printing>>

(* ... and the sandbox is gone.                                            *)
Stopped ==
  /\ stop /\ running
  /\ running' = FALSE
  /\ UNCHANGED <<run, stop, pending, card, runs, jobs, at, saving, printing>>

-----------------------------------------------------------------------------
(* The serial queue of a terminal run.                                     *)

Pop(r) == jobs' = [jobs EXCEPT ![r] = Tail(@)]

(* The job of r is over and the run stays as it is.                        *)
JobDone(r) == Pop(r) /\ Go(r, "idle") /\ UNCHANGED <<run, running, runs>>

(* announceTerminalRun of the run r, whose result is `status`; nothing but *)
(* that is kept of it.                                                     *)
Announce(r, status, saved) ==
  /\ runs' = [runs EXCEPT ![r] = [Unused EXCEPT !.kind = "terminal", !.result = status,
                                                !.over = TRUE, !.committed = saved]]
  /\ run' = IF run = r THEN None ELSE run
  /\ running' = IF stop THEN running ELSE FALSE
  /\ Pop(r) /\ Go(r, "idle")

(* Mutant of Settle: it does not look whether the run is settled.          *)
SettleAgain(r, status, saved) == Announce(r, status, saved)

(* settleTerminalRun.                                                      *)
Settle(r, status, saved) == IF Settled(r) THEN JobDone(r) ELSE Announce(r, status, saved)

(* abandonTerminalRun, with `now` on the session: the run is settled       *)
(* before its changes are put back, and stays on the session meanwhile.    *)
(* After a stop, a failure of the platform, or without a sandbox there is  *)
(* nothing to put back.                                                    *)
Abandon(r, status, now) ==
  IF Settled(r) THEN JobDone(r)
  ELSE \/ Announce(r, IF stop THEN "cancelled" ELSE status, FALSE)
       \/ /\ ~stop
          /\ runs' = [runs EXCEPT ![r].result = status]
          /\ run' = now
          /\ Go(r, "revert")
          /\ UNCHANGED <<running, jobs>>

Reverted(r) ==
  /\ at[r] = "revert"
  /\ Announce(r, runs[r].result, FALSE)
  /\ UNCHANGED pending

(* The catch of finishTerminalTurn.                                        *)
Throw(r) ==
  IF stop THEN Settle(r, "cancelled", FALSE)
  ELSE Abandon(r, IF runs[r].cancelled THEN "cancelled" ELSE "failed", run)

(* Not passed for a reason outside the gate: back to the agent, up to a    *)
(* limit.                                                                  *)
Unsettled(r, now) ==
  IF runs[r].tries + 1 >= MaxAttempts THEN Abandon(r, "failed", now)
  ELSE /\ Pop(r) /\ Go(r, "idle")
       /\ runs' = [runs EXCEPT ![r].tries = @ + 1]
       /\ run' = now
       /\ UNCHANGED running

Free(r) == runs[r].kind = "terminal" /\ at[r] = "idle" /\ jobs[r] # <<>>

(* Mutant of Finish: the kept violation is taken before the run is known   *)
(* to be open.                                                             *)
FinishTakes(r) ==
  /\ Free(r) /\ Head(jobs[r]) = "finish"
  /\ \/ pending /\ pending' = FALSE /\ Abandon(r, "failed", run)
     \/ ~pending /\ (Settled(r) \/ runs[r].violation) /\ Abandon(r, "failed", run) /\ UNCHANGED pending
     \/ /\ ~pending /\ ~Settled(r) /\ ~runs[r].violation
        /\ Go(r, IF runs[r].readOnly THEN "readOnlyGit" ELSE "git")
        /\ UNCHANGED <<run, running, pending, runs, jobs>>

(* finishTerminalTurn up to its first await: a violation that found no     *)
(* open run, or one of this run, closes it.                                *)
Finish(r) ==
  /\ Free(r) /\ Head(jobs[r]) = "finish"
  /\ IF Settled(r) THEN JobDone(r) /\ UNCHANGED pending
     ELSE \/ pending /\ pending' = FALSE /\ Abandon(r, "failed", run)
          \/ ~pending /\ runs[r].violation /\ Abandon(r, "failed", run) /\ UNCHANGED pending
          \/ /\ ~pending /\ ~runs[r].violation
             /\ Go(r, IF runs[r].readOnly THEN "readOnlyGit" ELSE "git")
             /\ UNCHANGED <<run, running, pending, runs, jobs>>

(* The other jobs close the run: a violation, a cancel, the CLI is gone.   *)
Close(r) ==
  /\ Free(r)
  /\ \/ Head(jobs[r]) = "violation" /\ Abandon(r, "failed", run)
     \/ Head(jobs[r]) = "cancel" /\ Abandon(r, "cancelled", run)
     \/ Head(jobs[r]) = "cliEnd" /\ \E status \in {"failed", "cancelled"} : Abandon(r, status, run)
  /\ UNCHANGED pending

(* reconcileTerminalGit: the history is as remembered, or its commits are  *)
(* unwound; otherwise the run fails. A read of git that throws here is not *)
(* caught: the turn of the agent ends and the run stays open.              *)
GitLooked(r) ==
  /\ at[r] \in {"git", "readOnlyGit"}
  /\ \/ Abandon(r, "failed", run)
     \/ /\ Go(r, IF at[r] = "git" THEN "files" ELSE "print")
        /\ UNCHANGED <<run, running, runs, jobs>>
     \/ JobDone(r)
  /\ UNCHANGED pending

(* A read only run changed nothing, or fails.                              *)
PrintLooked(r) ==
  /\ at[r] = "print"
  /\ Settle(r, "done", FALSE) \/ Abandon(r, "failed", run) \/ JobDone(r)
  /\ UNCHANGED pending

ToVerify(r) ==
  /\ Go(r, "verify")
  /\ AskBaseline(r)
  /\ UNCHANGED <<run, running, jobs>>

(* Without a baseline and with nothing changed the turn was an answer,     *)
(* unless the card has tests of its own.                                   *)
FilesLooked(r) ==
  /\ at[r] = "files"
  /\ \/ runs[r].prepared = "none" /\ Settle(r, "done", FALSE)
     \/ /\ card /\ runs[r].prepared = "none" /\ ~stop /\ ~runs[r].cancelled
        /\ Go(r, "tests") /\ UNCHANGED <<run, running, runs, jobs>>
     \/ card /\ Go(r, "scope") /\ UNCHANGED <<run, running, runs, jobs>>
     \/ ~card /\ ToVerify(r)
     \/ Throw(r)
  /\ UNCHANGED pending

(* The card's tests: nobody looks for a cancel after them.                 *)
TestsRan(r) ==
  /\ at[r] = "tests"
  /\ \/ Throw(r)
     \/ runs[r].violation /\ Abandon(r, "failed", run)
     \/ ~runs[r].violation /\ (Settle(r, "done", FALSE) \/ Unsettled(r, run))
  /\ UNCHANGED pending

(* The card's scope: files outside of it go back to the agent.             *)
ScopeLooked(r) ==
  /\ at[r] = "scope"
  /\ Unsettled(r, run) \/ ToVerify(r) \/ Throw(r)
  /\ UNCHANGED pending

Verified(r) ==
  /\ at[r] = "verify" /\ runs[r].prepared = "ready"
  /\ Go(r, "gate")
  /\ UNCHANGED <<run, running, pending, runs, jobs>>

NotVerified(r) ==
  /\ at[r] = "failed"
  /\ Throw(r)
  /\ UNCHANGED pending

(* Mutant of OffSession: the run can be cancelled while it is saved.       *)
StillOnSession(r) == run

(* A run that passed is taken off the session, so that no cancel reaches   *)
(* it any more.                                                            *)
OffSession(r) == IF run = r THEN None ELSE run

(* The gate's verdict (module Gate). A cancel or a stop is looked for      *)
(* before it counts, a violation before anything is saved.                 *)
Judged(r) ==
  /\ at[r] = "gate"
  /\ \/ Throw(r)
     \/ /\ ~stop /\ ~runs[r].cancelled
        /\ \/ Unsettled(r, run)
           \/ JobDone(r)
           \/ Abandon(r, "failed", run)
           \/ /\ ~runs[r].violation
              /\ run' = OffSession(r)
              /\ Go(r, "commit")
              /\ UNCHANGED <<running, runs, jobs>>
  /\ UNCHANGED pending

(* Mutant of Reattached: the reopened run is not put back.                 *)
NotReattached(r) == run

(* The run is put back on the session, unless another is there or it was   *)
(* closed meanwhile.                                                       *)
Reattached(r) == IF run = None /\ ~Settled(r) THEN r ELSE run

(* saveCheckpoint: the checkpoint is made; or what is staged differs from  *)
(* what was verified, and the run goes on or fails; or HEAD has moved, and *)
(* the history is looked at again; or another failure.                     *)
Committed(r) ==
  /\ at[r] = "commit"
  /\ \/ Settle(r, "done", TRUE)
     \/ Unsettled(r, Reattached(r))
     \/ /\ run' = Reattached(r)
        /\ Go(r, "regit")
        /\ UNCHANGED <<running, runs, jobs>>
     \/ Throw(r)
  /\ UNCHANGED pending

GitLookedAgain(r) ==
  /\ at[r] = "regit"
  /\ Abandon(r, "failed", run) \/ Throw(r)
  /\ UNCHANGED pending

(* The queue of r does one thing.                                          *)
Work(r) ==
  /\ \/ Finish(r) \/ Close(r) \/ GitLooked(r) \/ PrintLooked(r)
     \/ FilesLooked(r) \/ TestsRan(r) \/ ScopeLooked(r) \/ Verified(r) \/ NotVerified(r)
     \/ Judged(r) \/ Committed(r) \/ GitLookedAgain(r) \/ Reverted(r)
  /\ UNCHANGED <<stop, card, saving, printing>>

Chat(r) == ChatResult(r) \/ ChatEnds(r)

Next ==
  \/ StartOpening \/ Saved \/ Printed \/ NotOpened
  \/ \E r \in Runs : Work(r) \/ Prepared(r) \/ Chat(r) \/ ReadOnlyPrompt(r) \/ Tool(r)
                     \/ TurnEnd(r) \/ CliEnd(r) \/ Cancel(r)
  \/ SendMessage \/ Violation \/ StopSession \/ Stopped

(* The queues and the runner of the chat go on; nobody has to send         *)
(* anything.                                                               *)
Fairness == \A r \in Runs : WF_vars(Work(r) \/ Chat(r)) /\ WF_vars(Prepared(r))

Spec == Init /\ [][Next]_vars /\ Fairness

-----------------------------------------------------------------------------
(* Until the session is stopped, at most one run is in progress, one whose *)
(* changes are being put back included: the requests of the chat and of    *)
(* the terminal never work on the same files at the same time              *)
(* (terminalBusy, sendMessage).                                            *)
OneRunAtATime ==
  ~stop => \A r1, r2 \in Runs : Active(r1) /\ Active(r2) => r1 = r2

(* A run that was cancelled, or in which a violation was found, leaves no  *)
(* checkpoint, whenever in its check that came.                            *)
RefusedNeverCommitted ==
  [][\A r \in Runs : ~runs[r].committed /\ runs'[r].committed =>
       ~runs[r].cancelled /\ ~runs[r].violation]_vars

(* A run that is not settled can be reached by a cancel, a violation or    *)
(* the next hook, unless it is being saved just then: a check that reopens *)
(* its run puts it back.                                                   *)
ReachableUnlessSaving ==
  ~stop => \A r \in Runs :
    Active(r) /\ ~Settled(r) => run = r \/ at[r] \in {"commit", "window"}

(* How a run ended is decided once, by whoever of the check, a closing, a  *)
(* cancel and a stop comes first.                                          *)
DecidedOnce == [][\A r \in Runs : Settled(r) => runs'[r].result = runs[r].result]_vars

(* A violation that found no open run is kept until a run fails for it, or *)
(* the session stops.                                                      *)
ViolationNotForgotten ==
  [][pending /\ ~pending' =>
       stop' \/ \E r \in Runs : ~Settled(r) /\ runs'[r].result = "failed"]_vars

(* Who closes the run r: the next step of what it is at looks for a cancel *)
(* or a violation before it goes back to the agent, or a closing is queued *)
(* behind it.                                                              *)
ClosingPlaces == {"chat", "window", "revert", "verify", "failed", "gate", "regit"}

Closer(r) ==
  \/ at[r] \in ClosingPlaces
  \/ at[r] = "files" /\ ~card
  \/ \E i \in DOMAIN jobs[r] : jobs[r][i] \in {"violation", "cancel"}

(* A run that was cancelled, or in which a violation was found, never      *)
(* waits for the agent again: what will close it is queued or in progress, *)
(* wherever its check was, whether the listener queued the closing or left *)
(* it to the check (the listener of beginTerminalRun), and whatever put    *)
(* the run back on the session since.                                      *)
ClosingUnderWay ==
  \A r \in Runs : (runs[r].cancelled \/ runs[r].violation) /\ ~runs[r].over => Closer(r)

(* A run that was cancelled, or in which a violation was found, is closed. *)
RefusedCloses ==
  \A r \in Runs : runs[r].cancelled \/ runs[r].violation ~> runs[r].over
=============================================================================
