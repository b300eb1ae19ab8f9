------------------------ MODULE TerminalRunProofs ------------------------
(***************************************************************************)
(* Runs driven from the session's terminal, for any number of runs, of     *)
(* hooks that open one and of attempts.                                    *)
(*                                                                         *)
(* A step of a run's queue changes the session in few ways, whatever its   *)
(* place in finishTerminalTurn (WorkKinds). The invariant says which runs  *)
(* are in progress, which of them is on the session, and that              *)
(* snapshot.running covers the moments in which none is. A second one      *)
(* (CInv) says that a run that was refused has its closing queued or in    *)
(* progress.                                                               *)
(***************************************************************************)
EXTENDS TerminalRun, TLAPS

\* What the state of a single run may be.
RunInv(r) ==
  /\ runs[r].kind = "unused" => runs[r] = Unused /\ at[r] = "idle" /\ jobs[r] = <<>> /\ run # r
  /\ at[r] \in {"chat", "window"} => runs[r].kind = "chat" /\ ~Settled(r)
  /\ at[r] \notin {"idle", "chat", "window"} => runs[r].kind = "terminal" /\ jobs[r] # <<>>
  /\ runs[r].over \/ at[r] = "revert" => Settled(r)
  /\ runs[r].kind = "chat" => ~runs[r].violation
  /\ at[r] \in {"commit", "window"} => run # r /\ ~runs[r].cancelled /\ ~runs[r].violation

\* Nothing comes between the fingerprint of a read only run and its opening.
Calm == "opening" \notin Timings /\ ~stop

\* Before a stop: who is in progress, and who is on the session.
SessionInv ==
  Calm =>
    /\ OneRunAtATime
    /\ ReachableUnlessSaving
    /\ \A r \in Runs : at[r] # "idle" => Active(r)
    /\ run # None => Active(run)
    /\ \A r \in Runs : Active(r) => running
    /\ printing > 0 => ~running
    /\ printing \in {0, 1}

IInv == TypeOK /\ (\A r \in Runs : RunInv(r)) /\ SessionInv

Decided == Results \ {"open"}

\* The ways in which a step of the queue of r changes the session.
Popped(r) == JobDone(r) /\ (Settled(r) \/ at[r] # "commit")

Announced(r) ==
  \E status \in Decided, saved \in BOOLEAN :
    /\ Settled(r) => at[r] = "revert" /\ status = runs[r].result
    /\ saved => at[r] = "commit"
    /\ Announce(r, status, saved)

Reverting(r) ==
  /\ ~stop /\ ~Settled(r)
  /\ \E status \in Decided : runs' = [runs EXCEPT ![r].result = status]
  /\ run' = run \/ (at[r] = "commit" /\ run' = Reattached(r))
  /\ Go(r, "revert")
  /\ UNCHANGED <<running, jobs>>

Retried(r) ==
  /\ runs' = [runs EXCEPT ![r].tries = @ + 1]
  /\ IF at[r] = "commit" THEN run' = Reattached(r) ELSE run' = run
  /\ Pop(r) /\ Go(r, "idle")
  /\ UNCHANGED running

Looks == (InCheck \ {"commit"}) \cup {"git", "readOnlyGit", "print"}

Moved(r) ==
  /\ at[r] = "idle" => ~Settled(r)
  /\ at[r] # "commit"
  /\ \E place \in Looks : Go(r, place)
  /\ UNCHANGED runs \/ AskBaseline(r)
  /\ UNCHANGED <<run, running, jobs>>

Saving(r) ==
  /\ at[r] = "gate" /\ ~runs[r].cancelled /\ ~runs[r].violation
  /\ run' = OffSession(r)
  /\ Go(r, "commit")
  /\ UNCHANGED <<running, runs, jobs>>

Reopened(r) ==
  /\ at[r] = "commit"
  /\ run' = Reattached(r)
  /\ Go(r, "regit")
  /\ UNCHANGED <<running, runs, jobs>>

WorkKind(r) ==
  Popped(r) \/ Announced(r) \/ Reverting(r) \/ Retried(r) \/ Moved(r) \/ Saving(r) \/ Reopened(r)

LEMMA AbandonKinds ==
  ASSUME NEW r \in Runs, NEW status \in Decided, NEW now,
         now = run \/ (at[r] = "commit" /\ now = Reattached(r)),
         Abandon(r, status, now)
  PROVE  Popped(r) \/ Announced(r) \/ Reverting(r)
BY Zenon DEF Abandon, Popped, Announced, Reverting, Decided, Results

LEMMA SettleKinds ==
  ASSUME NEW r \in Runs, NEW status \in Decided, NEW saved \in BOOLEAN, saved => at[r] = "commit",
         Settle(r, status, saved)
  PROVE  Popped(r) \/ Announced(r)
BY DEF Settle, Popped, Announced

LEMMA ThrowKinds ==
  ASSUME NEW r \in Runs, Throw(r)
  PROVE  Popped(r) \/ Announced(r) \/ Reverting(r)
BY AbandonKinds, SettleKinds DEF Throw, Decided, Results

LEMMA UnsettledKinds ==
  ASSUME NEW r \in Runs, NEW now, now = IF at[r] = "commit" THEN Reattached(r) ELSE run,
         Unsettled(r, now)
  PROVE  Popped(r) \/ Announced(r) \/ Reverting(r) \/ Retried(r)
BY AbandonKinds DEF Unsettled, Retried, Decided, Results

\* A job is of a terminal run, and leaves the rest of the session alone.
LEMMA WorkFrame ==
  ASSUME NEW r \in Runs, TypeOK, RunInv(r), Work(r)
  PROVE  /\ runs[r].kind = "terminal" /\ jobs[r] # <<>> /\ at[r] \notin {"chat", "window"}
         /\ pending' \in BOOLEAN
         /\ UNCHANGED <<stop, card, saving, printing>>
<1>1. Free(r) \/ at[r] \notin {"idle", "chat", "window"}
  BY DEF Work, Finish, Close, GitLooked, PrintLooked, FilesLooked, TestsRan, ScopeLooked, Verified,
         NotVerified, Judged, Committed, GitLookedAgain, Reverted
<1>2. pending' \in BOOLEAN
  BY DEF TypeOK, Work, Finish, Close, GitLooked, PrintLooked, FilesLooked, TestsRan, ScopeLooked, Verified,
         NotVerified, Judged, Committed, GitLookedAgain, Reverted
<1> QED BY <1>1, <1>2 DEF RunInv, Free, Work

LEMMA FinishKinds ==
  ASSUME NEW r \in Runs, Finish(r) \/ Close(r)
  PROVE  Popped(r) \/ Announced(r) \/ Reverting(r) \/ Moved(r)
<1>1. "failed" \in Decided /\ "cancelled" \in Decided
  BY DEF Decided, Results
<1>2. CASE Finish(r)
  <2>1. CASE Settled(r)
    BY <1>2, <2>1 DEF Finish, Popped
  <2>2. CASE Abandon(r, "failed", run)
    BY <1>1, <2>2, AbandonKinds
  <2>3. CASE ~Settled(r) /\ Go(r, IF runs[r].readOnly THEN "readOnlyGit" ELSE "git")
             /\ UNCHANGED <<run, running, pending, runs, jobs>>
    BY <1>2, <2>3 DEF Finish, Free, Moved, Looks, InCheck
  <2> QED BY <1>2, <2>1, <2>2, <2>3 DEF Finish
<1>3. CASE Close(r)
  BY <1>1, <1>3, AbandonKinds DEF Close
<1> QED BY <1>2, <1>3

LEMMA WorkKinds ==
  ASSUME NEW r \in Runs, TypeOK, RunInv(r), Work(r)
  PROVE  WorkKind(r)
<1>1. "failed" \in Decided /\ "cancelled" \in Decided /\ "done" \in Decided
  BY DEF Decided, Results
<1>2. CASE Finish(r) \/ Close(r)
  BY <1>2, FinishKinds DEF WorkKind
<1>3. CASE GitLooked(r)
  <2>1. CASE Abandon(r, "failed", run)
    BY <1>1, <2>1, AbandonKinds DEF WorkKind
  <2>2. CASE Go(r, IF at[r] = "git" THEN "files" ELSE "print") /\ UNCHANGED <<run, running, runs, jobs>>
    BY <1>3, <2>2 DEF GitLooked, Moved, WorkKind, Looks, InCheck
  <2>3. CASE JobDone(r)
    BY <1>3, <2>3 DEF GitLooked, Popped, WorkKind
  <2> QED BY <1>3, <2>1, <2>2, <2>3 DEF GitLooked
<1>4. CASE PrintLooked(r)
  BY <1>1, <1>4, AbandonKinds, SettleKinds DEF PrintLooked, Popped, WorkKind
<1>5. ASSUME at[r] \notin {"idle", "commit"}, ToVerify(r)
      PROVE  WorkKind(r)
  BY <1>5 DEF ToVerify, Moved, WorkKind, Looks, InCheck
<1>6. CASE FilesLooked(r)
  <2>1. CASE Settle(r, "done", FALSE)
    BY <1>1, <2>1, SettleKinds DEF WorkKind
  <2>2. CASE Go(r, "tests") /\ UNCHANGED <<run, running, runs, jobs>>
    BY <1>6, <2>2 DEF FilesLooked, Moved, WorkKind, Looks, InCheck
  <2>3. CASE Go(r, "scope") /\ UNCHANGED <<run, running, runs, jobs>>
    BY <1>6, <2>3 DEF FilesLooked, Moved, WorkKind, Looks, InCheck
  <2>4. CASE ToVerify(r)
    BY <1>5, <1>6, <2>4 DEF FilesLooked
  <2>5. CASE Throw(r)
    BY <2>5, ThrowKinds DEF WorkKind
  <2> QED BY <1>6, <2>1, <2>2, <2>3, <2>4, <2>5 DEF FilesLooked
<1>7. ASSUME at[r] # "commit", Unsettled(r, run)
      PROVE  WorkKind(r)
  BY <1>7, UnsettledKinds DEF WorkKind
<1>8. CASE TestsRan(r)
  BY <1>1, <1>7, <1>8, AbandonKinds, SettleKinds, ThrowKinds DEF TestsRan, WorkKind
<1>9. CASE ScopeLooked(r)
  BY <1>5, <1>7, <1>9, ThrowKinds DEF ScopeLooked, WorkKind
<1>10. CASE Verified(r)
  BY <1>10 DEF Verified, Moved, WorkKind, Looks, InCheck
<1>11. CASE NotVerified(r) \/ GitLookedAgain(r)
  BY <1>1, <1>11, AbandonKinds, ThrowKinds DEF NotVerified, GitLookedAgain, WorkKind
<1>12. CASE Judged(r)
  <2>1. CASE Throw(r) \/ Unsettled(r, run) \/ JobDone(r) \/ Abandon(r, "failed", run)
    BY <1>1, <1>7, <1>12, <2>1, AbandonKinds, ThrowKinds DEF Judged, Popped, WorkKind
  <2>2. CASE ~runs[r].cancelled /\ ~runs[r].violation /\ run' = OffSession(r) /\ Go(r, "commit")
             /\ UNCHANGED <<running, runs, jobs>>
    BY <1>12, <2>2 DEF Judged, Saving, WorkKind
  <2> QED BY <1>12, <2>1, <2>2 DEF Judged
<1>13. CASE Committed(r)
  <2>1. CASE Settle(r, "done", TRUE)
    BY <1>1, <1>13, <2>1, SettleKinds DEF Committed, WorkKind
  <2>2. CASE Unsettled(r, Reattached(r))
    BY <1>13, <2>2, UnsettledKinds DEF Committed, WorkKind
  <2>3. CASE run' = Reattached(r) /\ Go(r, "regit") /\ UNCHANGED <<running, runs, jobs>>
    BY <1>13, <2>3 DEF Committed, Reopened, WorkKind
  <2>4. CASE Throw(r)
    BY <2>4, ThrowKinds DEF WorkKind
  <2> QED BY <1>13, <2>1, <2>2, <2>3, <2>4 DEF Committed
<1>14. CASE Reverted(r)
  <2>1. CASE Settled(r)
    BY <1>14, <2>1 DEF Reverted, Announced, WorkKind, Settled, Decided, TypeOK, RunRecord
  <2> QED BY <1>14, <2>1 DEF Reverted, RunInv
<1> QED
  BY <1>2, <1>3, <1>4, <1>6, <1>8, <1>9, <1>10, <1>11, <1>12, <1>13, <1>14 DEF Work


LEMMA TailType ==
  ASSUME NEW r \in Runs, TypeOK, jobs[r] # <<>>, jobs' = [jobs EXCEPT ![r] = Tail(@)]
  PROVE  jobs' \in [Runs -> Seq(JobKinds)]
BY DEF TypeOK

\* A change of some fields of a run that has begun leaves it a record of a run.
LEMMA RunType ==
  ASSUME NEW r \in Runs, NEW rec \in RunRecord, TypeOK, runs' = [runs EXCEPT ![r] = rec]
  PROVE  runs' \in [Runs -> RunRecord]
BY DEF TypeOK

LEMMA AskBaselineFields ==
  ASSUME NEW r \in Runs, TypeOK, AskBaseline(r)
  PROVE  /\ runs' \in [Runs -> RunRecord]
         /\ \A q \in Runs : /\ runs'[q].kind = runs[q].kind /\ runs'[q].over = runs[q].over
                            /\ runs'[q].result = runs[q].result
                            /\ runs'[q].cancelled = runs[q].cancelled
                            /\ runs'[q].violation = runs[q].violation
                            /\ runs'[q].committed = runs[q].committed
                            /\ q # r => runs'[q] = runs[q]
<1>1. PICK x \in {"none", "pending", "ready"} : runs' = [runs EXCEPT ![r].prepared = x]
  <2>1. runs[r].prepared \in {"none", "pending", "ready"}
    BY DEF TypeOK, RunRecord
  <2> QED BY <2>1 DEF AskBaseline
<1>2. [runs[r] EXCEPT !.prepared = x] \in RunRecord
  BY DEF TypeOK, RunRecord
<1>3. runs' = [runs EXCEPT ![r] = [runs[r] EXCEPT !.prepared = x]]
  BY <1>1
<1>4. runs' \in [Runs -> RunRecord]
  BY <1>2, <1>3, RunType
<1> QED BY <1>1, <1>4 DEF TypeOK, RunRecord

\* The session after a step of a queue; what the step changed is in its kind.
LEMMA PoppedInv ==
  ASSUME NEW r \in Runs, IInv, Popped(r), UNCHANGED <<stop, card, saving, printing>>,
         pending' \in BOOLEAN, jobs[r] # <<>>, runs[r].kind = "terminal"
  PROVE  IInv'
<1>1. /\ UNCHANGED <<run, running, runs>>
      /\ at' = [at EXCEPT ![r] = "idle"]
      /\ jobs' = [jobs EXCEPT ![r] = Tail(@)]
  BY DEF Popped, JobDone, Pop, Go
<1>2. TypeOK'
  BY <1>1 DEF IInv, TypeOK, Places
<1>3. \A q \in Runs : RunInv(q)'
  BY <1>1 DEF IInv, TypeOK, RunInv, Settled, Unused
<1>4. SessionInv'
  BY <1>1 DEF IInv, TypeOK, SessionInv, Calm, OneRunAtATime, ReachableUnlessSaving, RunInv, Active, Settled, Popped
<1> QED BY <1>2, <1>3, <1>4 DEF IInv

LEMMA AnnouncedInv ==
  ASSUME NEW r \in Runs, IInv, Announced(r), UNCHANGED <<stop, card, saving, printing>>,
         pending' \in BOOLEAN, jobs[r] # <<>>, runs[r].kind = "terminal"
  PROVE  IInv'
<1>1. PICK status \in Decided, saved \in BOOLEAN :
        /\ saved => at[r] = "commit"
        /\ Announce(r, status, saved)
  BY DEF Announced
<1>2. /\ runs' = [runs EXCEPT ![r] = [Unused EXCEPT !.kind = "terminal", !.result = status,
                                                   !.over = TRUE, !.committed = saved]]
      /\ run' = IF run = r THEN None ELSE run
      /\ running' = IF stop THEN running ELSE FALSE
      /\ jobs' = [jobs EXCEPT ![r] = Tail(@)]
      /\ at' = [at EXCEPT ![r] = "idle"]
      /\ status \in Results /\ status # "open"
  BY <1>1 DEF Announce, Pop, Go, Decided
<1>3. TypeOK'
  <2>1. jobs' \in [Runs -> Seq(JobKinds)]
    BY <1>2, TailType DEF IInv
  <2>2. runs' \in [Runs -> RunRecord]
    BY <1>2, RunType DEF IInv, RunRecord, Unused
  <2> QED BY <1>2, <2>1, <2>2 DEF IInv, TypeOK, Places
<1>4. \A q \in Runs : RunInv(q)'
  BY <1>2 DEF IInv, TypeOK, RunInv, Settled, Unused, Runs, None
<1>5. Settled(r) => at[r] = "revert"
  BY DEF Announced
<1>6. Calm => Active(r)
  BY <1>5 DEF IInv, RunInv, SessionInv, Calm, Active, Settled
<1>7. SessionInv'
  BY <1>2, <1>6 DEF IInv, TypeOK, SessionInv, Calm, OneRunAtATime, ReachableUnlessSaving, RunInv, Active,
                    Settled, Unused
<1> QED BY <1>3, <1>4, <1>7 DEF IInv

LEMMA RevertingInv ==
  ASSUME NEW r \in Runs, IInv, Reverting(r), UNCHANGED <<stop, card, saving, printing>>,
         pending' \in BOOLEAN, jobs[r] # <<>>, runs[r].kind = "terminal"
  PROVE  IInv'
<1>1. PICK status \in Decided :
        /\ runs' = [runs EXCEPT ![r].result = status]
        /\ run' = run \/ (at[r] = "commit" /\ run' = Reattached(r))
        /\ at' = [at EXCEPT ![r] = "revert"]
        /\ UNCHANGED <<running, jobs>>
  BY DEF Reverting, Go
<1>2. TypeOK'
  <2>1. TypeOK /\ status \in Results
    BY DEF IInv, Decided
  <2>2. runs' \in [Runs -> RunRecord]
    <3>1. [runs[r] EXCEPT !.result = status] \in RunRecord
      BY <2>1 DEF TypeOK, RunRecord
    <3>2. runs' = [runs EXCEPT ![r] = [runs[r] EXCEPT !.result = status]]
      BY <1>1
    <3> QED BY <2>1, <3>1, <3>2, RunType
  <2>3. at' \in [Runs -> Places]
    BY <1>1, <2>1 DEF TypeOK, Places
  <2>4. run' \in Runs \cup {None}
    BY <1>1, <2>1 DEF TypeOK, Reattached
  <2> QED BY <1>1, <2>1, <2>2, <2>3, <2>4 DEF TypeOK
<1>3. \A q \in Runs : RunInv(q)'
  <2> SUFFICES ASSUME NEW q \in Runs PROVE RunInv(q)'
    OBVIOUS
  <2>1. CASE q = r
    BY <1>1, <2>1 DEF IInv, TypeOK, RunRecord, RunInv, Settled, Unused, Reattached, Decided, Reverting
  <2>2. CASE q # r
    BY <1>1, <2>2 DEF IInv, TypeOK, RunRecord, RunInv, Settled, Unused, Reattached, Decided, Reverting
  <2> QED BY <2>1, <2>2
<1>4. SessionInv'
  BY <1>1 DEF IInv, TypeOK, SessionInv, Calm, OneRunAtATime, ReachableUnlessSaving, RunInv, Active, Settled, Reattached, Decided, Reverting
<1> QED BY <1>2, <1>3, <1>4 DEF IInv

LEMMA RetriedInv ==
  ASSUME NEW r \in Runs, IInv, Retried(r), UNCHANGED <<stop, card, saving, printing>>,
         pending' \in BOOLEAN, jobs[r] # <<>>, runs[r].kind = "terminal"
  PROVE  IInv'
<1>1. /\ runs' = [runs EXCEPT ![r].tries = @ + 1]
      /\ IF at[r] = "commit" THEN run' = Reattached(r) ELSE run' = run
      /\ jobs' = [jobs EXCEPT ![r] = Tail(@)]
      /\ at' = [at EXCEPT ![r] = "idle"]
      /\ UNCHANGED running
  BY DEF Retried, Pop, Go
<1>2. TypeOK'
  <2>1. jobs' \in [Runs -> Seq(JobKinds)]
    BY <1>1, TailType DEF IInv
  <2>2. runs' \in [Runs -> RunRecord]
    <3>1. [runs[r] EXCEPT !.tries = @ + 1] \in RunRecord
      <4>1. runs[r] \in RunRecord
        BY DEF IInv, TypeOK
      <4>2. runs[r].tries + 1 \in Nat
        BY <4>1 DEF RunRecord
      <4> QED BY <4>1, <4>2 DEF RunRecord
    <3>2. runs' = [runs EXCEPT ![r] = [runs[r] EXCEPT !.tries = @ + 1]]
      BY <1>1
    <3> QED BY <3>1, <3>2, RunType DEF IInv
  <2> QED BY <1>1, <2>1, <2>2 DEF IInv, TypeOK, Places, Reattached
<1>3. \A q \in Runs : RunInv(q)'
  <2> SUFFICES ASSUME NEW q \in Runs PROVE RunInv(q)'
    OBVIOUS
  <2>1. CASE q = r
    BY <1>1, <2>1 DEF IInv, TypeOK, RunRecord, RunInv, Settled, Reattached
  <2>2. CASE q # r
    BY <1>1, <2>2 DEF IInv, TypeOK, RunRecord, RunInv, Settled, Reattached
  <2> QED BY <2>1, <2>2
<1>4. SessionInv'
  BY <1>1 DEF IInv, TypeOK, SessionInv, Calm, OneRunAtATime, ReachableUnlessSaving, RunInv, Active, Settled, Reattached
<1> QED BY <1>2, <1>3, <1>4 DEF IInv

LEMMA MovedInv ==
  ASSUME NEW r \in Runs, IInv, Moved(r), UNCHANGED <<stop, card, saving, printing>>,
         pending' \in BOOLEAN, jobs[r] # <<>>, runs[r].kind = "terminal"
  PROVE  IInv'
<1>1. PICK place \in Looks :
        /\ at' = [at EXCEPT ![r] = place]
        /\ UNCHANGED runs \/ AskBaseline(r)
        /\ UNCHANGED <<run, running, jobs>>
  BY DEF Moved, Go
<1>2. /\ runs' \in [Runs -> RunRecord]
      /\ \A q \in Runs : /\ runs'[q].kind = runs[q].kind /\ runs'[q].over = runs[q].over
                         /\ runs'[q].result = runs[q].result
                         /\ runs'[q].violation = runs[q].violation
                         /\ q # r => runs'[q] = runs[q]
  BY <1>1, AskBaselineFields DEF IInv, TypeOK
<1>3. TypeOK'
  BY <1>1, <1>2 DEF IInv, TypeOK, Places, InCheck, Looks
<1>4. \A q \in Runs : RunInv(q)'
  <2> SUFFICES ASSUME NEW q \in Runs PROVE RunInv(q)'
    OBVIOUS
  <2>1. CASE q = r
    BY <1>1, <1>2, <2>1 DEF IInv, TypeOK, RunInv, Settled, Looks, InCheck
  <2>2. CASE q # r
    BY <1>1, <1>2, <2>2 DEF IInv, TypeOK, RunInv, Settled
  <2> QED BY <2>1, <2>2
<1>5. Calm => Active(r)
  BY DEF Moved, IInv, RunInv, SessionInv, Calm, Active, Settled
<1>6. SessionInv'
  BY <1>1, <1>2, <1>5 DEF IInv, TypeOK, SessionInv, Calm, OneRunAtATime, ReachableUnlessSaving, Active, Settled,
                           RunInv, Moved, Looks, InCheck
<1> QED BY <1>3, <1>4, <1>6 DEF IInv

LEMMA SavingInv ==
  ASSUME NEW r \in Runs, IInv, Saving(r), UNCHANGED <<stop, card, saving, printing>>,
         pending' \in BOOLEAN, jobs[r] # <<>>, runs[r].kind = "terminal"
  PROVE  IInv'
<1>1. /\ run' = OffSession(r)
      /\ at' = [at EXCEPT ![r] = "commit"]
      /\ UNCHANGED <<running, runs, jobs>>
  BY DEF Saving, Go
<1>2. TypeOK'
  BY <1>1 DEF IInv, TypeOK, RunRecord, Places, InCheck, OffSession
<1>3. \A q \in Runs : RunInv(q)'
  BY <1>1 DEF IInv, TypeOK, RunInv, Settled, Unused, OffSession, Saving, None, Runs
<1>4. SessionInv'
  BY <1>1 DEF IInv, TypeOK, SessionInv, Calm, OneRunAtATime, ReachableUnlessSaving, RunInv, Active, Settled, OffSession, Saving
<1> QED BY <1>2, <1>3, <1>4 DEF IInv

LEMMA ReopenedInv ==
  ASSUME NEW r \in Runs, IInv, Reopened(r), UNCHANGED <<stop, card, saving, printing>>,
         pending' \in BOOLEAN, jobs[r] # <<>>, runs[r].kind = "terminal"
  PROVE  IInv'
<1>1. /\ run' = Reattached(r)
      /\ at' = [at EXCEPT ![r] = "regit"]
      /\ UNCHANGED <<running, runs, jobs>>
  BY DEF Reopened, Go
<1>2. TypeOK'
  BY <1>1 DEF IInv, TypeOK, RunRecord, Places, InCheck, Reattached
<1>3. \A q \in Runs : RunInv(q)'
  BY <1>1 DEF IInv, TypeOK, RunInv, Settled, Unused, Reattached, Reopened
<1>4. SessionInv'
  BY <1>1 DEF IInv, TypeOK, SessionInv, Calm, OneRunAtATime, ReachableUnlessSaving, RunInv, Active, Settled, Reattached, Reopened
<1> QED BY <1>2, <1>3, <1>4 DEF IInv

LEMMA WorkInv ==
  ASSUME NEW r \in Runs, IInv, Work(r)
  PROVE  IInv'
<1>1. TypeOK /\ RunInv(r)
  BY DEF IInv
<1> QED
  BY <1>1, WorkFrame, WorkKinds, PoppedInv, AnnouncedInv, RevertingInv, RetriedInv, MovedInv, SavingInv,
     ReopenedInv DEF WorkKind

-----------------------------------------------------------------------------
LEMMA InitInv == Init => IInv
<1> SUFFICES ASSUME Init PROVE IInv
  OBVIOUS
<1>1. TypeOK
  <2>1. Unused \in RunRecord
    BY DEF Unused, RunRecord, Results
  <2>2. runs \in [Runs -> RunRecord]
    BY <2>1 DEF Init
  <2>3. card \in BOOLEAN
    BY CardsAssumption DEF Init
  <2>4. jobs \in [Runs -> Seq(JobKinds)]
    BY DEF Init
  <2> QED BY <2>2, <2>3, <2>4 DEF Init, TypeOK, Places
<1>2. \A r \in Runs : RunInv(r)
  BY DEF Init, RunInv, Unused, None, Runs
<1>3. SessionInv
  BY DEF Init, SessionInv, Calm, OneRunAtATime, ReachableUnlessSaving, Active, Unused, None
<1> QED BY <1>1, <1>2, <1>3 DEF IInv

\* A run that has begun is marked, or something is queued for it.
LEMMA MarkInv ==
  ASSUME NEW r \in Runs, IInv, runs[r].kind # "unused",
         runs' \in [Runs -> RunRecord],
         \A q \in Runs : q # r => runs'[q] = runs[q],
         runs'[r].kind = runs[r].kind, runs'[r].over = runs[r].over, runs'[r].result = runs[r].result,
         runs[r].kind = "chat" => runs'[r].violation = runs[r].violation,
         at[r] \in {"commit", "window"} =>
           runs'[r].cancelled = runs[r].cancelled /\ runs'[r].violation = runs[r].violation,
         jobs' = jobs \/ \E job \in JobKinds : jobs' = [jobs EXCEPT ![r] = Append(@, job)],
         pending' \in BOOLEAN, saving' \in Nat,
         UNCHANGED <<run, running, stop, card, at, printing>>
  PROVE  IInv'
<1>1. /\ jobs' \in [Runs -> Seq(JobKinds)]
      /\ \A q \in Runs : q # r => jobs'[q] = jobs[q]
      /\ jobs[r] # <<>> => jobs'[r] # <<>>
  <2>1. CASE jobs' = jobs
    BY <2>1 DEF IInv, TypeOK
  <2>2. ASSUME NEW job \in JobKinds, jobs' = [jobs EXCEPT ![r] = Append(@, job)]
        PROVE  <1>1
    <3>1. jobs[r] \in Seq(JobKinds)
      BY DEF IInv, TypeOK
    <3>2. Append(jobs[r], job) \in Seq(JobKinds) /\ Append(jobs[r], job) # <<>>
      BY <3>1
    <3> QED BY <2>2, <3>2 DEF IInv, TypeOK
  <2> QED BY <2>1, <2>2
<1>2. TypeOK'
  BY <1>1 DEF IInv, TypeOK
<1>3. \A q \in Runs : RunInv(q)'
  BY <1>1 DEF IInv, RunInv, Settled
<1>4. \A q \in Runs : Active(q)' = Active(q) /\ Settled(q)' = Settled(q)
  BY DEF Active, Settled
<1>5. SessionInv'
  BY <1>4 DEF IInv, TypeOK, SessionInv, Calm, OneRunAtATime, ReachableUnlessSaving, Runs, None
<1> QED BY <1>2, <1>3, <1>5 DEF IInv

LEMMA HookInv ==
  ASSUME IInv, NEW r \in Runs,
         ReadOnlyPrompt(r) \/ Tool(r) \/ TurnEnd(r) \/ CliEnd(r) \/ Cancel(r)
  PROVE  IInv'
<1>1. run = r /\ runs[r].kind # "unused" /\ at[r] \notin {"commit", "window"}
  BY DEF ReadOnlyPrompt, Tool, TurnEnd, CliEnd, Cancel, Open, IInv, RunInv
<1>2. UNCHANGED <<run, running, stop, card, at, printing, pending, saving>>
  BY DEF ReadOnlyPrompt, Tool, TurnEnd, CliEnd, Cancel
<1>3. pending' \in BOOLEAN /\ saving' \in Nat /\ runs \in [Runs -> RunRecord] /\ runs[r] \in RunRecord
  BY <1>2 DEF IInv, TypeOK
<1>4. CASE ReadOnlyPrompt(r)
  <2>1. [runs[r] EXCEPT !.readOnly = TRUE] \in RunRecord
    BY <1>3 DEF RunRecord
  <2>2. runs' = [runs EXCEPT ![r] = [runs[r] EXCEPT !.readOnly = TRUE]] /\ jobs' = jobs
    BY <1>4 DEF ReadOnlyPrompt
  <2>3. runs' \in [Runs -> RunRecord]
    BY <2>1, <2>2, RunType DEF IInv
  <2> QED BY <1>1, <1>2, <1>3, <2>2, <2>3, MarkInv DEF RunRecord
<1>5. CASE Tool(r)
  <2>1. AskBaseline(r) /\ jobs' = jobs
    BY <1>5 DEF Tool
  <2> QED BY <1>1, <1>2, <1>3, <2>1, AskBaselineFields, MarkInv DEF IInv
<1>6. CASE TurnEnd(r) \/ CliEnd(r)
  <2>1. \E job \in JobKinds : jobs' = [jobs EXCEPT ![r] = Append(@, job)]
    BY <1>6 DEF TurnEnd, CliEnd, Queue, JobKinds
  <2>2. runs' = runs
    BY <1>6 DEF TurnEnd, CliEnd
  <2> QED BY <1>1, <1>2, <1>3, <2>1, <2>2, MarkInv
<1>7. CASE Cancel(r)
  <2>1. [runs[r] EXCEPT !.cancelled = TRUE] \in RunRecord
    BY <1>3 DEF RunRecord
  <2>2. runs' = [runs EXCEPT ![r] = [runs[r] EXCEPT !.cancelled = TRUE]]
    BY <1>7 DEF Cancel
  <2>3. runs' \in [Runs -> RunRecord]
    BY <2>1, <2>2, RunType DEF IInv
  <2>4. jobs' = jobs \/ \E job \in JobKinds : jobs' = [jobs EXCEPT ![r] = Append(@, job)]
    BY <1>7 DEF Cancel, Queue, JobKinds
  <2> QED BY <1>1, <1>2, <1>3, <2>2, <2>3, <2>4, MarkInv DEF RunRecord
<1> QED BY <1>4, <1>5, <1>6, <1>7

LEMMA ViolationInv == ASSUME IInv, Violation PROVE IInv'
<1>1. ASSUME NEW r \in Runs, Open(r), runs' = [runs EXCEPT ![r].violation = TRUE], Queue(r, "violation"),
             UNCHANGED <<run, running, stop, card, at, printing, pending, saving>>
      PROVE  IInv'
  <2>1. runs[r].kind = "terminal" /\ at[r] \notin {"commit", "window"}
    BY <1>1 DEF Open, IInv, RunInv
  <2>2. runs[r] \in RunRecord /\ pending' \in BOOLEAN /\ saving' \in Nat
    BY <1>1 DEF IInv, TypeOK
  <2>3. [runs[r] EXCEPT !.violation = TRUE] \in RunRecord
    BY <2>2 DEF RunRecord
  <2>4. runs' = [runs EXCEPT ![r] = [runs[r] EXCEPT !.violation = TRUE]]
    BY <1>1
  <2>5. runs' \in [Runs -> RunRecord]
    BY <2>3, <2>4, RunType DEF IInv
  <2>6. \E job \in JobKinds : jobs' = [jobs EXCEPT ![r] = Append(@, job)]
    BY <1>1 DEF Queue, JobKinds
  <2>7. runs \in [Runs -> RunRecord]
    BY DEF IInv, TypeOK
  <2>8. /\ runs'[r].kind = runs[r].kind /\ runs'[r].over = runs[r].over
        /\ runs'[r].result = runs[r].result
        /\ \A q \in Runs : q # r => runs'[q] = runs[q]
    BY <2>2, <2>4, <2>7 DEF RunRecord
  <2> QED BY <1>1, <2>1, <2>2, <2>5, <2>6, <2>8, MarkInv
<1>2. CASE pending' = TRUE /\ UNCHANGED <<run, running, stop, card, at, printing, runs, jobs, saving>>
  BY <1>2 DEF IInv, TypeOK, RunInv, Settled, SessionInv, Calm, OneRunAtATime, ReachableUnlessSaving, Active
<1> QED BY <1>1, <1>2 DEF Violation

\* A run begins when no other is in progress; a read only one was the only hook
\* at that point.
LEMMA OpenRunInv ==
  ASSUME IInv, NEW r \in Runs, NEW readOnly \in BOOLEAN, NEW prepared \in {"none", "pending"},
         OpenRun(r, readOnly, prepared),
         Calm => \A q \in Runs : ~Active(q),
         printing' \in Nat, Calm => printing' = 0,
         saving' \in Nat, UNCHANGED <<stop, pending, card, jobs, at>>
  PROVE  IInv'
<1>1. /\ runs' = [runs EXCEPT ![r] = [Unused EXCEPT !.kind = "terminal", !.readOnly = readOnly,
                                                  !.prepared = prepared]]
      /\ run' = r /\ running' = TRUE /\ runs[r].kind = "unused"
  BY DEF OpenRun, Unstarted
<1>2. TypeOK'
  <2>1. runs' \in [Runs -> RunRecord]
    BY <1>1, RunType DEF IInv, RunRecord, Unused, Results
  <2> QED BY <1>1, <2>1 DEF IInv, TypeOK
<1>3. at[r] = "idle"
  BY <1>1 DEF IInv, RunInv
<1>4. Calm => \A q \in Runs : at[q] = "idle"
  BY DEF IInv, SessionInv, Calm
<1>5. \A q \in Runs : RunInv(q)'
  <2> SUFFICES ASSUME NEW q \in Runs PROVE RunInv(q)'
    OBVIOUS
  <2>1. CASE q = r
    BY <1>1, <1>3, <2>1 DEF IInv, TypeOK, RunInv, Settled, Unused
  <2>2. CASE q # r
    BY <1>1, <2>2 DEF IInv, TypeOK, RunInv, Settled
  <2> QED BY <2>1, <2>2
<1>6. SessionInv'
  BY <1>1, <1>3, <1>4 DEF IInv, TypeOK, SessionInv, Calm, OneRunAtATime, ReachableUnlessSaving, Active, Settled, Unused
<1> QED BY <1>2, <1>5, <1>6 DEF IInv

LEMMA NoneActive ==
  ASSUME IInv, Calm, ~running
  PROVE  \A q \in Runs : ~Active(q)
BY DEF IInv, SessionInv, Calm

LEMMA OpeningInv ==
  ASSUME IInv, StartOpening \/ Saved \/ Printed \/ NotOpened
  PROVE  IInv'
<1>1. CASE StartOpening \/ NotOpened
  BY <1>1 DEF StartOpening, NotOpened, IInv, TypeOK, RunInv, Settled, SessionInv, Calm, OneRunAtATime,
              ReachableUnlessSaving, Active
<1>2. CASE Saved
  <2>1. /\ UNCHANGED <<stop, pending, card, jobs, at>>
        /\ saving' \in Nat /\ pending' \in BOOLEAN
    BY <1>2 DEF Saved, IInv, TypeOK
  <2>2. ASSUME NEW r \in Runs, Open(r), AskBaseline(r), UNCHANGED <<run, running, printing>>
        PROVE  IInv'
    <3>1. runs[r].kind # "unused"
      BY <2>2 DEF Open
    <3> QED BY <2>1, <2>2, <3>1, AskBaselineFields, MarkInv DEF IInv
  <2>3. CASE ~Busy /\ Undisturbed /\ printing' = printing + 1 /\ UNCHANGED <<run, running, runs>>
    BY <2>1, <2>3 DEF Busy, Undisturbed, IInv, TypeOK, RunInv, Settled, SessionInv, Calm, OneRunAtATime,
                      ReachableUnlessSaving, Active
  <2>4. ASSUME ~Busy, Undisturbed, UNCHANGED printing,
               NEW r \in Runs, NEW prepared \in {"none", "pending"}, OpenRun(r, FALSE, prepared)
        PROVE  IInv'
    <3>1. Calm => \A q \in Runs : ~Active(q)
      BY <2>4, NoneActive DEF Busy
    <3>2. (Calm => printing' = 0) /\ printing' \in Nat /\ FALSE \in BOOLEAN
      BY <2>4 DEF Undisturbed, Calm, IInv, TypeOK
    <3> QED BY <2>1, <2>4, <3>1, <3>2, OpenRunInv
  <2> QED BY <1>2, <2>2, <2>3, <2>4 DEF Saved
<1>3. CASE Printed
  <2>1. PICK r \in Runs : OpenRun(r, TRUE, "none")
    BY <1>3 DEF Printed
  <2>2. Calm => ~running /\ printing = 1
    BY <1>3 DEF Printed, IInv, SessionInv, Calm
  <2>3. Calm => \A q \in Runs : ~Active(q)
    BY <2>2, NoneActive
  <2>4. printing' \in Nat /\ saving' \in Nat /\ (Calm => printing' = 0)
    BY <1>3, <2>2 DEF Printed, IInv, TypeOK
  <2> QED BY <1>3, <2>1, <2>3, <2>4, OpenRunInv DEF Printed
<1> QED BY <1>1, <1>2, <1>3

LEMMA PreparedInv ==
  ASSUME IInv, NEW r \in Runs, Prepared(r)
  PROVE  IInv'
<1>1. PICK x \in {"none", "ready"} : runs' = [runs EXCEPT ![r].prepared = x]
  BY DEF Prepared
<1>2. /\ runs[r].prepared = "pending" /\ UNCHANGED <<run, running, stop, pending, card, jobs, saving, printing>>
      /\ at' = at \/ (at[r] = "verify" /\ at' = [at EXCEPT ![r] = "failed"])
  BY DEF Prepared, Go
<1>3. runs' \in [Runs -> RunRecord]
  <2>1. [runs[r] EXCEPT !.prepared = x] \in RunRecord
    BY DEF IInv, TypeOK, RunRecord
  <2>2. runs' = [runs EXCEPT ![r] = [runs[r] EXCEPT !.prepared = x]]
    BY <1>1
  <2> QED BY <2>1, <2>2, RunType DEF IInv
<1>4. runs[r].kind # "unused"
  BY <1>2 DEF IInv, RunInv, Unused
<1>5. \A q \in Runs : /\ runs'[q].kind = runs[q].kind /\ runs'[q].over = runs[q].over
                      /\ runs'[q].result = runs[q].result
                      /\ runs'[q].cancelled = runs[q].cancelled
                      /\ runs'[q].violation = runs[q].violation
                      /\ q # r => runs'[q] = runs[q]
  BY <1>1 DEF IInv, TypeOK, RunRecord
<1>6. TypeOK'
  BY <1>2, <1>3 DEF IInv, TypeOK, Places, InCheck
<1>7. \A q \in Runs : RunInv(q)'
  BY <1>2, <1>4, <1>5 DEF IInv, TypeOK, RunInv, Settled
<1>8. \A q \in Runs : Active(q)' = Active(q) /\ Settled(q)' = Settled(q)
  BY <1>5 DEF Active, Settled
<1>9. SessionInv'
  BY <1>2, <1>8 DEF IInv, TypeOK, SessionInv, Calm, OneRunAtATime, ReachableUnlessSaving
<1> QED BY <1>6, <1>7, <1>9 DEF IInv

LEMMA ChatInv ==
  ASSUME IInv, NEW r \in Runs, Chat(r)
  PROVE  IInv'
<1>1. runs[r].kind = "chat" /\ ~Settled(r) /\ runs[r] \in RunRecord /\ ~runs[r].violation
  BY DEF Chat, ChatResult, ChatEnds, IInv, TypeOK, RunInv
<1>2. Calm => /\ Active(r) /\ \A q \in Runs : Active(q) => q = r
  BY DEF Chat, ChatResult, ChatEnds, IInv, SessionInv, Calm, OneRunAtATime
<1>3. CASE ChatResult(r)
  <2>1. at[r] = "chat" /\ ~runs[r].cancelled /\ run' = None /\ at' = [at EXCEPT ![r] = "window"]
        /\ UNCHANGED <<running, stop, pending, card, runs, jobs, saving, printing>>
    BY <1>3 DEF ChatResult, Go
  <2>2. TypeOK'
    BY <2>1 DEF IInv, TypeOK, Places
  <2>3. \A q \in Runs : RunInv(q)'
    BY <1>1, <2>1 DEF IInv, TypeOK, RunInv, Settled, None, Runs, Unused
  <2>4. SessionInv'
    BY <1>2, <2>1 DEF IInv, TypeOK, SessionInv, Calm, OneRunAtATime, ReachableUnlessSaving, Active, Settled
  <2> QED BY <2>2, <2>3, <2>4 DEF IInv
<1>4. CASE ChatEnds(r)
  <2>1. \E rec \in RunRecord :
          /\ rec.kind = "chat" /\ rec.over /\ rec.result # "open" /\ ~rec.violation
          /\ runs' = [runs EXCEPT ![r] = rec]
    <3>1. ASSUME NEW status \in {"done", "failed"},
                 runs' = [runs EXCEPT ![r].result = status, ![r].over = TRUE,
                                      ![r].committed = (status = "done")]
          PROVE  <2>1
      <4> DEFINE rec == [runs[r] EXCEPT !.result = status, !.over = TRUE, !.committed = (status = "done")]
      <4>1. rec \in RunRecord /\ rec.kind = "chat" /\ rec.over /\ rec.result # "open" /\ ~rec.violation
        BY <1>1, <3>1 DEF RunRecord, Results
      <4>2. runs' = [runs EXCEPT ![r] = rec]
        BY <3>1 DEF IInv, TypeOK
      <4> QED BY <4>1, <4>2
    <3>2. ASSUME runs' = [runs EXCEPT ![r].result = "cancelled", ![r].over = TRUE]
          PROVE  <2>1
      <4> DEFINE rec == [runs[r] EXCEPT !.result = "cancelled", !.over = TRUE]
      <4>1. rec \in RunRecord /\ rec.kind = "chat" /\ rec.over /\ rec.result # "open" /\ ~rec.violation
        BY <1>1 DEF RunRecord, Results
      <4>2. runs' = [runs EXCEPT ![r] = rec]
        BY <3>2 DEF IInv, TypeOK
      <4> QED BY <4>1, <4>2
    <3> QED BY <1>4, <3>1, <3>2 DEF ChatEnds
  <2>2. PICK rec \in RunRecord :
          /\ rec.kind = "chat" /\ rec.over /\ rec.result # "open" /\ ~rec.violation
          /\ runs' = [runs EXCEPT ![r] = rec]
    BY <2>1
  <2>3. /\ run' = None /\ running' = FALSE /\ at' = [at EXCEPT ![r] = "idle"]
        /\ UNCHANGED <<stop, pending, card, jobs, saving, printing>>
    BY <1>4 DEF ChatEnds, Go
  <2>4. TypeOK'
    <3>1. runs' \in [Runs -> RunRecord]
      BY <2>2, RunType DEF IInv
    <3> QED BY <2>3, <3>1 DEF IInv, TypeOK, Places
  <2>5. \A q \in Runs : RunInv(q)'
    BY <2>2, <2>3 DEF IInv, TypeOK, RunInv, Settled, None, Runs
  <2>6. SessionInv'
    BY <1>2, <2>2, <2>3 DEF IInv, TypeOK, SessionInv, Calm, OneRunAtATime, ReachableUnlessSaving, Active, Settled
  <2> QED BY <2>4, <2>5, <2>6 DEF IInv
<1> QED BY <1>3, <1>4 DEF Chat

LEMMA SendMessageInv ==
  ASSUME IInv, SendMessage
  PROVE  IInv'
<1>1. PICK r \in Runs :
        /\ runs[r].kind = "unused"
        /\ run' = r
        /\ runs' = [runs EXCEPT ![r].kind = "chat"]
        /\ at' = [at EXCEPT ![r] = "chat"]
  BY DEF SendMessage, Unstarted, Go
<1>2. /\ ~running /\ running' = TRUE /\ (Calm => printing = 0)
      /\ UNCHANGED <<stop, pending, card, jobs, saving, printing>>
  BY DEF SendMessage, Undisturbed, Calm
<1>3. Calm => \A q \in Runs : ~Active(q)
  BY <1>2, NoneActive
<1>4. runs[r] = Unused /\ runs' = [runs EXCEPT ![r] = [Unused EXCEPT !.kind = "chat"]]
  BY <1>1 DEF IInv, TypeOK, RunInv
<1>5. TypeOK'
  <2>1. [Unused EXCEPT !.kind = "chat"] \in RunRecord
    BY DEF Unused, RunRecord, Results
  <2>2. runs' \in [Runs -> RunRecord]
    BY <1>4, <2>1, RunType DEF IInv
  <2> QED BY <1>1, <1>2, <2>2 DEF IInv, TypeOK, Places
<1>6. \A q \in Runs : RunInv(q)'
  BY <1>1, <1>2, <1>4 DEF IInv, TypeOK, RunInv, Settled, Unused
<1>7. SessionInv'
  BY <1>1, <1>2, <1>3, <1>4 DEF IInv, TypeOK, SessionInv, Calm, OneRunAtATime, ReachableUnlessSaving, Active, Settled, Unused
<1> QED BY <1>5, <1>6, <1>7 DEF IInv

LEMMA StopInv ==
  ASSUME IInv, StopSession \/ Stopped
  PROVE  IInv'
<1>1. CASE StopSession
  <2>1. SessionInv'
    BY <1>1 DEF StopSession, SessionInv, Calm
  <2>2. CASE NoneOpen
    BY <1>1, <2>1, <2>2 DEF StopSession, IInv, TypeOK, RunInv, Settled
  <2>3. CASE ~NoneOpen
    <3>1. run \in Runs /\ runs[run].kind = "terminal" /\ ~Settled(run)
      BY <2>3 DEF NoneOpen, Open
    <3> DEFINE rec == [runs[run] EXCEPT !.result = "cancelled", !.over = TRUE]
    <3>2. rec \in RunRecord /\ rec.kind = "terminal" /\ rec.over /\ rec.result # "open"
      BY <3>1 DEF IInv, TypeOK, RunRecord, Results
    <3>3. /\ runs' = [runs EXCEPT ![run] = rec]
          /\ run' = None /\ stop' = TRUE /\ pending' = FALSE
          /\ UNCHANGED <<running, card, jobs, at, saving, printing>>
      BY <1>1, <2>3, <3>1 DEF StopSession, IInv, TypeOK
    <3>4. TypeOK'
      BY <3>1, <3>2, <3>3 DEF IInv, TypeOK
    <3>5. \A q \in Runs : RunInv(q)'
      BY <3>1, <3>2, <3>3 DEF IInv, TypeOK, RunInv, Settled, None, Runs
    <3> QED BY <2>1, <3>4, <3>5 DEF IInv
  <2> QED BY <2>2, <2>3
<1>2. CASE Stopped
  BY <1>2 DEF Stopped, IInv, TypeOK, RunInv, Settled, SessionInv, Calm
<1> QED BY <1>1, <1>2

LEMMA StepInv ==
  ASSUME IInv, [Next]_vars
  PROVE  IInv'
<1>1. CASE UNCHANGED vars
  BY <1>1 DEF vars, IInv, TypeOK, RunInv, Settled, SessionInv, Calm, OneRunAtATime, ReachableUnlessSaving, Active
<1> QED
  BY <1>1, OpeningInv, WorkInv, PreparedInv, ChatInv, HookInv, SendMessageInv, ViolationInv, StopInv DEF Next

-----------------------------------------------------------------------------
\* The invariant holds of every session: what its parts say of a single run
\* whatever comes at a bad moment.
THEOREM SpecInvariant == Spec => []IInv
<1>1. IInv /\ [Next]_vars => IInv'
  BY StepInv
<1> QED BY InitInv, <1>1, PTL DEF Spec

\* The variables keep their types.
THEOREM SpecTypeOK == Spec => []TypeOK
<1>1. IInv => TypeOK
  BY DEF IInv
<1> QED BY SpecInvariant, <1>1, PTL

\* At most one run is in progress until the session is stopped, if nothing
\* comes between the fingerprint of a read only run and its opening.
THEOREM SpecOneRunAtATime ==
  ASSUME "opening" \notin Timings
  PROVE  Spec => []OneRunAtATime
<1>1. IInv => OneRunAtATime
  BY DEF IInv, SessionInv, Calm, OneRunAtATime
<1> QED BY SpecInvariant, <1>1, PTL

\* An unsettled run is on the session, unless it is being saved just then,
\* under the same condition.
THEOREM SpecReachableUnlessSaving ==
  ASSUME "opening" \notin Timings
  PROVE  Spec => []ReachableUnlessSaving
<1>1. IInv => ReachableUnlessSaving
  BY DEF IInv, SessionInv, Calm, ReachableUnlessSaving
<1> QED BY SpecInvariant, <1>1, PTL

\* What a step may do to how a run ended and to its checkpoint.
LEMMA WorkOutcome ==
  ASSUME IInv, NEW r \in Runs, Work(r), NEW q \in Runs
  PROVE  /\ Settled(q) => runs'[q].result = runs[q].result
         /\ ~runs[q].committed /\ runs'[q].committed => at[q] = "commit"
<1>1. WorkKind(r)
  BY WorkKinds DEF IInv
<1>2. TypeOK /\ runs \in [Runs -> RunRecord] /\ runs[q] \in RunRecord
  BY DEF IInv, TypeOK
<1>3. CASE Popped(r) \/ Saving(r) \/ Reopened(r)
  BY <1>3 DEF Popped, JobDone, Saving, Reopened
<1>4. CASE Announced(r)
  BY <1>2, <1>4 DEF Announced, Announce, Unused, Settled
<1>5. CASE Reverting(r)
  BY <1>2, <1>5 DEF Reverting, Settled, RunRecord
<1>6. CASE Retried(r)
  BY <1>2, <1>6 DEF Retried, Settled, RunRecord
<1>7. CASE Moved(r)
  BY <1>2, <1>7, AskBaselineFields DEF Moved, Settled
<1> QED BY <1>1, <1>3, <1>4, <1>5, <1>6, <1>7 DEF WorkKind

LEMMA OtherOutcome ==
  ASSUME IInv, NEW q \in Runs,
         \/ StartOpening \/ Saved \/ Printed \/ NotOpened
         \/ \E r \in Runs : Prepared(r) \/ ReadOnlyPrompt(r) \/ Tool(r) \/ TurnEnd(r) \/ CliEnd(r) \/ Cancel(r)
         \/ SendMessage \/ Violation \/ StopSession \/ Stopped
  PROVE  /\ Settled(q) => runs'[q].result = runs[q].result
         /\ ~runs[q].committed => ~runs'[q].committed
<1>1. TypeOK /\ runs \in [Runs -> RunRecord] /\ runs[q] \in RunRecord
  BY DEF IInv, TypeOK
<1>2. ASSUME UNCHANGED runs \/ \E r \in Runs : AskBaseline(r)
      PROVE  runs'[q].result = runs[q].result /\ runs'[q].committed = runs[q].committed
  BY <1>1, <1>2, AskBaselineFields
<1>3. ASSUME NEW r \in Runs, NEW readOnly \in BOOLEAN, NEW prepared, OpenRun(r, readOnly, prepared)
      PROVE  /\ Settled(q) => runs'[q].result = runs[q].result
             /\ ~runs[q].committed => ~runs'[q].committed
  BY <1>1, <1>3 DEF OpenRun, Unstarted, IInv, RunInv, Settled, Unused
<1>4. CASE StartOpening \/ NotOpened \/ Stopped
  BY <1>2, <1>4 DEF StartOpening, NotOpened, Stopped
<1>5. CASE Saved \/ Printed
  BY <1>2, <1>3, <1>5 DEF Saved, Printed
<1>6. ASSUME NEW r \in Runs,
             Prepared(r) \/ ReadOnlyPrompt(r) \/ Tool(r) \/ TurnEnd(r) \/ CliEnd(r) \/ Cancel(r)
      PROVE  runs'[q].result = runs[q].result /\ runs'[q].committed = runs[q].committed
  <2>1. CASE Tool(r) \/ TurnEnd(r) \/ CliEnd(r)
    BY <1>2, <2>1 DEF Tool, TurnEnd, CliEnd
  <2>2. CASE Prepared(r) \/ ReadOnlyPrompt(r) \/ Cancel(r)
    BY <1>1, <2>2 DEF Prepared, ReadOnlyPrompt, Cancel, RunRecord
  <2> QED BY <1>6, <2>1, <2>2
<1>7. CASE SendMessage \/ Violation
  BY <1>1, <1>7 DEF SendMessage, Violation, RunRecord
<1>8. CASE StopSession
  BY <1>1, <1>8 DEF StopSession, NoneOpen, Open, Settled, RunRecord
<1> QED BY <1>3, <1>4, <1>5, <1>6, <1>7, <1>8

LEMMA ChatOutcome ==
  ASSUME IInv, NEW r \in Runs, Chat(r), NEW q \in Runs
  PROVE  /\ Settled(q) => runs'[q].result = runs[q].result
         /\ ~runs[q].committed /\ runs'[q].committed => at[q] = "window"
<1>1. runs \in [Runs -> RunRecord] /\ runs[q] \in RunRecord /\ ~Settled(r)
  BY DEF IInv, TypeOK, RunInv, Chat, ChatResult, ChatEnds
<1> QED BY <1>1 DEF Chat, ChatResult, ChatEnds, Settled, RunRecord

\* Whenever a cancel or a violation comes, a run that has one leaves no
\* checkpoint.
THEOREM SpecRefusedNeverCommitted == Spec => RefusedNeverCommitted
<1>1. IInv /\ [Next]_vars => [\A r \in Runs : ~runs[r].committed /\ runs'[r].committed =>
                                ~runs[r].cancelled /\ ~runs[r].violation]_vars
  <2> SUFFICES ASSUME IInv, Next, NEW q \in Runs, ~runs[q].committed, runs'[q].committed
               PROVE  ~runs[q].cancelled /\ ~runs[q].violation
    OBVIOUS
  <2>1. at[q] \in {"commit", "window"}
    BY WorkOutcome, OtherOutcome, ChatOutcome DEF Next
  <2> QED BY <2>1 DEF IInv, RunInv
<1> QED BY SpecInvariant, <1>1, PTL DEF Spec, RefusedNeverCommitted

\* The check, the closings and a stop never decide a run twice.
THEOREM SpecDecidedOnce == Spec => DecidedOnce
<1>1. IInv /\ [Next]_vars => [\A r \in Runs : Settled(r) => runs'[r].result = runs[r].result]_vars
  <2> SUFFICES ASSUME IInv, Next, NEW q \in Runs, Settled(q)
               PROVE  runs'[q].result = runs[q].result
    OBVIOUS
  <2> QED BY WorkOutcome, OtherOutcome, ChatOutcome DEF Next
<1> QED BY SpecInvariant, <1>1, PTL DEF Spec, DecidedOnce

\* Only a stop, or a run that fails for it, takes a violation that was kept.
THEOREM SpecViolationNotForgotten == Spec => ViolationNotForgotten
<1>1. IInv /\ [Next]_vars => [pending /\ ~pending' =>
        stop' \/ \E r \in Runs : ~Settled(r) /\ runs'[r].result = "failed"]_vars
  <2> SUFFICES ASSUME IInv, Next, pending, ~pending'
               PROVE  stop' \/ \E r \in Runs : ~Settled(r) /\ runs'[r].result = "failed"
    OBVIOUS
  <2>1. ASSUME NEW r \in Runs, Work(r)
        PROVE  Finish(r) /\ ~Settled(r) /\ Abandon(r, "failed", run) /\ stop' = stop
    BY <2>1 DEF Work, Finish, Close, GitLooked, PrintLooked, FilesLooked, TestsRan, ScopeLooked, Verified,
         NotVerified, Judged, Committed, GitLookedAgain, Reverted
  <2>2. ASSUME NEW r \in Runs, ~Settled(r), Abandon(r, "failed", run), stop' = stop
        PROVE  stop' \/ runs'[r].result = "failed"
    BY <2>2 DEF Abandon, Announce, Unused, IInv, TypeOK, RunRecord
  <2>3. ASSUME NEW r \in Runs,
               Prepared(r) \/ Chat(r) \/ ReadOnlyPrompt(r) \/ Tool(r) \/ TurnEnd(r) \/ CliEnd(r) \/ Cancel(r)
        PROVE  FALSE
    BY <2>3 DEF Prepared, Chat, ChatResult, ChatEnds, ReadOnlyPrompt, Tool, TurnEnd, CliEnd, Cancel
  <2>4. CASE StartOpening \/ Saved \/ Printed \/ NotOpened \/ SendMessage \/ Violation \/ StopSession \/ Stopped
    BY <2>4 DEF StartOpening, Saved, Printed, NotOpened, SendMessage, Violation, StopSession, Stopped
  <2> QED BY <2>1, <2>2, <2>3, <2>4 DEF Next
<1> QED BY SpecInvariant, <1>1, PTL DEF Spec, ViolationNotForgotten

-----------------------------------------------------------------------------
(* A refused run is closed. What a step of the queue does to the run of its *)
(* job, told apart by whether it looks for a refusal: a run goes back to    *)
(* the agent from the looks at git, the card's tests and scope, where what  *)
(* refuses it is queued, or after a look; what is queued stays.             *)

Queued(r) == \E i \in DOMAIN jobs[r] : jobs[r][i] \in {"violation", "cancel"}

Refused(r) == runs[r].cancelled \/ runs[r].violation

\* Where a check goes on to, and what it has looked at before.
Onward(r, place) ==
  \/ at[r] = "idle" /\ Head(jobs[r]) = "finish" /\ place \in {"git", "readOnlyGit"}
  \/ at[r] \in {"git", "readOnlyGit"} /\ place \in {"files", "print"}
  \/ at[r] = "files" /\ card /\ place \in {"tests", "scope"}
  \/ at[r] \in {"files", "scope"} /\ place = "verify"
  \/ at[r] = "verify" /\ place = "gate"
  \/ at[r] \in {"gate", "commit"} /\ ~Refused(r) /\ place \in {"commit", "regit"}

GoesOn(r) ==
  /\ \E place \in Places : Onward(r, place) /\ Go(r, place)
  /\ UNCHANGED runs \/ AskBaseline(r)
  /\ UNCHANGED jobs

GoesBack(r) ==
  /\ at[r] \in {"git", "readOnlyGit", "print", "tests", "scope", "gate", "commit"}
  /\ at[r] = "gate" => ~runs[r].cancelled
  /\ UNCHANGED runs \/ runs' = [runs EXCEPT ![r].tries = @ + 1]
  /\ Pop(r) /\ Go(r, "idle")

LeftSettled(r) == Settled(r) /\ at[r] # "revert" /\ JobDone(r)

Outcome(r) == LeftSettled(r) \/ Announced(r) \/ Reverting(r) \/ GoesOn(r) \/ GoesBack(r)

LEMMA AbandonOutcome ==
  ASSUME NEW r \in Runs, NEW status \in Decided, NEW now,
         now = run \/ (at[r] = "commit" /\ now = Reattached(r)),
         at[r] # "revert", Abandon(r, status, now)
  PROVE  Outcome(r)
<1>1. Settled(r) \/ Announced(r) \/ Reverting(r)
  BY Zenon DEF Abandon, Announced, Reverting, Decided, Results
<1>2. Settled(r) => JobDone(r)
  BY DEF Abandon
<1> QED BY <1>1, <1>2 DEF Outcome, LeftSettled

LEMMA SettleOutcome ==
  ASSUME NEW r \in Runs, NEW status \in Decided, NEW saved \in BOOLEAN, saved => at[r] = "commit",
         at[r] # "revert", Settle(r, status, saved)
  PROVE  Outcome(r)
BY DEF Settle, Outcome, LeftSettled, Announced

LEMMA ThrowOutcome ==
  ASSUME NEW r \in Runs, at[r] # "revert", Throw(r)
  PROVE  Outcome(r)
BY AbandonOutcome, SettleOutcome DEF Throw, Decided, Results

LEMMA UnsettledOutcome ==
  ASSUME NEW r \in Runs, NEW now, now = IF at[r] = "commit" THEN Reattached(r) ELSE run,
         at[r] \in {"tests", "scope", "gate", "commit"}, at[r] = "gate" => ~runs[r].cancelled,
         Unsettled(r, now)
  PROVE  Outcome(r)
BY AbandonOutcome DEF Unsettled, Outcome, GoesBack, Decided, Results

LEMMA OnwardOutcome ==
  ASSUME NEW r \in Runs, NEW place \in Places, Onward(r, place), Go(r, place),
         UNCHANGED runs \/ AskBaseline(r), UNCHANGED jobs
  PROVE  Outcome(r)
BY DEF Outcome, GoesOn

LEMMA WorkOutcomes ==
  ASSUME NEW r \in Runs, IInv, Work(r)
  PROVE  Outcome(r)
<1>1. "failed" \in Decided /\ "cancelled" \in Decided /\ "done" \in Decided
  BY DEF Decided, Results
<1> USE DEF Places, InCheck
<1>2. CASE Finish(r)
  <2>1. CASE Settled(r)
    BY <1>2, <2>1 DEF Finish, Free, Outcome, LeftSettled
  <2>2. CASE Abandon(r, "failed", run)
    BY <1>1, <1>2, <2>2, AbandonOutcome DEF Finish, Free
  <2>3. CASE Go(r, IF runs[r].readOnly THEN "readOnlyGit" ELSE "git")
             /\ UNCHANGED <<run, running, pending, runs, jobs>>
    BY <1>2, <2>3, OnwardOutcome DEF Finish, Free, Onward
  <2> QED BY <1>2, <2>1, <2>2, <2>3 DEF Finish
<1>3. CASE Close(r)
  BY <1>1, <1>3, AbandonOutcome DEF Close, Free
<1>4. CASE GitLooked(r)
  <2>1. CASE Abandon(r, "failed", run)
    BY <1>1, <1>4, <2>1, AbandonOutcome DEF GitLooked
  <2>2. CASE Go(r, IF at[r] = "git" THEN "files" ELSE "print") /\ UNCHANGED <<run, running, runs, jobs>>
    BY <1>4, <2>2, OnwardOutcome DEF GitLooked, Onward
  <2>3. CASE JobDone(r)
    BY <1>4, <2>3 DEF GitLooked, JobDone, Outcome, GoesBack
  <2> QED BY <1>4, <2>1, <2>2, <2>3 DEF GitLooked
<1>5. CASE PrintLooked(r)
  <2>1. CASE Settle(r, "done", FALSE) \/ Abandon(r, "failed", run)
    BY <1>1, <1>5, <2>1, AbandonOutcome, SettleOutcome DEF PrintLooked
  <2>2. CASE JobDone(r)
    BY <1>5, <2>2 DEF PrintLooked, JobDone, Outcome, GoesBack
  <2> QED BY <1>5, <2>1, <2>2 DEF PrintLooked
<1>6. ASSUME at[r] \in {"files", "scope"}, ToVerify(r)
      PROVE  Outcome(r)
  BY <1>6, OnwardOutcome DEF ToVerify, Onward
<1>7. CASE FilesLooked(r)
  <2>1. CASE Settle(r, "done", FALSE)
    BY <1>1, <1>7, <2>1, SettleOutcome DEF FilesLooked
  <2>2. ASSUME NEW place \in {"tests", "scope"}, card, Go(r, place), UNCHANGED <<run, running, runs, jobs>>
        PROVE  Outcome(r)
    BY <1>7, <2>2, OnwardOutcome DEF FilesLooked, Onward
  <2>3. CASE ToVerify(r)
    BY <1>6, <1>7, <2>3 DEF FilesLooked
  <2>4. CASE Throw(r)
    BY <1>7, <2>4, ThrowOutcome DEF FilesLooked
  <2> QED BY <1>7, <2>1, <2>2, <2>3, <2>4 DEF FilesLooked
<1>8. CASE TestsRan(r)
  BY <1>1, <1>8, AbandonOutcome, SettleOutcome, ThrowOutcome, UnsettledOutcome DEF TestsRan
<1>9. CASE ScopeLooked(r)
  BY <1>6, <1>9, ThrowOutcome, UnsettledOutcome DEF ScopeLooked
<1>10. CASE Verified(r)
  BY <1>10, OnwardOutcome DEF Verified, Onward
<1>11. CASE NotVerified(r) \/ GitLookedAgain(r)
  BY <1>1, <1>11, AbandonOutcome, ThrowOutcome DEF NotVerified, GitLookedAgain
<1>12. CASE Judged(r)
  <2>1. CASE Throw(r) \/ Abandon(r, "failed", run)
    BY <1>1, <1>12, <2>1, AbandonOutcome, ThrowOutcome DEF Judged
  <2>2. CASE ~runs[r].cancelled /\ Unsettled(r, run)
    BY <1>12, <2>2, UnsettledOutcome DEF Judged
  <2>3. CASE ~runs[r].cancelled /\ JobDone(r)
    BY <1>12, <2>3 DEF Judged, JobDone, Outcome, GoesBack
  <2>4. CASE ~runs[r].cancelled /\ ~runs[r].violation /\ Go(r, "commit")
             /\ UNCHANGED <<running, runs, jobs>>
    BY <1>12, <2>4, OnwardOutcome DEF Judged, Onward, Refused
  <2> QED BY <1>12, <2>1, <2>2, <2>3, <2>4 DEF Judged
<1>13. CASE Committed(r)
  <2>1. CASE Settle(r, "done", TRUE)
    BY <1>1, <1>13, <2>1, SettleOutcome DEF Committed
  <2>2. CASE Unsettled(r, Reattached(r))
    BY <1>13, <2>2, UnsettledOutcome DEF Committed
  <2>3. CASE Go(r, "regit") /\ UNCHANGED <<running, runs, jobs>>
    BY <1>13, <2>3, OnwardOutcome DEF Committed, Onward, Refused, IInv, RunInv
  <2>4. CASE Throw(r)
    BY <1>13, <2>4, ThrowOutcome DEF Committed
  <2> QED BY <1>13, <2>1, <2>2, <2>3, <2>4 DEF Committed
<1>14. CASE Reverted(r)
  <2>1. Settled(r)
    BY <1>14 DEF Reverted, IInv, RunInv
  <2> QED BY <1>14, <2>1 DEF Reverted, Outcome, Announced, Settled, Decided, IInv, TypeOK, RunRecord
<1> QED
  BY <1>2, <1>3, <1>4, <1>5, <1>7, <1>8, <1>9, <1>10, <1>11, <1>12, <1>13, <1>14 DEF Work

\* What a closing may wait behind: a check is the job of a finish, a violation
\* is queued until its run is settled, and a run is settled ahead of its end
\* only while its changes are put back.
ClosingInv(r) ==
  /\ at[r] \notin {"idle", "chat", "window", "revert"} => Head(jobs[r]) = "finish"
  /\ at[r] \in {"tests", "scope"} => card
  /\ Active(r) /\ runs[r].kind = "chat" => at[r] \in {"chat", "window"}
  /\ Active(r) /\ Settled(r) => at[r] = "revert"
  /\ runs[r].violation /\ ~Settled(r) => Queued(r)
  /\ Refused(r) /\ ~runs[r].over => Closer(r)

CInv == \A r \in Runs : ClosingInv(r)

LEMMA ClosingSame ==
  ASSUME NEW q \in Runs, ClosingInv(q), UNCHANGED card,
         runs'[q] = runs[q], jobs'[q] = jobs[q], at'[q] = at[q]
  PROVE  ClosingInv(q)'
BY DEF ClosingInv, Active, Settled, Queued, Refused, Closer

LEMMA TailQueued ==
  ASSUME NEW queue \in Seq(JobKinds), queue # <<>>, Head(queue) = "finish",
         NEW i \in DOMAIN queue, queue[i] \in {"violation", "cancel"}
  PROVE  \E j \in DOMAIN Tail(queue) : Tail(queue)[j] \in {"violation", "cancel"}
<1>1. i \in 1 .. Len(queue) /\ i # 1
  OBVIOUS
<1>2. i - 1 \in DOMAIN Tail(queue) /\ Tail(queue)[i - 1] = queue[i]
  BY <1>1
<1> QED BY <1>2

LEMMA AppendQueued ==
  ASSUME NEW queue \in Seq(JobKinds), NEW job \in JobKinds
  PROVE  /\ \A i \in DOMAIN queue : i \in DOMAIN Append(queue, job) /\ Append(queue, job)[i] = queue[i]
         /\ \E i \in DOMAIN Append(queue, job) : Append(queue, job)[i] = job
         /\ queue # <<>> => Head(Append(queue, job)) = Head(queue)
<1>1. Len(queue) + 1 \in DOMAIN Append(queue, job) /\ Append(queue, job)[Len(queue) + 1] = job
  OBVIOUS
<1>2. queue # <<>> => Head(Append(queue, job)) = Head(queue)
  OBVIOUS
<1> QED BY <1>1, <1>2

LEMMA GoesOnClosing ==
  ASSUME IInv, CInv, NEW r \in Runs, GoesOn(r), UNCHANGED card
  PROVE  CInv'
<1>1. PICK place \in Places : Onward(r, place) /\ at' = [at EXCEPT ![r] = place]
  BY DEF GoesOn, Go
<1>2. UNCHANGED <<jobs, card>>
  BY DEF GoesOn
<1>3. \A q \in Runs : /\ runs'[q].kind = runs[q].kind /\ runs'[q].over = runs[q].over
                      /\ runs'[q].result = runs[q].result
                      /\ runs'[q].cancelled = runs[q].cancelled
                      /\ runs'[q].violation = runs[q].violation
                      /\ q # r => runs'[q] = runs[q]
  BY AskBaselineFields DEF GoesOn, IInv
<1>4. ASSUME NEW q \in Runs, q # r PROVE ClosingInv(q)'
  BY <1>1, <1>2, <1>3, <1>4, ClosingSame DEF CInv, IInv, TypeOK
<1>5. ClosingInv(r)'
  <2>1. ClosingInv(r) /\ at'[r] = place
    BY <1>1 DEF CInv, IInv, TypeOK
  <2>2. Head(jobs[r]) = "finish" /\ (place \in {"tests", "scope"} => card) /\ place \notin {"chat", "window"}
    BY <1>1, <2>1 DEF Onward, ClosingInv
  <2>3. runs[r].kind = "terminal" \/ ~Active(r) \/ at[r] = "idle"
    BY <1>1 DEF Onward, IInv, RunInv, Active
  <2>4. Active(r) => runs[r].kind # "chat"
    BY <1>1, <2>1 DEF Onward, ClosingInv
  <2>5. at[r] # "revert"
    BY <1>1 DEF Onward
  <2>6. Refused(r) /\ ~runs[r].over => Queued(r) \/ place \in {"verify", "gate"}
    BY <1>1, <2>1 DEF Onward, ClosingInv, Closer, ClosingPlaces, Queued, Refused
  <2> QED BY <1>2, <1>3, <2>1, <2>2, <2>4, <2>5, <2>6
          DEF ClosingInv, Active, Settled, Queued, Refused, Closer, ClosingPlaces
<1> QED BY <1>4, <1>5 DEF CInv

LEMMA GoesBackClosing ==
  ASSUME IInv, CInv, NEW r \in Runs, GoesBack(r), UNCHANGED card
  PROVE  CInv'
<1>1. at' = [at EXCEPT ![r] = "idle"] /\ jobs' = [jobs EXCEPT ![r] = Tail(@)]
  BY DEF GoesBack, Go, Pop
<1>2. \A q \in Runs : /\ runs'[q].kind = runs[q].kind /\ runs'[q].over = runs[q].over
                      /\ runs'[q].result = runs[q].result
                      /\ runs'[q].cancelled = runs[q].cancelled
                      /\ runs'[q].violation = runs[q].violation
                      /\ q # r => runs'[q] = runs[q]
  BY DEF GoesBack, IInv, TypeOK, RunRecord
<1>3. ASSUME NEW q \in Runs, q # r PROVE ClosingInv(q)'
  BY <1>1, <1>2, <1>3, ClosingSame DEF CInv, IInv, TypeOK
<1>4. ClosingInv(r)'
  <2>1. ClosingInv(r) /\ at'[r] = "idle" /\ jobs'[r] = Tail(jobs[r]) /\ jobs[r] \in Seq(JobKinds)
    BY <1>1 DEF CInv, IInv, TypeOK
  <2>2. /\ at[r] \in {"git", "readOnlyGit", "print", "tests", "scope", "gate", "commit"}
        /\ jobs[r] # <<>> /\ runs[r].kind = "terminal"
    BY DEF GoesBack, IInv, RunInv
  <2>3. Head(jobs[r]) = "finish"
    BY <2>1, <2>2 DEF ClosingInv
  <2>4. Queued(r) => Queued(r)'
    BY <2>1, <2>2, <2>3, TailQueued DEF Queued
  <2>5. Active(r) => ~Settled(r)
    BY <2>1, <2>2 DEF ClosingInv
  <2>6. Refused(r) /\ ~runs[r].over => Queued(r)
    <3>1. CASE at[r] \in {"git", "readOnlyGit", "print", "tests", "scope"}
      BY <2>1, <3>1 DEF ClosingInv, Closer, ClosingPlaces, Queued
    <3>2. CASE at[r] = "gate"
      BY <2>1, <2>2, <2>5, <3>2 DEF ClosingInv, Refused, Active, GoesBack
    <3>3. CASE at[r] = "commit"
      BY <3>3 DEF IInv, RunInv, Refused
    <3> QED BY <2>2, <3>1, <3>2, <3>3
  <2> QED BY <1>2, <2>1, <2>2, <2>4, <2>5, <2>6 DEF ClosingInv, Active, Settled, Queued, Refused, Closer
<1> QED BY <1>3, <1>4 DEF CInv

LEMMA EndedClosing ==
  ASSUME IInv, CInv, NEW r \in Runs, runs[r].kind = "terminal",
         LeftSettled(r) \/ Announced(r) \/ Reverting(r), UNCHANGED card
  PROVE  CInv'
<1>1. ASSUME NEW q \in Runs, q # r PROVE ClosingInv(q)'
  BY <1>1, ClosingSame DEF LeftSettled, JobDone, Pop, Go, Announced, Announce, Reverting, CInv, IInv, TypeOK
<1>2. ClosingInv(r) /\ runs \in [Runs -> RunRecord] /\ at \in [Runs -> Places] /\ runs[r] \in RunRecord
  BY DEF CInv, IInv, TypeOK
<1>3. CASE LeftSettled(r)
  <2>1. at'[r] = "idle" /\ runs' = runs /\ Settled(r) /\ ~Active(r)
    BY <1>2, <1>3 DEF LeftSettled, JobDone, Go, ClosingInv
  <2>2. ClosingInv(r)'
    BY <2>1 DEF ClosingInv, Active, Settled, Refused, IInv, RunInv, Unused
  <2> QED BY <1>1, <2>2 DEF CInv
<1>4. CASE Announced(r)
  <2>1. at'[r] = "idle" /\ runs'[r].over /\ runs'[r].result # "open"
    <3>1. PICK status \in Decided, saved \in BOOLEAN : Announce(r, status, saved)
      BY <1>4 DEF Announced
    <3> QED BY <1>2, <3>1 DEF Announce, Go, Decided, Unused
  <2>2. ClosingInv(r)'
    BY <2>1 DEF ClosingInv, Active, Settled
  <2> QED BY <1>1, <2>2 DEF CInv
<1>5. CASE Reverting(r)
  <2>1. /\ at'[r] = "revert" /\ runs'[r].result # "open" /\ runs'[r].kind = runs[r].kind
        /\ runs'[r].over = runs[r].over
    BY <1>2, <1>5 DEF Reverting, Go, Decided, RunRecord
  <2>2. ClosingInv(r)'
    BY <2>1 DEF ClosingInv, Active, Settled, Closer, ClosingPlaces
  <2> QED BY <1>1, <2>2 DEF CInv
<1> QED BY <1>3, <1>4, <1>5

LEMMA WorkClosing ==
  ASSUME IInv, CInv, NEW r \in Runs, Work(r)
  PROVE  CInv'
<1>1. runs[r].kind = "terminal" /\ UNCHANGED card
  BY WorkFrame DEF IInv
<1> QED BY <1>1, WorkOutcomes, EndedClosing, GoesOnClosing, GoesBackClosing DEF Outcome

\* A run in progress is marked, or something is queued for it: whoever marks it
\* as refused queues the closing, or finds a check that looks for the mark.
LEMMA MarkClosing ==
  ASSUME IInv, CInv, NEW r \in Runs, runs[r].kind # "unused",
         \A q \in Runs : q # r => runs'[q] = runs[q],
         runs'[r].kind = runs[r].kind, runs'[r].over = runs[r].over, runs'[r].result = runs[r].result,
         jobs' = jobs \/ \E job \in JobKinds : jobs' = [jobs EXCEPT ![r] = Append(@, job)],
         UNCHANGED <<card, at>>,
         runs'[r].violation => runs[r].violation \/ Queued(r)',
         Refused(r)' /\ ~runs'[r].over => Refused(r) \/ Closer(r)'
  PROVE  CInv'
<1>1. \A q \in Runs : q # r => jobs'[q] = jobs[q]
  BY DEF IInv, TypeOK
<1>2. (Queued(r) => Queued(r)') /\ (jobs[r] # <<>> => Head(jobs'[r]) = Head(jobs[r]))
  <2>1. CASE jobs' = jobs
    BY <2>1 DEF Queued
  <2>2. ASSUME NEW job \in JobKinds, jobs' = [jobs EXCEPT ![r] = Append(@, job)]
        PROVE  <1>2
    <3>1. jobs[r] \in Seq(JobKinds) /\ jobs'[r] = Append(jobs[r], job)
      BY <2>2 DEF IInv, TypeOK
    <3> QED BY <3>1, AppendQueued DEF Queued
  <2> QED BY <2>1, <2>2
<1>3. \A q \in Runs : q # r => ClosingInv(q)'
  BY <1>1, ClosingSame DEF CInv
<1>4. ClosingInv(r)'
  BY <1>2 DEF CInv, ClosingInv, Active, Settled, Refused, Closer, Queued, IInv, RunInv
<1> QED BY <1>3, <1>4 DEF CInv

LEMMA CancelClosing ==
  ASSUME "card" \notin Timings, IInv, CInv, NEW r \in Runs, Cancel(r)
  PROVE  CInv'
<1>1. /\ run = r /\ runs[r].kind # "unused" /\ at[r] # "commit"
      /\ at[r] \in {"files", "tests", "scope"} => ~card
      /\ UNCHANGED <<card, at>>
      /\ ClosingInv(r) /\ runs[r] \in RunRecord /\ jobs[r] \in Seq(JobKinds)
  BY DEF Cancel, IInv, RunInv, CInv, TypeOK
<1>2. /\ runs'[r].kind = runs[r].kind /\ runs'[r].over = runs[r].over /\ runs'[r].result = runs[r].result
      /\ runs'[r].violation = runs[r].violation
      /\ \A q \in Runs : q # r => runs'[q] = runs[q]
  BY <1>1 DEF Cancel, IInv, TypeOK, RunRecord
<1>3. jobs' = jobs \/ \E job \in JobKinds : jobs' = [jobs EXCEPT ![r] = Append(@, job)]
  BY DEF Cancel, Queue, JobKinds
<1>4. ~runs'[r].over => Closer(r)'
  <2>1. CASE runs[r].kind = "chat"
    BY <1>1, <1>2, <2>1 DEF ClosingInv, Active, Closer, ClosingPlaces
  <2>2. CASE runs[r].kind # "chat" /\ Listening(r)
    <3>1. runs[r].kind = "terminal"
      BY <1>1, <2>2 DEF RunRecord
    <3>2. jobs'[r] = Append(jobs[r], "cancel") /\ "cancel" \in JobKinds
      BY <2>2, <3>1 DEF Cancel, Queue, JobKinds, IInv, TypeOK
    <3> QED BY <1>1, <3>2, AppendQueued DEF Closer
  <2>3. CASE ~Listening(r)
    BY <1>1, <2>3 DEF Listening, InCheck, ClosingInv, Closer, ClosingPlaces
  <2> QED BY <2>1, <2>2, <2>3
<1> QED BY <1>1, <1>2, <1>3, <1>4, MarkClosing

LEMMA ViolationClosing ==
  ASSUME IInv, CInv, Violation
  PROVE  CInv'
<1>1. ASSUME NEW r \in Runs, Open(r), runs' = [runs EXCEPT ![r].violation = TRUE], Queue(r, "violation"),
             UNCHANGED <<card, at>>
      PROVE  CInv'
  <2>1. jobs[r] \in Seq(JobKinds) /\ jobs'[r] = Append(jobs[r], "violation") /\ "violation" \in JobKinds
    BY <1>1 DEF Queue, IInv, TypeOK, JobKinds
  <2>2. Queued(r)' /\ Closer(r)'
    BY <2>1, AppendQueued DEF Queued, Closer
  <2>3. /\ runs'[r].kind = runs[r].kind /\ runs'[r].over = runs[r].over /\ runs'[r].result = runs[r].result
        /\ \A q \in Runs : q # r => runs'[q] = runs[q]
    BY <1>1 DEF IInv, TypeOK, RunRecord
  <2>4. \E job \in JobKinds : jobs' = [jobs EXCEPT ![r] = Append(@, job)]
    BY <1>1 DEF Queue, JobKinds
  <2>5. runs[r].kind # "unused"
    BY <1>1 DEF Open
  <2> QED BY <1>1, <2>2, <2>3, <2>4, <2>5, MarkClosing
<1>2. CASE UNCHANGED <<runs, jobs, card, at>>
  BY <1>2, ClosingSame DEF CInv
<1> QED BY <1>1, <1>2 DEF Violation

\* What neither works on a job nor refuses a run.
LEMMA OtherClosing ==
  ASSUME IInv, CInv, NEW r \in Runs,
         ReadOnlyPrompt(r) \/ Tool(r) \/ TurnEnd(r) \/ CliEnd(r) \/ Prepared(r)
  PROVE  CInv'
<1>1. runs[r].kind # "unused" /\ runs[r] \in RunRecord /\ UNCHANGED card
  BY DEF ReadOnlyPrompt, Tool, TurnEnd, CliEnd, Prepared, Open, IInv, RunInv, Unused, TypeOK
<1>2. /\ runs'[r].kind = runs[r].kind /\ runs'[r].over = runs[r].over /\ runs'[r].result = runs[r].result
      /\ runs'[r].violation = runs[r].violation /\ runs'[r].cancelled = runs[r].cancelled
      /\ \A q \in Runs : q # r => runs'[q] = runs[q]
  <2>1. CASE Tool(r)
    BY <2>1, AskBaselineFields DEF Tool, IInv
  <2>2. CASE TurnEnd(r) \/ CliEnd(r)
    BY <2>2 DEF TurnEnd, CliEnd
  <2>3. CASE ReadOnlyPrompt(r) \/ Prepared(r)
    BY <2>3 DEF ReadOnlyPrompt, Prepared, IInv, TypeOK, RunRecord
  <2> QED BY <2>1, <2>2, <2>3
<1>3. CASE UNCHANGED at
  <2>1. jobs' = jobs \/ \E job \in JobKinds : jobs' = [jobs EXCEPT ![r] = Append(@, job)]
    BY DEF ReadOnlyPrompt, Tool, TurnEnd, CliEnd, Prepared, Queue, JobKinds
  <2> QED BY <1>1, <1>2, <1>3, <2>1, MarkClosing DEF Refused
<1>4. CASE at[r] = "verify" /\ at' = [at EXCEPT ![r] = "failed"] /\ UNCHANGED jobs
  <2>1. \A q \in Runs : q # r => ClosingInv(q)'
    BY <1>1, <1>2, <1>4, ClosingSame DEF CInv, IInv, TypeOK
  <2>2. ClosingInv(r) /\ at'[r] = "failed"
    BY <1>4 DEF CInv, IInv, TypeOK, Places, InCheck
  <2>3. ClosingInv(r)'
    BY <1>1, <1>2, <1>4, <2>2 DEF ClosingInv, Active, Settled, Refused, Closer, Queued, ClosingPlaces
  <2> QED BY <2>1, <2>3 DEF CInv
<1>5. UNCHANGED at \/ (at[r] = "verify" /\ at' = [at EXCEPT ![r] = "failed"] /\ UNCHANGED jobs)
  BY DEF ReadOnlyPrompt, Tool, TurnEnd, CliEnd, Prepared, Go
<1> QED BY <1>3, <1>4, <1>5

LEMMA OpeningClosing ==
  ASSUME IInv, CInv, StartOpening \/ Saved \/ Printed \/ NotOpened \/ SendMessage
  PROVE  CInv'
<1>1. ASSUME NEW r \in Runs, NEW readOnly \in BOOLEAN, NEW prepared \in {"none", "pending"},
             OpenRun(r, readOnly, prepared), UNCHANGED <<card, jobs, at>>
      PROVE  CInv'
  <2>1. \A q \in Runs : q # r => ClosingInv(q)'
    BY <1>1, ClosingSame DEF OpenRun, CInv, IInv, TypeOK
  <2>2. at[r] = "idle" /\ runs'[r].kind = "terminal" /\ ~Settled(r)' /\ ~runs'[r].violation /\ ~runs'[r].cancelled
    BY <1>1 DEF OpenRun, Unstarted, IInv, TypeOK, RunInv, Unused, Settled
  <2>3. ClosingInv(r)'
    BY <1>1, <2>2 DEF ClosingInv, Refused
  <2> QED BY <2>1, <2>3 DEF CInv
<1>2. CASE SendMessage
  <2>1. PICK r \in Runs :
          /\ runs[r].kind = "unused" /\ runs' = [runs EXCEPT ![r].kind = "chat"]
          /\ at' = [at EXCEPT ![r] = "chat"] /\ UNCHANGED <<card, jobs>>
    BY <1>2 DEF SendMessage, Unstarted, Go
  <2>2. \A q \in Runs : q # r => ClosingInv(q)'
    BY <2>1, ClosingSame DEF CInv, IInv, TypeOK
  <2>3. runs[r] = Unused /\ at'[r] = "chat"
    BY <2>1 DEF IInv, TypeOK, RunInv
  <2>4. ~Settled(r)' /\ ~runs'[r].violation /\ ~runs'[r].cancelled
    BY <2>1, <2>3 DEF IInv, TypeOK, Unused, Settled
  <2>5. ClosingInv(r)'
    BY <2>3, <2>4 DEF ClosingInv, Refused
  <2> QED BY <2>2, <2>5 DEF CInv
<1>3. CASE UNCHANGED <<runs, jobs, card, at>>
  BY <1>3, ClosingSame DEF CInv
<1>4. ASSUME NEW r \in Runs, Open(r), AskBaseline(r), UNCHANGED <<jobs, card, at>>
      PROVE  CInv'
  BY <1>4, AskBaselineFields, MarkClosing DEF Open, Refused, IInv
<1>5. CASE Saved
  BY <1>1, <1>3, <1>4, <1>5 DEF Saved
<1>6. CASE StartOpening \/ Printed \/ NotOpened
  BY <1>1, <1>3, <1>6 DEF StartOpening, Printed, NotOpened
<1> QED BY <1>2, <1>5, <1>6

LEMMA ChatClosing ==
  ASSUME IInv, CInv, NEW r \in Runs, Chat(r)
  PROVE  CInv'
<1>1. runs[r].kind = "chat" /\ ~Settled(r) /\ runs[r] \in RunRecord /\ ~runs[r].violation /\ UNCHANGED <<card, jobs>>
  BY DEF Chat, ChatResult, ChatEnds, IInv, TypeOK, RunInv
<1>2. \A q \in Runs : q # r => ClosingInv(q)'
  BY <1>1, ClosingSame DEF Chat, ChatResult, ChatEnds, Go, CInv, IInv, TypeOK
<1>3. ClosingInv(r)'
  <2>1. CASE ChatResult(r)
    BY <1>1, <2>1 DEF ChatResult, Go, CInv, IInv, TypeOK, ClosingInv, Active, Settled, Refused, Closer, ClosingPlaces
  <2>2. CASE ChatEnds(r)
    <3>1. at'[r] = "idle" /\ runs'[r].over /\ runs'[r].result # "open"
      BY <1>1, <2>2 DEF ChatEnds, Go, IInv, TypeOK, RunRecord
    <3> QED BY <3>1 DEF ClosingInv, Active, Settled
  <2> QED BY <2>1, <2>2 DEF Chat
<1> QED BY <1>2, <1>3 DEF CInv

LEMMA StopClosing ==
  ASSUME IInv, CInv, StopSession \/ Stopped
  PROVE  CInv'
<1>1. CASE UNCHANGED <<runs, jobs, card, at>>
  BY <1>1, ClosingSame DEF CInv
<1>2. ASSUME ~NoneOpen, runs' = [runs EXCEPT ![run].result = "cancelled", ![run].over = TRUE],
             UNCHANGED <<card, jobs, at>>
      PROVE  CInv'
  <2>1. PICK r \in Runs : r = run /\ runs[r].kind = "terminal"
    BY <1>2 DEF NoneOpen, Open
  <2>2. \A q \in Runs : q # r => ClosingInv(q)'
    BY <1>2, <2>1, ClosingSame DEF CInv, IInv, TypeOK
  <2>3. runs'[r].over /\ runs'[r].result # "open" /\ runs'[r].kind = "terminal"
    BY <1>2, <2>1 DEF IInv, TypeOK, RunRecord
  <2>4. ClosingInv(r)'
    BY <1>2, <2>1, <2>3 DEF CInv, ClosingInv, Active, Settled
  <2> QED BY <2>2, <2>4 DEF CInv
<1> QED BY <1>1, <1>2 DEF StopSession, Stopped

LEMMA InitClosing == Init => CInv
BY DEF Init, CInv, ClosingInv, Active, Settled, Refused, Unused

LEMMA StepClosing ==
  ASSUME "card" \notin Timings, IInv, CInv, [Next]_vars
  PROVE  CInv'
<1>1. CASE UNCHANGED vars
  BY <1>1, ClosingSame DEF vars, CInv
<1> QED
  BY <1>1, WorkClosing, CancelClosing, ViolationClosing, OtherClosing, OpeningClosing, ChatClosing, StopClosing
  DEF Next

\* A refused run never waits for its agent, a hook or a person: its closing is
\* queued or in progress, whatever comes at the opening of a run and wherever
\* its check was, if no cancel comes while a card is looked at.
THEOREM SpecClosingUnderWay ==
  ASSUME "card" \notin Timings
  PROVE  Spec => []ClosingUnderWay
<1>1. IInv /\ CInv /\ [Next]_vars => CInv'
  BY StepClosing
<1>2. CInv => ClosingUnderWay
  BY DEF CInv, ClosingInv, ClosingUnderWay, Refused
<1> QED BY SpecInvariant, InitClosing, <1>1, <1>2, PTL DEF Spec

=============================================================================
