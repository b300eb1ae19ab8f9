------------------------------ MODULE Session ------------------------------
(***************************************************************************)
(* The life of one session of the studio server: its status, the request   *)
(* or restore in progress, the git history of its working copy, the        *)
(* development database inside its sandbox and the dumps that pair a       *)
(* database state with a checkpoint.                                       *)
(* (apps/studio/lib/server/sessions.ts, with CheckpointStore and           *)
(* DatabaseBranches of packages/agent.)                                    *)
(*                                                                         *)
(* Code is abstracted to the set of migrations it contains, documents to   *)
(* whether there is an uncommitted one, and the database to the migrations *)
(* applied to it and a stamp of its rows.  A service starts only on a      *)
(* database none of whose applied migrations is missing from its code, and *)
(* then applies the rest: that is what makes a database that does not fit  *)
(* the files fatal (database-branches.ts:20-26).  Every await at which     *)
(* another request, a stop or a crash can get in between is a step.        *)
(***************************************************************************)
EXTENDS Integers, Sequences, FiniteSets

CONSTANTS
  Migration,     \* the migration files code may contain
  Faults,        \* which events of the environment may happen
  MaxCommits,    \* bound: checkpoints ever made
  MaxRows        \* bound: times the database's rows are written

FaultNames == {"docs", "dump", "load", "boot", "terminal", "crash", "platform",
               "undone", "overtaken"}

ASSUME SessionAssumption ==
  /\ IsFiniteSet(Migration)
  /\ Faults \subseteq FaultNames
  /\ MaxCommits \in Nat \ {0}
  /\ MaxRows \in Nat

VARIABLES
  status,     \* snapshot.status
  running,    \* snapshot.running
  stopping,   \* session.stop was aborted and stopSession has not finished
  op,         \* where the request or the restore in progress is
  boot,       \* where the boot in progress is
  from,       \* the boot's databaseFrom; 0 when it is not a resume
  newest,     \* the checkpoint the boot keeps its database for: checkpoints[0] when
              \* the sandbox had started
  commits,    \* every commit ever made: its code, and its log (the commit and its
              \* first-parent ancestors down to the session's first checkpoint)
  head,       \* git HEAD, an index into commits
  list,       \* snapshot.checkpoints, the newest first
  tree,       \* the working copy: its code, and whether a document is uncommitted
  touched,    \* the run has changed a file
  db,         \* the database in the sandbox
  stamp,      \* the last stamp given to a write of rows
  dumps,      \* DatabaseBranches: checkpoint -> the database state kept for it
  saved,      \* the document checkpoint not yet put on the list; 0 for none
  point,      \* the checkpoint the operation holds: parent, dbRestorePoint, target or
              \* the HEAD of the log that was read
  made,       \* the checkpoint the operation has made; 0 for none
  kept        \* an operation left changes it could not put back

git == <<commits, head>>
opVars == <<op, point, made, touched>>
bootVars == <<boot, from, newest>>
dbVars == <<db, stamp, dumps>>
vars == <<status, running, stopping, op, boot, from, newest, commits, head, list,
          saved, tree, touched, db, stamp, dumps, point, made, kept>>

Database == [migs : SUBSET Migration, rows : 0 .. MaxRows]
CommitId == 1 .. Len(commits)

----------------------------------------------------------------------------
Listed == {list[i] : i \in DOMAIN list}

\* CheckpointStore.list on this HEAD: git log, which it cuts at fifty checkpoints
Log(c) == {commits[c].log[i] : i \in DOMAIN commits[c].log}

HeadCode == commits[head].code

\* pendingFiles() is empty
Clean == tree.code = HeadCode /\ ~tree.docs

\* DatabaseBranches.changedSince: only a checkpoint with a dump can tell
DataChanged(sha) == sha \in DOMAIN dumps /\ dumps[sha] # db

Room(n) == Len(commits) + n <= MaxCommits

NewId == Len(commits) + 1

\* commitTree on HEAD; every caller has the bound's room
NewCommit(code) ==
  /\ Room(1)
  /\ commits' = Append(commits, [code |-> code, log |-> <<NewId>> \o commits[head].log])
  /\ head' = NewId

\* May the environment make this step fail
Outcomes(fault) == IF fault \in Faults THEN BOOLEAN ELSE {TRUE}

\* A service restarts: it applies what is missing, or does not come up
Restarted(code, d) ==
  IF d.migs \subseteq code THEN [migs |-> code, rows |-> d.rows] ELSE d

\* saveDatabases(sha): pg_dump to a temporary file, then a rename
SaveDatabases(sha) ==
  \E ok \in Outcomes("dump") :
    dumps' = IF ok THEN [c \in DOMAIN dumps \cup {sha} |->
                           IF c = sha THEN db ELSE dumps[c]]
                   ELSE dumps

\* databases.restore(sha): without a dump the database stays as it is; a load
\* that fails leaves the original database in place
RestoreDatabases(sha) ==
  IF sha \notin DOMAIN dumps
    THEN UNCHANGED <<db, kept>>
    ELSE \E ok \in Outcomes("load") :
           /\ db' = IF ok THEN dumps[sha] ELSE db
           /\ kept' = ~ok

----------------------------------------------------------------------------
\* createSession: from the first checkpoint, booting at once or on demand
Init ==
  /\ \E code \in SUBSET Migration :
       /\ commits = <<[code |-> code, log |-> <<1>>]>>
       /\ tree = [code |-> code, docs |-> FALSE]
       /\ db = [migs |-> code, rows |-> 0]
  /\ head = 1 /\ list = <<1>>
  /\ \/ status = "idle" /\ boot = "none"
     \/ status = "starting" /\ boot = "start"
  /\ from = 0 /\ newest = 1 /\ saved = 0
  /\ running = FALSE /\ stopping = FALSE /\ kept = FALSE
  /\ op = "none" /\ point = 1 /\ made = 0 /\ touched = FALSE
  /\ dumps = [c \in {} |-> [migs |-> {}, rows |-> 0]]
  /\ stamp = 0

----------------------------------------------------------------------------
\* The boot

\* ensureBooted: the first need of a lazy session, or a retry after a failure
EnsureBooted ==
  /\ status \in {"idle", "failed"} /\ ~stopping
  /\ status' = "starting"
  /\ boot' = "start" /\ from' = 0
  /\ UNCHANGED <<running, stopping, opVars, newest, git, list, saved, tree, dbVars, kept>>

\* sandbox.start: the services migrate an empty database to the working copy
BootStart ==
  /\ boot = "start" /\ ~stopping
  /\ \E ok \in Outcomes("boot") :
       IF ok
         THEN /\ db' = [migs |-> tree.code, rows |-> 0]
              /\ boot' = IF from = 0 THEN "save" ELSE "restore"
              /\ newest' = list[1]
              /\ UNCHANGED status
         ELSE /\ status' = "failed" /\ boot' = "none"
              /\ UNCHANGED <<db, newest>>
  /\ UNCHANGED <<running, stopping, opVars, from, git, list, saved, tree, stamp, dumps,
                 kept>>

\* A resumed session loads the database of databaseFrom
BootRestore ==
  /\ boot = "restore" /\ ~stopping
  /\ RestoreDatabases(from)
  /\ boot' = IF from # newest \/ from \notin DOMAIN dumps THEN "save" ELSE "restart"
  /\ UNCHANGED <<status, running, stopping, opVars, from, newest, git, list, saved, tree,
                 stamp, dumps>>

\* ... and keeps the database it ended with for the newest checkpoint
BootSave ==
  /\ boot = "save" /\ ~stopping
  /\ SaveDatabases(newest)
  /\ IF from = 0 THEN status' = "ready" /\ boot' = "none"
                 ELSE boot' = "restart" /\ UNCHANGED status
  /\ UNCHANGED <<running, stopping, opVars, from, newest, git, list, saved, tree, db,
                 stamp, kept>>

\* The services of the restored database restart, and the session is ready
BootRestart ==
  /\ boot = "restart" /\ ~stopping
  /\ db' = Restarted(tree.code, db)
  /\ status' = "ready" /\ boot' = "none"
  /\ UNCHANGED <<running, stopping, opVars, from, newest, git, list, saved, tree, stamp,
                 dumps, kept>>

Boot == BootStart \/ BootRestore \/ BootSave \/ BootRestart

----------------------------------------------------------------------------
\* A request

SendMessage ==
  /\ status \in {"ready", "idle"} /\ ~running
  /\ Room(2)
  /\ running' = TRUE /\ op' = "agent"
  /\ touched' = FALSE /\ made' = 0
  /\ UNCHANGED <<status, stopping, bootVars, git, list, saved, tree, dbVars, point, kept>>

\* A write tool boots a lazy session before it writes; a terminal agent writes
\* into the working copy on its own
AgentWrites ==
  /\ op = "agent" /\ ~stopping
  /\ status = "ready" \/ "terminal" \in Faults
  /\ \E code \in SUBSET Migration, docs \in {tree.docs, TRUE} :
       tree' = [code |-> code, docs |-> docs]
  /\ touched' = TRUE
  /\ UNCHANGED <<status, running, stopping, op, point, made, bootVars, git, list,
                 saved, dbVars, kept>>

\* The agent restarts a service on what it wrote
AgentRestarts ==
  /\ op = "agent" /\ ~stopping /\ status = "ready"
  /\ db' = Restarted(tree.code, db)
  /\ UNCHANGED <<status, running, stopping, opVars, bootVars, git, list, saved, tree,
                 stamp, dumps, kept>>

\* The agent's checks and requests write rows
AgentWritesRows ==
  /\ op = "agent" /\ ~stopping /\ status = "ready"
  /\ stamp < MaxRows
  /\ stamp' = stamp + 1
  /\ db' = [migs |-> db.migs, rows |-> stamp + 1]
  /\ UNCHANGED <<status, running, stopping, opVars, bootVars, git, list, saved, tree,
                 dumps, kept>>

\* The run ends done.  With changes the gate has restarted the services on
\* them; without any there was nothing to verify.
RunDone ==
  /\ op = "agent" /\ ~stopping
  /\ IF touched \/ ~Clean
       THEN /\ status = "ready"
            /\ db.migs \subseteq tree.code
            /\ db' = Restarted(tree.code, db)
       ELSE /\ status \in {"ready", "idle"}
            /\ UNCHANGED db
  /\ IF status = "idle" THEN op' = "none" /\ running' = FALSE
                        ELSE op' = "save" /\ UNCHANGED running
  /\ UNCHANGED <<status, stopping, bootVars, git, list, saved, tree, stamp, dumps, point,
                 made, touched, kept>>

\* The run fails, is cancelled or throws: revertRun when the session is ready.
\* It holds checkpoints[0] as the database's restore point.
RunFailed ==
  /\ op = "agent" /\ ~stopping
  /\ IF status = "ready"
       THEN op' = "discard" /\ point' = list[1] /\ UNCHANGED running
       ELSE op' = "none" /\ running' = FALSE /\ UNCHANGED point
  /\ UNCHANGED <<status, stopping, bootVars, git, list, saved, tree, dbVars, made,
                 touched, kept>>

\* The platform could not verify the changes: they are kept as they are.  The
\* agent may have undone its changes by then, and nothing is left to verify in
\* the next run ("undone").
RunKept ==
  /\ "platform" \in Faults
  /\ op = "agent" /\ ~stopping /\ status = "ready"
  /\ ~Clean \/ (touched /\ "undone" \in Faults)
  /\ op' = "none" /\ running' = FALSE
  /\ kept' = TRUE
  /\ UNCHANGED <<status, stopping, bootVars, git, list, saved, tree, dbVars, point, made,
                 touched>>

\* saveCheckpoint, up to the commit's reading of HEAD: nothing pending and an
\* unchanged database make no checkpoint
Save ==
  /\ op = "save"
  /\ IF Clean /\ ~DataChanged(list[1])
       THEN op' = "none" /\ running' = FALSE /\ UNCHANGED point
       ELSE op' = "commit" /\ point' = head /\ UNCHANGED running
  /\ UNCHANGED <<status, stopping, bootVars, git, list, saved, tree, dbVars, made,
                 touched, kept>>

\* update-ref HEAD only from the parent that was read: a commit in between is
\* a HeadMovedError, and execute reverts the run
Commit ==
  /\ op = "commit"
  /\ IF head = point
       THEN /\ NewCommit(tree.code)
            /\ tree' = [code |-> tree.code, docs |-> FALSE]
            /\ made' = NewId
            /\ op' = "dump"
            /\ UNCHANGED <<running, point>>
       ELSE /\ UNCHANGED <<git, tree, made>>
            /\ IF stopping
                 THEN op' = "none" /\ running' = FALSE /\ UNCHANGED point
                 ELSE op' = "discard" /\ point' = list[1] /\ UNCHANGED running
  /\ UNCHANGED <<status, stopping, bootVars, list, saved, dbVars, touched, kept>>

\* Mutant of Dump: the database is kept for the checkpoint the run started from.
DumpForParent ==
  /\ op = "dump" /\ ~stopping
  /\ SaveDatabases(list[1])
  /\ list' = <<made>> \o list
  /\ op' = "none" /\ running' = FALSE
  /\ kept' = FALSE
  /\ UNCHANGED <<status, stopping, bootVars, git, saved, tree, db, stamp, point, made,
                 touched>>

\* saveDatabases(checkpoint.sha), then the snapshot's list
Dump ==
  /\ op = "dump" /\ ~stopping
  /\ SaveDatabases(made)
  /\ list' = <<made>> \o list
  /\ op' = "none" /\ running' = FALSE
  /\ kept' = FALSE
  /\ UNCHANGED <<status, stopping, bootVars, git, saved, tree, db, stamp, point, made,
                 touched>>

SaveCheckpoint == Save \/ Commit \/ Dump

----------------------------------------------------------------------------
\* revertRun

\* discardWorkingCopy: documents become a checkpoint of their own, the rest of
\* the changes go
Discard ==
  /\ op = "discard"
  /\ IF tree.docs
       THEN NewCommit(HeadCode) /\ made' = NewId /\ list' = <<NewId>> \o list
       ELSE UNCHANGED <<git, list>> /\ made' = 0
  /\ tree' = [code |-> HeadCode, docs |-> FALSE]
  /\ op' = "restoreDb"
  /\ UNCHANGED <<status, running, stopping, bootVars, saved, dbVars, point, touched,
                 kept>>

\* Mutant of RestoreDb: the restore point is read after the documents were
\* committed.
RestoreDbOfNewest ==
  /\ op = "restoreDb" /\ ~stopping
  /\ RestoreDatabases(list[1])
  /\ op' = IF made = 0 THEN "restart" ELSE "dumpDocs"
  /\ UNCHANGED <<status, running, stopping, bootVars, git, list, saved, tree, stamp, dumps,
                 point, made, touched>>

\* databases.restore(dbRestorePoint)
RestoreDb ==
  /\ op = "restoreDb" /\ ~stopping
  /\ RestoreDatabases(point)
  /\ op' = IF made = 0 THEN "restart" ELSE "dumpDocs"
  /\ UNCHANGED <<status, running, stopping, bootVars, git, list, saved, tree, stamp, dumps,
                 point, made, touched>>

\* The restored database is also kept for the document checkpoint
DumpDocs ==
  /\ op = "dumpDocs" /\ ~stopping
  /\ SaveDatabases(made)
  /\ op' = "restart"
  /\ UNCHANGED <<status, running, stopping, bootVars, git, list, saved, tree, db, stamp,
                 point, made, touched, kept>>

\* restartServicesFor the reverted files and the restored database
RestartReverted ==
  /\ op = "restart" /\ ~stopping
  /\ db' = Restarted(tree.code, db)
  /\ op' = "none" /\ running' = FALSE
  /\ UNCHANGED <<status, stopping, bootVars, git, list, saved, tree, stamp, dumps, point,
                 made, touched, kept>>

RevertRun == Discard \/ RestoreDb \/ DumpDocs \/ RestartReverted

----------------------------------------------------------------------------
\* restoreCheckpoint

\* Mutant of RestoreCheckpoint: the checkpoint is not looked up in the list.
RestoreUnlisted ==
  /\ status = "ready" /\ ~running
  /\ \E sha \in CommitId : point' = sha
  /\ running' = TRUE /\ op' = "reset"
  /\ UNCHANGED <<status, stopping, bootVars, git, list, saved, tree, dbVars, made, touched,
                 kept>>

RestoreCheckpoint ==
  /\ status = "ready" /\ ~running
  /\ \E sha \in Listed : point' = sha
  /\ running' = TRUE /\ op' = "reset"
  /\ UNCHANGED <<status, stopping, bootVars, git, list, saved, tree, dbVars, made, touched,
                 kept>>

\* CheckpointStore.restore: git reset --hard.  A document checkpoint that is not
\* on the list yet is taken out of the history only with the fault "overtaken".
Reset ==
  /\ op = "reset"
  /\ saved = 0 \/ "overtaken" \in Faults
  /\ head' = point
  /\ tree' = [code |-> commits[point].code, docs |-> FALSE]
  /\ op' = "restoreTo"
  /\ UNCHANGED <<status, running, stopping, bootVars, commits, list, saved, dbVars,
                 point, made, touched, kept>>

\* Mutant of RestoreTo: only the files go back.
RestoreFilesOnly ==
  /\ op = "restoreTo" /\ ~stopping
  /\ op' = "restartTo"
  /\ UNCHANGED <<status, running, stopping, bootVars, git, list, saved, tree, dbVars, point,
                 made, touched, kept>>

RestoreTo ==
  /\ op = "restoreTo" /\ ~stopping
  /\ RestoreDatabases(point)
  /\ op' = "restartTo"
  /\ UNCHANGED <<status, running, stopping, bootVars, git, list, saved, tree, stamp, dumps,
                 point, made, touched>>

\* The services restart, and git log is read
RestartTo ==
  /\ op = "restartTo" /\ ~stopping
  /\ db' = Restarted(tree.code, db)
  /\ point' = head
  /\ op' = "listTo"
  /\ UNCHANGED <<status, running, stopping, bootVars, git, list, saved, tree, stamp,
                 dumps, made, touched, kept>>

\* Mutant of ListTo: the snapshot's list is not read again.
ListNothing ==
  /\ op = "listTo"
  /\ op' = "none" /\ running' = FALSE
  /\ UNCHANGED <<status, stopping, bootVars, git, list, saved, tree, dbVars, point, made,
                 touched, kept>>

\* CheckpointStore.list has read each commit of that log, and the snapshot's list
\* becomes what was read, whatever came on it in the meantime
ListTo ==
  /\ op = "listTo"
  /\ list' = commits[point].log
  /\ op' = "none" /\ running' = FALSE
  /\ UNCHANGED <<status, stopping, bootVars, git, saved, tree, dbVars, point, made,
                 touched, kept>>

Restore == Reset \/ RestoreTo \/ RestartTo \/ ListTo

----------------------------------------------------------------------------
\* commitWorkingCopyDocs: the document tab saves and commits whatever the session
\* is doing, one save at a time.  It writes no dump.
DocsCommit ==
  /\ "docs" \in Faults
  /\ status # "stopped" /\ saved = 0
  /\ Room(2)
  /\ NewCommit(HeadCode)
  /\ saved' = NewId
  /\ \E docs \in {FALSE, tree.docs} : tree' = [code |-> tree.code, docs |-> docs]
  /\ UNCHANGED <<status, running, stopping, opVars, bootVars, list, dbVars, kept>>

\* The commit has been read back and goes in front of the list as it is now
DocsListed ==
  /\ saved # 0
  /\ list' = <<saved>> \o list
  /\ saved' = 0
  /\ UNCHANGED <<status, running, stopping, opVars, bootVars, git, tree, dbVars, kept>>

DocsSave == DocsCommit \/ DocsListed

----------------------------------------------------------------------------
\* stopSession aborts what is in progress, takes the sandbox down and marks the
\* session stopped
StopSession ==
  /\ status # "stopped" /\ ~stopping
  /\ stopping' = TRUE
  /\ UNCHANGED <<status, running, opVars, bootVars, git, list, saved, tree, dbVars, kept>>

\* What waits on the stop signal ends without reverting.  A commit whose dump is
\* cut short may or may not reach the list.
AbortableOps == {"agent", "dump", "restoreDb", "dumpDocs", "restart", "restoreTo",
                 "restartTo"}

OpAborted ==
  /\ stopping /\ op \in AbortableOps
  /\ \/ UNCHANGED list
     \/ op = "dump" /\ list' = <<made>> \o list
  /\ op' = "none" /\ running' = FALSE
  /\ UNCHANGED <<status, stopping, bootVars, git, saved, tree, dbVars, point, made,
                 touched, kept>>

StopDone ==
  /\ stopping /\ op = "none"
  /\ status' = "stopped" /\ stopping' = FALSE /\ running' = FALSE
  /\ boot' = "none"
  /\ UNCHANGED <<opVars, from, newest, git, list, saved, tree, dbVars, kept>>

\* The server process dies; recover() finds the session archived
Crash ==
  /\ "crash" \in Faults
  /\ status # "stopped"
  /\ status' = "stopped" /\ stopping' = FALSE /\ running' = FALSE
  /\ op' = "none" /\ boot' = "none" /\ saved' = 0
  /\ UNCHANGED <<point, made, touched, from, newest, git, list, tree, dbVars, kept>>

\* resumeSession: the working copy goes back to HEAD, its documents to a
\* checkpoint, the list is git's, and a new sandbox boots with the database of the
\* HEAD it found.  A document save still under way has the old session's list.
ResumeSession ==
  /\ status = "stopped"
  /\ IF tree.docs THEN NewCommit(HeadCode) ELSE UNCHANGED git
  /\ tree' = [code |-> HeadCode, docs |-> FALSE]
  /\ list' = commits'[head'].log /\ saved' = 0
  /\ status' = "starting" /\ boot' = "start" /\ from' = head
  /\ kept' = FALSE
  /\ UNCHANGED <<running, stopping, opVars, newest, dbVars>>

Next ==
  \/ EnsureBooted \/ Boot
  \/ SendMessage \/ AgentWrites \/ AgentRestarts \/ AgentWritesRows
  \/ RunDone \/ RunFailed \/ RunKept
  \/ SaveCheckpoint \/ RevertRun
  \/ RestoreCheckpoint \/ Restore
  \/ DocsSave
  \/ StopSession \/ OpAborted \/ StopDone
  \/ Crash \/ ResumeSession

Spec == Init /\ [][Next]_vars

----------------------------------------------------------------------------
\* Properties

Ops == AbortableOps \cup {"none", "save", "commit", "discard", "reset", "listTo"}

ControlOK ==
  /\ status \in {"idle", "starting", "ready", "failed", "stopped"}
  /\ running \in BOOLEAN /\ stopping \in BOOLEAN /\ kept \in BOOLEAN
  /\ touched \in BOOLEAN
  /\ op \in Ops
  /\ boot \in {"none", "start", "restore", "save", "restart"}
  /\ point \in CommitId /\ made \in 0 .. Len(commits) /\ from \in 0 .. Len(commits)
  /\ newest \in CommitId /\ saved \in 0 .. Len(commits)

HistoryOK ==
  /\ commits \in Seq([code : SUBSET Migration, log : Seq(Nat)])
  /\ Len(commits) \in 1 .. MaxCommits
  /\ \A c \in CommitId :
       commits[c].log \in Seq(1 .. c) /\ commits[c].log # <<>> /\ commits[c].log[1] = c
  /\ head \in CommitId
  /\ list \in Seq(CommitId) /\ list # <<>>

DataOK ==
  /\ tree \in [code : SUBSET Migration, docs : BOOLEAN]
  /\ db \in Database /\ stamp \in 0 .. MaxRows
  /\ DOMAIN dumps \subseteq CommitId
  /\ \A c \in DOMAIN dumps : dumps[c] \in Database

(* The variables range over what the code keeps in them; HEAD and every       *)
(* checkpoint the session lists are commits that exist.                       *)
TypeOK == ControlOK /\ HistoryOK /\ DataOK

\* Nothing is in progress in a ready session, no document save either
Settled == status = "ready" /\ ~running /\ ~stopping /\ saved = 0

\* A checkpoint and all that it was made on have a dump
Dumped(c) == Log(c) \subseteq DOMAIN dumps

(* When nothing is in progress and nothing is uncommitted or kept back, the   *)
(* database is the one that was kept for HEAD, whatever runs failed, were     *)
(* cancelled, crashed or were restored from before: files and database are at *)
(* the same checkpoint (sessions.ts:3149-3157, database-branches.ts:20-26).   *)
(* Checkpoints without a dump are the exception the next property names.      *)
SettledIsCheckpoint ==
  Settled /\ Clean /\ Dumped(head) /\ ~kept => db = dumps[head]

(* A database kept for a checkpoint never contains a migration that the       *)
(* checkpoint's files lack, so going back to any checkpoint leaves services   *)
(* that can start (database-branches.ts:21-23).                               *)
DumpFitsCode ==
  \A c \in Listed : Dumped(c) => dumps[c].migs \subseteq commits[c].code

\* The checkpoint of a document save: the files of the one it was made on, no dump
OfDocuments(c) ==
  /\ c \notin DOMAIN dumps
  /\ Len(commits[c].log) > 1 /\ commits[c].code = commits[commits[c].log[2]].code

(* When nothing is in progress the session lists checkpoints of its git       *)
(* history only, and of that history it lacks at most documents, which were   *)
(* saved while a restore read the history: no checkpoint of a run, and none   *)
(* that a dump was kept for, however runs, document saves, restores, stops    *)
(* and crashes met (sessions.ts:3086, :3177, :3426, :3563).                   *)
ListMatchesGit ==
  Settled => /\ Listed \subseteq Log(head)
             /\ \A c \in Log(head) \ Listed : OfDocuments(c)

(* What was kept for a checkpoint stays: no later step replaces or drops the  *)
(* dump a checkpoint has (database-branches.ts:46-63).                        *)
DumpsAreKept ==
  [][\A c \in DOMAIN dumps : c \in DOMAIN dumps' /\ dumps'[c] = dumps[c]]_vars

(* What a user is promised of checkpoints (CheckpointHistory), whatever runs, *)
(* restores, document saves, stops, crashes and resumes come in between: the  *)
(* history only grows on top of HEAD, HEAD goes back only to a checkpoint the *)
(* session lists, and a dump is kept once, for a checkpoint of HEAD's history *)
(* (saveCheckpoint, restoreCheckpoint, database-branches.ts:46-63).           *)
Promise == INSTANCE CheckpointHistory
  WITH Code <- SUBSET Migration, Data <- Database,
       history <- commits, place <- head, shown <- Listed, kept <- dumps

KeepsHistory == Promise!Spec

(* revertRun takes checkpoints[0] as the database's restore point because it  *)
(* is the one that "really has a dump" (sessions.ts:3157).                    *)
RestorePointHasDump == op = "discard" => point \in DOMAIN dumps

=============================================================================
