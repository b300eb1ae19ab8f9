-------------------------- MODULE SessionProofs ---------------------------
(***************************************************************************)
(* Session proved for every set of migrations and every bound: its type    *)
(* invariant; that the list lacks nothing but documents, and that the      *)
(* session implements CheckpointHistory, unless a restore overtakes a      *)
(* document checkpoint; when boots do not fail, that no dump is ever       *)
(* replaced or dropped; and, under Repairable, that a settled database is  *)
(* the one kept for HEAD and that a dump fits its checkpoint.              *)
(*                                                                         *)
(* DumpsAreKept is about three steps that write a dump (Dump, DumpDocs     *)
(* and BootSave), each of which must write it for a checkpoint that has    *)
(* none.  For the first two that is the checkpoint the operation has just  *)
(* made (Unsaved's last part).  For a boot it is the newest one on the     *)
(* list when the sandbox had started: either nothing was ever dumped, or   *)
(* it is the checkpoint of a document, or its dump was looked for and      *)
(* missing.  Only one of the request and the boot can be past its          *)
(* beginning (Phases).                                                     *)
(*                                                                         *)
(* A document save is two steps, and anything may come between its commit  *)
(* and its entry on the list.  Apart says that the checkpoint it has       *)
(* still to list is none that a dump is written for, Attached that what    *)
(* is written, read or listed later is still in HEAD's history, and        *)
(* InSync what the list lacks at each step of a restore.                   *)
(*                                                                         *)
(* The database and the files are a matter of whole histories (FitInv): a  *)
(* document checkpoint has no dump, and the database of a checkpoint       *)
(* below which one is missing may lag behind its files.  Where every       *)
(* checkpoint below has a dump, the dump has the checkpoint's migrations   *)
(* (Fits); what each step of a run, a revert, a restore and a boot holds   *)
(* of the database keeps it so (HeldByRun, HeldByRevert, HeldByBoot).      *)
(***************************************************************************)
EXTENDS Session, SequenceTheorems, TLAPS

\* An operation runs with running set; a dump is written for a checkpoint the
\* operation made, while the session is ready; a boot runs while it is starting.
Phases ==
  /\ op # "none" => running
  /\ op \in {"dump", "dumpDocs"} => made # 0
  /\ op \notin {"none", "agent"} => status = "ready"
  /\ boot # "none" => status = "starting"

\* The operation has made a checkpoint that is still to get its dump
Making == op \in {"dump", "restoreDb", "dumpDocs"} /\ made # 0

\* The checkpoints that a step may still write a dump for have none
Unsaved ==
  /\ status # "failed"
  /\ status = "idle" => DOMAIN dumps = {}
  /\ boot # "none" /\ from = 0 => DOMAIN dumps = {}
  /\ boot = "start" /\ from # 0 /\ from # list[1] => list[1] \notin DOMAIN dumps
  /\ boot = "restore" /\ from # 0 /\ from # newest => newest \notin DOMAIN dumps
  /\ boot = "save" => newest \notin DOMAIN dumps
  /\ Making => made \notin DOMAIN dumps

\* What a document save has still to list is not what a dump is written for
Apart ==
  /\ saved # 0 => OfDocuments(saved)
  /\ saved # 0 /\ Making => saved # made
  /\ saved # 0 /\ status \in {"idle", "starting", "failed"} => saved \notin Listed
  /\ boot \in {"restore", "save", "restart"} => newest \in Listed
  /\ op \in {"restoreDb", "dumpDocs"} /\ made # 0 => made \in Listed

----------------------------------------------------------------------------
\* Facts about the operators

LEMMA PushFront ==
  ASSUME NEW S, NEW s \in Seq(S), NEW x \in S
  PROVE  /\ <<x>> \o s \in Seq(S)
         /\ <<x>> \o s # <<>>
         /\ (<<x>> \o s)[1] = x
  OBVIOUS

LEMMA SeqWiden ==
  ASSUME NEW S, NEW T, S \subseteq T, NEW s \in Seq(S)
  PROVE  s \in Seq(T)
  OBVIOUS

LEMMA SeqMembers ==
  ASSUME NEW S, NEW s \in Seq(S)
  PROVE  /\ \A i \in DOMAIN s : s[i] \in S
         /\ s # <<>> => s[1] \in S
  OBVIOUS

LEMMA ListedType ==
  ASSUME HistoryOK
  PROVE  list[1] \in CommitId /\ Listed \subseteq CommitId /\ head \in CommitId
  BY SeqMembers DEF HistoryOK, Listed

LEMMA RestartedType ==
  ASSUME NEW code \in SUBSET Migration, NEW d \in Database
  PROVE  Restarted(code, d) \in Database
  BY DEF Restarted, Database

\* A new commit extends the history by one checkpoint, the new HEAD
LEMMA NewCommitType ==
  ASSUME SessionAssumption, HistoryOK, NEW code \in SUBSET Migration, NewCommit(code)
  PROVE  /\ Len(commits') = Len(commits) + 1
         /\ CommitId \subseteq CommitId'
         /\ NewId \in CommitId'
         /\ NewId \notin CommitId
         /\ head' = NewId
         /\ commits' \in Seq([code : SUBSET Migration, log : Seq(Nat)])
         /\ Len(commits') \in 1 .. MaxCommits
         /\ \A c \in CommitId' :
              commits'[c].log \in Seq(1 .. c) /\ commits'[c].log # <<>> /\ commits'[c].log[1] = c
  <1> DEFINE new == [code |-> code, log |-> <<NewId>> \o commits[head].log]
  <1>1. Len(commits) \in Nat /\ NewId = Len(commits) + 1 /\ head \in 1 .. Len(commits)
        /\ Len(commits) + 1 <= MaxCommits /\ MaxCommits \in Nat
    BY DEF HistoryOK, NewId, NewCommit, Room, CommitId, SessionAssumption
  <1>2. commits[head].log \in Seq(1 .. NewId)
    <2>1. commits[head].log \in Seq(1 .. head)
      BY DEF HistoryOK
    <2>2. 1 .. head \subseteq 1 .. NewId
      BY <1>1
    <2> QED BY <2>1, <2>2, SeqWiden
  <1>3. NewId \in 1 .. NewId
    BY <1>1
  <1>4. /\ new.log \in Seq(1 .. NewId) /\ new.log # <<>> /\ new.log[1] = NewId
    BY <1>2, <1>3, PushFront
  <1>5. new.log \in Seq(Nat)
    BY <1>1, <1>4, SeqWiden, 1 .. NewId \subseteq Nat
  <1>6. new \in [code : SUBSET Migration, log : Seq(Nat)]
    BY <1>5
  <1>7. commits' = Append(commits, new) /\ head' = NewId
    BY DEF NewCommit
  <1> HIDE DEF new
  <1>8. /\ commits' \in Seq([code : SUBSET Migration, log : Seq(Nat)])
        /\ Len(commits') = Len(commits) + 1
        /\ \A i \in 1 .. Len(commits) : commits'[i] = commits[i]
        /\ commits'[Len(commits) + 1] = new
    BY <1>6, <1>7 DEF HistoryOK
  <1>9. ASSUME NEW c \in CommitId'
        PROVE  commits'[c].log \in Seq(1 .. c) /\ commits'[c].log # <<>> /\ commits'[c].log[1] = c
    <2>1. CASE c = NewId
      BY <2>1, <1>1, <1>4, <1>8
    <2>2. CASE c # NewId
      <3>1. c \in CommitId /\ commits'[c] = commits[c]
        BY <2>2, <1>1, <1>8 DEF CommitId
      <3> QED BY <3>1 DEF HistoryOK
    <2> QED BY <2>1, <2>2
  <1> QED BY <1>1, <1>7, <1>8, <1>9 DEF CommitId

\* What stands for a commit before a new one stands for one after it
LEMMA Widen ==
  ASSUME SessionAssumption, TypeOK, NEW code \in SUBSET Migration, NewCommit(code)
  PROVE  /\ point \in CommitId' /\ newest \in CommitId' /\ list \in Seq(CommitId')
         /\ made \in 0 .. Len(commits') /\ from \in 0 .. Len(commits')
         /\ saved \in 0 .. Len(commits')
         /\ DOMAIN dumps \subseteq CommitId' /\ NewId \notin DOMAIN dumps
         /\ NewId \in 1 .. Len(commits') /\ NewId # 0
  <1>1. HistoryOK
    BY DEF TypeOK
  <1>2. /\ Len(commits') = Len(commits) + 1 /\ CommitId \subseteq CommitId'
        /\ NewId \in CommitId' /\ NewId \notin CommitId /\ Len(commits) \in Nat
    BY <1>1, NewCommitType DEF HistoryOK
  <1>3. list \in Seq(CommitId')
    BY <1>1, <1>2, SeqWiden DEF HistoryOK
  <1> QED BY <1>2, <1>3 DEF TypeOK, ControlOK, DataOK, NewId, CommitId

\* Writing a dump adds one entry, or fails and changes nothing
LEMMA SaveType ==
  ASSUME TypeOK, NEW sha \in CommitId, SaveDatabases(sha)
  PROVE  /\ DOMAIN dumps' \subseteq DOMAIN dumps \cup {sha}
         /\ DOMAIN dumps \subseteq DOMAIN dumps'
         /\ \A c \in DOMAIN dumps' : dumps'[c] \in Database
         /\ sha \notin DOMAIN dumps => \A c \in DOMAIN dumps : dumps'[c] = dumps[c]
  BY DEF TypeOK, DataOK, SaveDatabases

LEMMA RestoreType ==
  ASSUME TypeOK, NEW sha, RestoreDatabases(sha)
  PROVE  db' \in Database /\ kept' \in BOOLEAN
  BY DEF TypeOK, DataOK, ControlOK, RestoreDatabases, Outcomes

----------------------------------------------------------------------------
\* The type invariant

LEMMA SameHistory ==
  ASSUME HistoryOK, UNCHANGED <<commits, head, list>>
  PROVE  HistoryOK' /\ CommitId' = CommitId /\ Len(commits') = Len(commits)
  BY DEF HistoryOK, CommitId

\* The steps that leave the history alone
Quiet ==
  \/ EnsureBooted \/ Boot
  \/ SendMessage \/ AgentWrites \/ AgentRestarts \/ AgentWritesRows
  \/ RunDone \/ RunFailed \/ RunKept \/ Save \/ (Commit /\ head # point)
  \/ RestoreDb \/ DumpDocs \/ RestartReverted \/ RestoreCheckpoint \/ RestoreTo \/ RestartTo
  \/ StopSession \/ (OpAborted /\ UNCHANGED list) \/ StopDone \/ Crash
  \/ UNCHANGED vars

LEMMA QuietStep ==
  ASSUME SessionAssumption, TypeOK, Phases, Quiet
  PROVE  TypeOK'
  <1>a. UNCHANGED <<commits, head, list>>
    BY DEF Quiet, vars, git, EnsureBooted, Boot, BootStart, BootRestore, BootSave, BootRestart,
       SendMessage, AgentWrites, AgentRestarts, AgentWritesRows, RunDone, RunFailed, RunKept,
       Save, Commit, RestoreDb, DumpDocs, RestartReverted, RestoreCheckpoint, RestoreTo,
       RestartTo, StopSession, OpAborted, StopDone, Crash
  <1>1. HistoryOK /\ HistoryOK' /\ CommitId' = CommitId /\ Len(commits') = Len(commits)
        /\ Len(commits) \in Nat /\ Len(commits) >= 1
    BY <1>a, SameHistory DEF TypeOK, HistoryOK
  <1>0. list[1] \in CommitId /\ Listed \subseteq CommitId /\ head \in CommitId
    BY <1>1, ListedType
  <1> USE <1>0, <1>1 DEF TypeOK, ControlOK, DataOK, CommitId, Ops, AbortableOps
  <1>2. CASE EnsureBooted
    BY <1>2 DEF EnsureBooted, opVars, dbVars
  <1>3. CASE Boot
    <2>1. CASE BootStart
      BY <2>1 DEF BootStart, opVars, dbVars, Database, SessionAssumption
    <2>2. CASE BootRestore
      BY <2>2, RestoreType DEF BootRestore, opVars
    <2>3. CASE BootSave
      <3>1. newest \in CommitId /\ SaveDatabases(newest)
        BY <2>3 DEF BootSave
      <3>2. DataOK'
        BY <2>3, <3>1, SaveType DEF BootSave
      <3>3. QED
        BY <2>3, <3>2 DEF BootSave, opVars
    <2>4. CASE BootRestart
      BY <2>4, RestartedType DEF BootRestart, opVars
    <2>5. QED
      BY <1>3, <2>1, <2>2, <2>3, <2>4 DEF Boot
  <1>4. CASE SendMessage \/ AgentWrites \/ RunFailed \/ RunKept \/ RestoreCheckpoint
    <2>1. CASE SendMessage
      <3>1. op' = "agent" /\ running' = TRUE /\ touched' = FALSE /\ made' = 0
            /\ UNCHANGED <<status, stopping, boot, from, newest, saved, tree, db, stamp, dumps,
                           point, kept>>
        BY <2>1 DEF SendMessage, bootVars, dbVars
      <3>2. made' \in 0 .. Len(commits')
        BY <3>1
      <3>3. ControlOK'
        BY <3>1, <3>2
      <3>4. DataOK'
        BY <3>1
      <3>5. QED
        BY <3>3, <3>4
    <2>4. CASE RunKept
      BY <2>4 DEF RunKept, bootVars, dbVars
    <2>0. CASE AgentWrites
      <3>1. tree' \in [code : SUBSET Migration, docs : BOOLEAN]
        <4>1. tree.docs \in BOOLEAN
          OBVIOUS
        <4>2. PICK code \in SUBSET Migration, docs \in {tree.docs, TRUE} :
                tree' = [code |-> code, docs |-> docs]
          BY <2>0 DEF AgentWrites
        <4>3. docs \in BOOLEAN
          BY <4>1
        <4>4. QED
          BY <4>2, <4>3
      <3>2. UNCHANGED <<status, running, stopping, op, point, made, boot, from, newest, saved,
                        db, stamp, dumps, kept>> /\ touched' = TRUE
        BY <2>0 DEF AgentWrites, bootVars, dbVars
      <3>3. ControlOK'
        BY <3>2
      <3>4. DataOK'
        BY <3>1, <3>2
      <3>5. QED
        BY <3>3, <3>4
    <2>2. CASE RunFailed
      BY <2>2 DEF RunFailed, bootVars, opVars, dbVars
    <2>3. CASE RestoreCheckpoint
      BY <2>3 DEF RestoreCheckpoint, bootVars, opVars, dbVars
    <2>5. QED
      BY <1>4, <2>0, <2>1, <2>2, <2>3, <2>4
  <1>5. CASE AgentRestarts \/ AgentWritesRows \/ RunDone
    <2>1. Restarted(tree.code, db) \in Database
      BY RestartedType
    <2>2. CASE AgentRestarts
      BY <2>1, <2>2 DEF AgentRestarts, bootVars, opVars, dbVars
    <2>3. CASE AgentWritesRows
      BY <2>3 DEF AgentWritesRows, bootVars, opVars, dbVars, Database, SessionAssumption
    <2>4. CASE RunDone
      BY <2>1, <2>4 DEF RunDone, bootVars, opVars, dbVars
    <2>5. QED
      BY <1>5, <2>2, <2>3, <2>4
  <1>6. CASE Save \/ (Commit /\ head # point)
    BY <1>6 DEF Save, Commit, bootVars, opVars, dbVars
  <1>7. CASE RestoreDb \/ RestoreTo
    BY <1>7, RestoreType DEF RestoreDb, RestoreTo, bootVars, opVars
  <1>8. CASE RestartReverted \/ RestartTo
    BY <1>8, RestartedType DEF RestartReverted, RestartTo, bootVars, opVars, git
  <1>9. CASE DumpDocs
    <2>1. made \in CommitId
      BY <1>9 DEF DumpDocs, Phases
    <2>2. QED
      BY <1>9, <2>1, SaveType DEF DumpDocs, bootVars, opVars
  <1>10. CASE StopSession \/ (OpAborted /\ UNCHANGED list)
    <2>1. CASE StopSession
      BY <2>1 DEF StopSession, bootVars, opVars, dbVars
    <2>2. CASE OpAborted
      BY <2>2 DEF OpAborted, bootVars, dbVars
    <2>3. QED
      BY <1>10, <2>1, <2>2
  <1>11. CASE StopDone
    BY <1>11 DEF StopDone, opVars, dbVars
  <1>13. CASE Crash
    <2>1. status' = "stopped" /\ op' = "none" /\ boot' = "none" /\ saved' = 0
          /\ running' = FALSE /\ stopping' = FALSE
          /\ UNCHANGED <<point, made, touched, from, newest, tree, db, stamp, dumps, kept>>
      BY <1>13 DEF Crash, dbVars
    <2>2. saved' \in 0 .. Len(commits')
      BY <2>1
    <2>3. ControlOK' /\ DataOK'
      BY <2>1, <2>2
    <2>4. QED
      BY <2>3
  <1>12. CASE UNCHANGED vars
    BY <1>12 DEF vars
  <1> QED
    BY <1>2, <1>3, <1>4, <1>5, <1>6, <1>7, <1>8, <1>9, <1>10, <1>11, <1>12, <1>13 DEF Quiet

\* A step that makes a checkpoint from the code of the working copy or of HEAD
LEMMA CommitStep ==
  ASSUME SessionAssumption, TypeOK, NEW code \in SUBSET Migration, NewCommit(code),
         list' \in {list, <<NewId>> \o list, commits'[head'].log}
  PROVE  HistoryOK'
  <1>1. /\ Len(commits') \in 1 .. MaxCommits
        /\ commits' \in Seq([code : SUBSET Migration, log : Seq(Nat)])
        /\ \A c \in CommitId' :
             commits'[c].log \in Seq(1 .. c) /\ commits'[c].log # <<>> /\ commits'[c].log[1] = c
        /\ head' \in CommitId' /\ head' = NewId /\ NewId \in CommitId'
    BY NewCommitType DEF TypeOK
  <1>2. list \in Seq(CommitId') /\ list # <<>>
    BY Widen DEF TypeOK, HistoryOK
  <1>3. <<NewId>> \o list \in Seq(CommitId') /\ <<NewId>> \o list # <<>>
    BY <1>1, <1>2, PushFront
  <1>4. commits'[head'].log \in Seq(CommitId') /\ commits'[head'].log # <<>>
    <2>1. 1 .. head' \subseteq CommitId'
      BY <1>1 DEF CommitId
    <2>2. QED
      BY <1>1, <2>1, SeqWiden
  <1>5. list' \in Seq(CommitId') /\ list' # <<>>
    BY <1>2, <1>3, <1>4
  <1>6. QED
    BY <1>1, <1>5 DEF HistoryOK

\* A step that changes the list or HEAD only
LEMMA ListStep ==
  ASSUME HistoryOK, UNCHANGED commits, head' \in CommitId,
         list' \in Seq(CommitId), list' # <<>>
  PROVE  HistoryOK' /\ CommitId' = CommitId /\ Len(commits') = Len(commits)
  BY DEF HistoryOK, CommitId

LEMMA LogType ==
  ASSUME HistoryOK, NEW c \in CommitId
  PROVE  commits[c].log \in Seq(CommitId) /\ commits[c].log # <<>>
         /\ commits[c].code \in SUBSET Migration
  <1>1. commits[c].log \in Seq(1 .. c) /\ commits[c].log # <<>>
    BY DEF HistoryOK
  <1>2. 1 .. c \subseteq CommitId
    BY DEF HistoryOK, CommitId
  <1>3. commits[c] \in [code : SUBSET Migration, log : Seq(Nat)]
    <2>1. commits \in Seq([code : SUBSET Migration, log : Seq(Nat)]) /\ c \in DOMAIN commits
      BY DEF HistoryOK, CommitId
    <2>2. QED
      BY <2>1, SeqMembers
  <1>4. commits[c].log \in Seq(CommitId)
    BY <1>1, <1>2, SeqWiden
  <1>5. commits[c].code \in SUBSET Migration
    BY <1>3
  <1>6. QED
    BY <1>1, <1>4, <1>5

\* The type invariant, without Phases
LEMMA TypeStep ==
  ASSUME SessionAssumption, TypeOK, Phases, [Next]_vars
  PROVE  TypeOK'
  <1>1. HistoryOK /\ ControlOK /\ DataOK /\ HeadCode \in SUBSET Migration
        /\ tree.code \in SUBSET Migration
    BY ListedType, LogType DEF TypeOK, HeadCode, DataOK
  <1>2. CASE Quiet
    BY <1>2, QuietStep
  <1>3. CASE Commit /\ head = point
    <2>1. NewCommit(tree.code) /\ made' = NewId
          /\ UNCHANGED <<running, point, status, stopping, boot, from, newest, list, saved, db,
                         stamp, dumps, touched, kept>>
          /\ op' = "dump" /\ tree' = [code |-> tree.code, docs |-> FALSE]
      BY <1>3 DEF Commit, bootVars, dbVars
    <2>2. HistoryOK'
      BY <1>1, <2>1, CommitStep
    <2>3. ControlOK'
      BY <1>1, <2>1, Widen DEF ControlOK, Ops, AbortableOps
    <2>4. DataOK'
      BY <1>1, <2>1, Widen DEF DataOK
    <2>5. QED
      BY <2>2, <2>3, <2>4 DEF TypeOK
  <1>4. CASE Dump \/ (OpAborted /\ op = "dump" /\ list' = <<made>> \o list)
    <2>1. made \in CommitId
      BY <1>1, <1>4 DEF Dump, Phases, ControlOK, CommitId
    <2>2. /\ UNCHANGED <<commits, head, status, stopping, boot, from, newest, saved, tree, db,
                         stamp, point, made, touched>>
          /\ list' = <<made>> \o list /\ op' = "none" /\ running' = FALSE
          /\ kept' \in {FALSE, kept}
      BY <1>4 DEF Dump, OpAborted, git, bootVars, dbVars
    <2>3. list' \in Seq(CommitId) /\ list' # <<>>
      BY <1>1, <2>1, <2>2, PushFront DEF HistoryOK
    <2>4. HistoryOK' /\ CommitId' = CommitId /\ Len(commits') = Len(commits)
      BY <1>1, <2>2, <2>3, ListStep, ListedType
    <2>5. ControlOK'
      BY <1>1, <2>2, <2>4 DEF ControlOK, Ops
    <2>6. DataOK'
      <3>1. CASE Dump
        <4>1. SaveDatabases(made)
          BY <3>1 DEF Dump
        <4>2. QED
          BY <1>1, <2>1, <2>2, <2>4, <4>1, SaveType DEF DataOK
      <3>2. CASE OpAborted
        BY <1>1, <2>2, <2>4, <3>2 DEF DataOK, OpAborted, dbVars
      <3>3. QED
        BY <1>4, <3>1, <3>2
    <2>7. QED
      BY <2>4, <2>5, <2>6 DEF TypeOK
  <1>5. CASE Discard
    <2>1. /\ UNCHANGED <<running, point, status, stopping, boot, from, newest, saved, db, stamp,
                         dumps, touched, kept>>
          /\ op' = "restoreDb" /\ tree' = [code |-> HeadCode, docs |-> FALSE]
      BY <1>5 DEF Discard, bootVars, dbVars
    <2>2. CASE tree.docs
      <3>1. NewCommit(HeadCode) /\ made' = NewId /\ list' = <<NewId>> \o list
        BY <1>5, <2>2 DEF Discard
      <3>2. HistoryOK'
        BY <1>1, <3>1, CommitStep
      <3>3. ControlOK'
        BY <1>1, <2>1, <3>1, Widen DEF ControlOK, Ops, AbortableOps
      <3>4. DataOK'
        BY <1>1, <2>1, <3>1, Widen DEF DataOK
      <3>5. QED
        BY <3>2, <3>3, <3>4 DEF TypeOK
    <2>3. CASE ~ tree.docs
      <3>1. UNCHANGED <<commits, head, list>> /\ made' = 0
        BY <1>5, <2>3 DEF Discard, git
      <3>2. HistoryOK' /\ CommitId' = CommitId /\ Len(commits') = Len(commits)
        BY <1>1, <3>1, SameHistory
      <3>3. made' \in 0 .. Len(commits)
        BY <1>1, <3>1 DEF HistoryOK
      <3>4. ControlOK'
        BY <1>1, <2>1, <3>2, <3>3 DEF ControlOK, Ops, AbortableOps
      <3>5. DataOK'
        BY <1>1, <2>1, <3>2 DEF DataOK
      <3>6. QED
        BY <3>2, <3>4, <3>5 DEF TypeOK
    <2>4. QED
      BY <2>2, <2>3
  <1>6. CASE Reset
    <2>1. /\ UNCHANGED <<commits, list, running, point, made, status, stopping, boot, from,
                         newest, saved, db, stamp, dumps, touched, kept>>
          /\ op' = "restoreTo" /\ tree' = [code |-> commits[point].code, docs |-> FALSE]
          /\ head' = point
      BY <1>6 DEF Reset, bootVars, dbVars
    <2>2. point \in CommitId /\ list \in Seq(CommitId) /\ list # <<>>
          /\ commits[point].code \in SUBSET Migration
      BY <1>1, LogType DEF ControlOK, HistoryOK
    <2>3. HistoryOK' /\ CommitId' = CommitId /\ Len(commits') = Len(commits)
      BY <1>1, <2>1, <2>2, ListStep
    <2>4. ControlOK'
      BY <1>1, <2>1, <2>3 DEF ControlOK, Ops, AbortableOps
    <2>5. DataOK'
      BY <1>1, <2>1, <2>2, <2>3 DEF DataOK
    <2>6. QED
      BY <2>3, <2>4, <2>5 DEF TypeOK
  <1>7. CASE ListTo
    <2>1. /\ UNCHANGED <<commits, head, tree, point, made, status, stopping, boot, from,
                         newest, saved, db, stamp, dumps, touched, kept>>
          /\ op' = "none" /\ running' = FALSE /\ list' = commits[point].log
      BY <1>7 DEF ListTo, bootVars, git, dbVars
    <2>2. list' \in Seq(CommitId) /\ list' # <<>> /\ head \in CommitId
      BY <1>1, <2>1, LogType, ListedType DEF ControlOK
    <2>3. HistoryOK' /\ CommitId' = CommitId /\ Len(commits') = Len(commits)
      BY <1>1, <2>1, <2>2, ListStep
    <2>4. ControlOK'
      BY <1>1, <2>1, <2>3 DEF ControlOK, Ops
    <2>5. DataOK'
      BY <1>1, <2>1, <2>3 DEF DataOK
    <2>6. QED
      BY <2>3, <2>4, <2>5 DEF TypeOK
  <1>8. CASE DocsCommit
    <2>1. NewCommit(HeadCode) /\ list' = list /\ saved' = NewId
          /\ UNCHANGED <<status, running, stopping, op, point, made, touched, boot, from,
                         newest, db, stamp, dumps, kept>>
      BY <1>8 DEF DocsCommit, opVars, bootVars, dbVars
    <2>2. tree' \in [code : SUBSET Migration, docs : BOOLEAN]
      <3>1. tree.docs \in BOOLEAN
        BY <1>1 DEF DataOK
      <3>2. PICK docs \in {FALSE, tree.docs} : tree' = [code |-> tree.code, docs |-> docs]
        BY <1>8 DEF DocsCommit
      <3>3. docs \in BOOLEAN
        BY <3>1
      <3>4. QED
        BY <1>1, <3>2, <3>3
    <2>3. HistoryOK'
      BY <1>1, <2>1, CommitStep
    <2>4. ControlOK'
      BY <1>1, <2>1, Widen DEF ControlOK, Ops
    <2>5. DataOK'
      BY <1>1, <2>1, <2>2, Widen DEF DataOK
    <2>6. QED
      BY <2>3, <2>4, <2>5 DEF TypeOK
  <1>11. CASE DocsListed
    <2>1. /\ UNCHANGED <<commits, head, tree, point, made, status, running, stopping, op, boot,
                         from, newest, db, stamp, dumps, touched, kept>>
          /\ list' = <<saved>> \o list /\ saved' = 0 /\ saved # 0
      BY <1>11 DEF DocsListed, opVars, bootVars, dbVars, git
    <2>2. saved \in CommitId /\ list \in Seq(CommitId) /\ head \in CommitId
          /\ Len(commits) \in Nat
      BY <1>1, <2>1 DEF ControlOK, HistoryOK, CommitId
    <2>3. list' \in Seq(CommitId) /\ list' # <<>>
      BY <2>1, <2>2, PushFront
    <2>4. HistoryOK' /\ CommitId' = CommitId /\ Len(commits') = Len(commits)
      BY <1>1, <2>1, <2>2, <2>3, ListStep
    <2>5. ControlOK'
      BY <1>1, <2>1, <2>2, <2>4 DEF ControlOK, Ops
    <2>6. DataOK'
      BY <1>1, <2>1, <2>4 DEF DataOK
    <2>7. QED
      BY <2>4, <2>5, <2>6 DEF TypeOK
  <1>9. CASE ResumeSession
    <2>1. /\ UNCHANGED <<running, stopping, op, point, made, touched, newest, db, stamp, dumps>>
          /\ status' = "starting" /\ boot' = "start" /\ from' = head /\ kept' = FALSE
          /\ saved' = 0
          /\ tree' = [code |-> HeadCode, docs |-> FALSE]
          /\ list' = commits'[head'].log
      BY <1>9 DEF ResumeSession, opVars, dbVars
    <2>5. Len(commits) \in Nat
      BY <1>1 DEF HistoryOK
    <2>2. CASE tree.docs
      <3>1. NewCommit(HeadCode)
        BY <1>9, <2>2 DEF ResumeSession
      <3>2. HistoryOK'
        BY <1>1, <2>1, <3>1, CommitStep
      <3>3. from' \in 0 .. Len(commits') /\ 0 \in 0 .. Len(commits')
        <4>1. Len(commits') = Len(commits) + 1 /\ head \in 1 .. Len(commits)
              /\ Len(commits) \in Nat
          BY <1>1, <3>1, NewCommitType DEF HistoryOK, CommitId
        <4>2. QED
          BY <2>1, <4>1
      <3>4. ControlOK'
        BY <1>1, <2>1, <3>1, <3>3, Widen DEF ControlOK, Ops
      <3>5. DataOK'
        BY <1>1, <2>1, <3>1, Widen DEF DataOK
      <3>6. QED
        BY <3>2, <3>4, <3>5 DEF TypeOK
    <2>3. CASE ~ tree.docs
      <3>1. UNCHANGED <<commits, head>>
        BY <1>9, <2>3 DEF ResumeSession, git
      <3>2. head \in CommitId /\ head \in 0 .. Len(commits) /\ 0 \in 0 .. Len(commits)
        BY <1>1 DEF HistoryOK, CommitId
      <3>3. list' \in Seq(CommitId) /\ list' # <<>>
        BY <1>1, <2>1, <3>1, <3>2, LogType
      <3>4. HistoryOK' /\ CommitId' = CommitId /\ Len(commits') = Len(commits)
        BY <1>1, <3>1, <3>2, <3>3, ListStep
      <3>5. ControlOK'
        BY <1>1, <2>1, <3>2, <3>4 DEF ControlOK, Ops
      <3>6. DataOK'
        BY <1>1, <2>1, <3>4 DEF DataOK
      <3>7. QED
        BY <3>4, <3>5, <3>6 DEF TypeOK
    <2>4. QED
      BY <2>2, <2>3
  <1>10. QED
    BY <1>2, <1>3, <1>4, <1>5, <1>6, <1>7, <1>8, <1>9, <1>11
       DEF Next, Quiet, SaveCheckpoint, RevertRun, Restore, DocsSave, OpAborted

----------------------------------------------------------------------------
LEMMA PhasesStep ==
  ASSUME TypeOK, Phases, [Next]_vars
  PROVE  Phases'
  <1> USE DEF Phases
  <1>1. CASE EnsureBooted \/ Boot
    BY <1>1 DEF EnsureBooted, Boot, BootStart, BootRestore, BootSave, BootRestart, opVars
  <1>2. CASE SendMessage \/ AgentWrites \/ AgentRestarts \/ AgentWritesRows
    BY <1>2 DEF SendMessage, AgentWrites, AgentRestarts, AgentWritesRows, opVars, bootVars
  <1>3. CASE RunDone \/ RunFailed \/ RunKept
    BY <1>3 DEF RunDone, RunFailed, RunKept, bootVars
  <1>4. CASE SaveCheckpoint
    <2>1. NewId # 0
      BY DEF NewId, TypeOK, HistoryOK
    <2>2. QED
      BY <1>4, <2>1 DEF SaveCheckpoint, Save, Commit, Dump, bootVars
  <1>5. CASE RevertRun
    <2>1. NewId # 0
      BY DEF NewId, TypeOK, HistoryOK
    <2>2. QED
      BY <1>5, <2>1 DEF RevertRun, Discard, RestoreDb, DumpDocs, RestartReverted, bootVars
  <1>6. CASE RestoreCheckpoint \/ Restore
    BY <1>6 DEF RestoreCheckpoint, Restore, Reset, RestoreTo, RestartTo, ListTo, bootVars
  <1>7. CASE DocsSave \/ StopSession
    BY <1>7 DEF DocsSave, DocsCommit, DocsListed, StopSession, bootVars, opVars
  <1>8. CASE OpAborted \/ StopDone \/ Crash \/ ResumeSession
    BY <1>8 DEF OpAborted, StopDone, Crash, ResumeSession, bootVars, opVars
  <1>9. CASE UNCHANGED vars
    BY <1>9 DEF vars, opVars, bootVars
  <1>10. QED
    BY <1>1, <1>2, <1>3, <1>4, <1>5, <1>6, <1>7, <1>8, <1>9 DEF Next

LEMMA InitType ==
  ASSUME SessionAssumption, Init
  PROVE  TypeOK /\ Phases
  <1>1. PICK code \in SUBSET Migration :
          /\ commits = <<[code |-> code, log |-> <<1>>]>>
          /\ tree = [code |-> code, docs |-> FALSE]
          /\ db = [migs |-> code, rows |-> 0]
    BY DEF Init
  <1>2. /\ head = 1 /\ list = <<1>> /\ from = 0 /\ point = 1 /\ made = 0 /\ touched = FALSE
        /\ newest = 1 /\ saved = 0
        /\ running = FALSE /\ stopping = FALSE /\ kept = FALSE /\ op = "none" /\ stamp = 0
        /\ DOMAIN dumps = {}
        /\ (status = "idle" /\ boot = "none") \/ (status = "starting" /\ boot = "start")
    BY DEF Init
  <1>3. /\ <<1>> \in Seq(1 .. 1) /\ <<1>> \in Seq(Nat) /\ <<1>> # <<>> /\ (<<1>>)[1] = 1
    OBVIOUS
  <1>4. [code |-> code, log |-> <<1>>] \in [code : SUBSET Migration, log : Seq(Nat)]
    BY <1>3
  <1>5. commits \in Seq([code : SUBSET Migration, log : Seq(Nat)]) /\ Len(commits) = 1
        /\ commits[1] = [code |-> code, log |-> <<1>>]
    BY <1>1, <1>4
  <1>6. CommitId = {1}
    BY <1>5 DEF CommitId
  <1>7. HistoryOK
    <2>1. commits[1].log = <<1>>
      BY <1>5
    <2>2. list \in Seq({1}) /\ list # <<>>
      BY <1>2
    <2>3. Len(commits) \in 1 .. MaxCommits
      BY <1>5 DEF SessionAssumption
    <2>4. QED
      BY <1>2, <1>3, <1>5, <1>6, <2>1, <2>2, <2>3 DEF HistoryOK
  <1>8. ControlOK
    <2>1. /\ point \in CommitId /\ made \in 0 .. Len(commits) /\ from \in 0 .. Len(commits)
          /\ newest \in CommitId /\ saved \in 0 .. Len(commits)
      BY <1>2, <1>5, <1>6
    <2>2. op \in Ops /\ boot \in {"none", "start"} /\ status \in {"idle", "starting"}
      BY <1>2 DEF Ops
    <2>3. QED
      BY <1>2, <2>1, <2>2 DEF ControlOK
  <1>9. DataOK
    BY <1>1, <1>2 DEF DataOK, Database, SessionAssumption
  <1>10. Phases
    BY <1>2 DEF Phases
  <1>11. QED
    BY <1>7, <1>8, <1>9, <1>10 DEF TypeOK

\* Whatever the faults, HEAD and every listed checkpoint are commits that exist
\* and every variable stays in its range (TypeOK): no interleaving of a run, a
\* restore, a document save, a stop, a crash and a resume loses a checkpoint
\* (sessions.ts, checkpoints.ts).
THEOREM SessionTypeOK == Spec => []TypeOK
  <1>1. Init => TypeOK /\ Phases
    BY InitType, SessionAssumption
  <1>2. TypeOK /\ Phases /\ [Next]_vars => (TypeOK /\ Phases)'
    BY TypeStep, PhasesStep, SessionAssumption
  <1>3. QED
    BY <1>1, <1>2, PTL DEF Spec

----------------------------------------------------------------------------
\* The dumps

\* OfDocuments of any history and dumps
Documented(cs, ds, c) ==
  /\ c \notin DOMAIN ds
  /\ Len(cs[c].log) > 1 /\ cs[c].code = cs[cs[c].log[2]].code

LEMMA OfDocumentsKept ==
  ASSUME TypeOK, NEW code \in SUBSET Migration, NewCommit(code),
         NEW c \in CommitId, Documented(commits, dumps, c)
  PROVE  Documented(commits', dumps, c)
  <1>1. commits \in Seq([code : SUBSET Migration, log : Seq(Nat)]) /\ CommitId = 1 .. Len(commits)
        /\ commits[c].log \in Seq(1 .. c) /\ Len(commits) \in Nat
    BY DEF TypeOK, HistoryOK, CommitId
  <1>2. commits[c].log[2] \in CommitId
    <2>1. Len(commits[c].log) > 1 /\ commits[c].log \in Seq(1 .. c)
      BY <1>1 DEF Documented
    <2>2. commits[c].log[2] \in 1 .. c
      <3>1. 2 \in DOMAIN commits[c].log
        BY <2>1
      <3>2. QED
        BY <2>1, <3>1, SeqMembers
    <2>3. 1 .. c \subseteq CommitId
      BY <1>1
    <2>4. QED
      BY <2>1, <2>2, <2>3
  <1>3. \A d \in CommitId : commits'[d] = commits[d]
    BY <1>1 DEF NewCommit
  <1>4. commits'[c] = commits[c] /\ commits'[commits[c].log[2]] = commits[commits[c].log[2]]
    BY <1>2, <1>3
  <1>5. QED
    BY <1>4 DEF Documented

LEMMA NewOfDocuments ==
  ASSUME SessionAssumption, TypeOK, NewCommit(HeadCode)
  PROVE  Documented(commits', dumps, NewId)
  <1> DEFINE new == [code |-> HeadCode, log |-> <<NewId>> \o commits[head].log]
  <1>1. /\ commits \in Seq([code : SUBSET Migration, log : Seq(Nat)]) /\ head \in CommitId
        /\ CommitId = 1 .. Len(commits) /\ Len(commits) \in Nat /\ HistoryOK
    BY DEF TypeOK, HistoryOK, CommitId
  <1>0. HeadCode \in SUBSET Migration
    BY <1>1, LogType DEF HeadCode
  <1>2. commits'[NewId] = new /\ commits'[head] = commits[head]
    BY <1>1 DEF NewCommit, NewId
  <1>3. Len(new.log) > 1 /\ new.log[2] = head
    <2>1. commits[head].log \in Seq(Nat) /\ commits[head].log # <<>> /\ commits[head].log[1] = head
      <3>1. commits[head].log \in Seq(1 .. head) /\ 1 .. head \subseteq Nat
        BY <1>1 DEF HistoryOK
      <3>2. QED
        BY <1>1, <3>1, SeqWiden DEF HistoryOK
    <2>2. \A t \in Seq(Nat) : t # <<>> => Len(<<NewId>> \o t) > 1 /\ (<<NewId>> \o t)[2] = t[1]
      BY <1>1 DEF NewId
    <2>3. QED
      BY <2>1, <2>2
  <1>4. new.code = commits[head].code
    BY DEF HeadCode
  <1>5. NewId \notin DOMAIN dumps
    BY <1>0, Widen
  <1> HIDE DEF new
  <1>6. QED
    BY <1>2, <1>3, <1>4, <1>5 DEF Documented

\* The steps that write no dump leave Unsaved to the control state
LEMMA UnsavedStep ==
  ASSUME "boot" \notin Faults, TypeOK, Phases, Unsaved, Apart, Next, UNCHANGED dumps
  PROVE  Unsaved'
  <1>1. NewId \notin DOMAIN dumps /\ NewId # 0
    BY DEF TypeOK, HistoryOK, DataOK, CommitId, NewId
  <1> USE <1>1 DEF Unsaved, Phases, Making
  <1>2. CASE EnsureBooted
    BY <1>2 DEF EnsureBooted, opVars
  <1>3. CASE BootStart
    BY <1>3 DEF BootStart, opVars, Outcomes
  <1>4. CASE BootRestore \/ BootSave \/ BootRestart
    BY <1>4 DEF BootRestore, BootSave, BootRestart, opVars
  <1>5. CASE SendMessage \/ AgentWrites \/ AgentRestarts \/ AgentWritesRows
    BY <1>5 DEF SendMessage, AgentWrites, AgentRestarts, AgentWritesRows, opVars, bootVars
  <1>6. CASE RunDone \/ RunFailed \/ RunKept
    BY <1>6 DEF RunDone, RunFailed, RunKept, bootVars
  <1>7. CASE Save \/ Commit
    BY <1>7 DEF Save, Commit, bootVars
  <1>8. CASE Dump
    BY <1>8 DEF Dump, bootVars
  <1>9. CASE Discard
    BY <1>9 DEF Discard, bootVars
  <1>10. CASE RestoreDb \/ DumpDocs \/ RestartReverted
    BY <1>10 DEF RestoreDb, DumpDocs, RestartReverted, bootVars, opVars
  <1>11. CASE RestoreCheckpoint \/ Restore
    BY <1>11 DEF RestoreCheckpoint, Restore, Reset, RestoreTo, RestartTo, ListTo, bootVars
  <1>12. CASE DocsCommit \/ StopSession
    BY <1>12 DEF DocsCommit, StopSession, bootVars, opVars
  <1>16. CASE DocsListed
    <2>1. saved \notin DOMAIN dumps /\ list' = <<saved>> \o list
      BY <1>16 DEF DocsListed, Apart, OfDocuments
    <2>2. list'[1] = saved
      <3>1. list \in Seq(Nat) /\ saved \in Nat
        BY SeqWiden, CommitId \subseteq Nat DEF TypeOK, HistoryOK, ControlOK, CommitId
      <3>2. QED
        BY <2>1, <3>1, PushFront
    <2>3. QED
      BY <1>16, <2>1, <2>2 DEF DocsListed, bootVars, opVars
  <1>13. CASE OpAborted \/ StopDone \/ Crash
    BY <1>13 DEF OpAborted, StopDone, Crash, bootVars, opVars
  <1>14. CASE ResumeSession
    <2>1. from' = head /\ boot' = "start" /\ status' = "starting" /\ op' = op /\ made' = made
      BY <1>14 DEF ResumeSession, opVars
    <2>2. head # 0 /\ op \in {"none", "agent"}
      BY <1>14 DEF ResumeSession, TypeOK, HistoryOK, CommitId
    <2>3. list'[1] = head'
      <3>1. list' = commits'[head'].log
        BY <1>14 DEF ResumeSession
      <3>2. CASE tree.docs
        <4>1. HeadCode \in SUBSET Migration
          BY LogType DEF HeadCode, TypeOK, HistoryOK
        <4>2. NewCommit(HeadCode)
          BY <1>14, <3>2 DEF ResumeSession
        <4>3. QED
          BY <3>1, <4>1, <4>2, NewCommitType, SessionAssumption DEF TypeOK
      <3>3. CASE ~ tree.docs
        BY <1>14, <3>1, <3>3 DEF ResumeSession, git, TypeOK, HistoryOK
      <3>4. QED
        BY <3>2, <3>3
    <2>4. head' = head \/ head' = NewId
      BY <1>14 DEF ResumeSession, git, NewCommit
    <2>5. QED
      BY <2>1, <2>2, <2>3, <2>4
  <1>15. QED
    BY <1>2, <1>3, <1>4, <1>5, <1>6, <1>7, <1>8, <1>9, <1>10, <1>11, <1>12, <1>13, <1>14,
       <1>16 DEF Next, Boot, SaveCheckpoint, RevertRun, DocsSave

\* What writes a dump: its checkpoint has none
LEMMA DumpStep ==
  ASSUME TypeOK, Phases, Unsaved, Next
  PROVE  \/ UNCHANGED dumps
         \/ (BootSave /\ SaveDatabases(newest) /\ newest \notin DOMAIN dumps
             /\ newest \in CommitId)
         \/ ((Dump \/ DumpDocs) /\ SaveDatabases(made) /\ made \notin DOMAIN dumps
             /\ made \in CommitId)
  <1>1. CASE BootSave
    BY <1>1 DEF BootSave, Unsaved, TypeOK, ControlOK
  <1>2. CASE Dump \/ DumpDocs
    <2>1. made # 0 /\ made \notin DOMAIN dumps /\ SaveDatabases(made)
      BY <1>2 DEF Dump, DumpDocs, Unsaved, Phases, Making
    <2>2. made \in 0 .. Len(commits) /\ Len(commits) \in Nat
      BY DEF TypeOK, HistoryOK, ControlOK
    <2>3. made \in CommitId
      BY <2>1, <2>2 DEF CommitId
    <2>4. QED
      BY <1>2, <2>1, <2>3
  <1>3. CASE ~ (BootSave \/ Dump \/ DumpDocs)
    BY <1>3 DEF Next, dbVars, EnsureBooted, Boot, BootStart, BootRestore, BootRestart, SendMessage,
       AgentWrites, AgentRestarts, AgentWritesRows, RunDone, RunFailed, RunKept,
       SaveCheckpoint, Save, Commit, RevertRun, Discard, RestoreDb, RestartReverted,
       RestoreCheckpoint, Restore, Reset, RestoreTo, RestartTo, ListTo, DocsSave, DocsCommit,
       DocsListed, StopSession, OpAborted, StopDone, Crash, ResumeSession
  <1>4. QED
    BY <1>1, <1>2, <1>3

\* After a dump is written nothing else is about to be
LEMMA UnsavedAfterDump ==
  ASSUME Phases, Unsaved, BootSave \/ Dump \/ DumpDocs
  PROVE  Unsaved'
  <1>1. CASE BootSave
    BY <1>1 DEF BootSave, Unsaved, Phases, Making, opVars
  <1>2. CASE Dump \/ DumpDocs
    BY <1>2 DEF Dump, DumpDocs, Unsaved, Phases, Making, bootVars
  <1>3. QED
    BY <1>1, <1>2

LEMMA UnsavedAlways ==
  ASSUME "boot" \notin Faults, TypeOK, Phases, Unsaved, Apart, [Next]_vars
  PROVE  Unsaved'
  <1>1. CASE Next
    BY <1>1, DumpStep, UnsavedStep, UnsavedAfterDump
  <1>2. CASE UNCHANGED vars
    BY <1>2 DEF vars, opVars, bootVars, dbVars, Unsaved, Making
  <1>3. QED
    BY <1>1, <1>2

\* The checkpoints a step may write a dump for, whatever fails
LEMMA DumpedNext ==
  ASSUME TypeOK, Phases, [Next]_vars
  PROVE  \/ UNCHANGED dumps
         \/ BootSave /\ DOMAIN dumps' \subseteq DOMAIN dumps \cup {newest}
         \/ (Dump \/ DumpDocs) /\ DOMAIN dumps' \subseteq DOMAIN dumps \cup {made}
  <1>1. CASE BootSave
    BY <1>1, SaveType DEF BootSave, TypeOK, ControlOK
  <1>2. CASE Dump \/ DumpDocs
    <2>1. made # 0 /\ SaveDatabases(made)
      BY <1>2 DEF Dump, DumpDocs, Phases
    <2>2. made \in CommitId
      BY <2>1 DEF CommitId, TypeOK, HistoryOK, ControlOK
    <2>3. QED
      BY <1>2, <2>1, <2>2, SaveType
  <1>3. CASE ~ (BootSave \/ Dump \/ DumpDocs)
    BY <1>3 DEF Next, vars, dbVars, EnsureBooted, Boot, BootStart, BootRestore, BootRestart,
       SendMessage, AgentWrites, AgentRestarts, AgentWritesRows, RunDone, RunFailed, RunKept,
       SaveCheckpoint, Save, Commit, RevertRun, Discard, RestoreDb, RestartReverted,
       RestoreCheckpoint, Restore, Reset, RestoreTo, RestartTo, ListTo, DocsSave, DocsCommit,
       DocsListed, StopSession, OpAborted, StopDone, Crash, ResumeSession
  <1>4. QED
    BY <1>1, <1>2, <1>3

\* What a document save has made stays without a dump
LEMMA DocumentedStep ==
  ASSUME SessionAssumption, TypeOK, Phases, Apart, [Next]_vars, NEW c \in CommitId,
         Documented(commits, dumps, c),
         BootSave => c # newest, Dump \/ DumpDocs => c # made
  PROVE  Documented(commits', dumps', c)
  <1>1. DOMAIN dumps' \subseteq DOMAIN dumps \/ c \notin DOMAIN dumps'
    BY DumpedNext DEF Documented
  <1>2. Documented(commits', dumps, c)
    <2>1. UNCHANGED commits \/ NewCommit(HeadCode) \/ NewCommit(tree.code)
      BY DEF Next, vars, git, EnsureBooted, Boot, BootStart, BootRestore, BootSave,
         BootRestart, SendMessage, AgentWrites, AgentRestarts, AgentWritesRows, RunDone,
         RunFailed, RunKept, SaveCheckpoint, Save, Commit, Dump, RevertRun, Discard, RestoreDb,
         DumpDocs, RestartReverted, RestoreCheckpoint, Restore, Reset, RestoreTo, RestartTo,
         ListTo, DocsSave, DocsCommit, DocsListed, StopSession, OpAborted, StopDone, Crash,
         ResumeSession
    <2>2. HeadCode \in SUBSET Migration /\ tree.code \in SUBSET Migration
      BY ListedType, LogType DEF TypeOK, HeadCode, DataOK
    <2>3. QED
      BY <2>1, <2>2, OfDocumentsKept
  <1>3. QED
    BY <1>1, <1>2 DEF Documented

----------------------------------------------------------------------------
\* The list

Logged == Log(head)

Members(s) == {s[i] : i \in DOMAIN s}

LEMMA FrontMembers ==
  ASSUME NEW S, NEW s \in Seq(S), NEW x \in S
  PROVE  Members(<<x>> \o s) = {x} \cup Members(s)
  <1> DEFINE t == <<x>> \o s
  <1>1. /\ DOMAIN s = 1 .. Len(s) /\ Len(s) \in Nat
        /\ DOMAIN t = 1 .. Len(s) + 1
        /\ t[1] = x /\ \A i \in 1 .. Len(s) : t[i + 1] = s[i]
    OBVIOUS
  <1> HIDE DEF t
  <1>2. \A i \in DOMAIN t : t[i] \in {x} \cup {s[j] : j \in DOMAIN s}
    <2> SUFFICES ASSUME NEW i \in 1 .. Len(s) + 1, i # 1
                 PROVE  \E j \in 1 .. Len(s) : t[i] = s[j]
      BY <1>1
    <2>1. i - 1 \in 1 .. Len(s) /\ t[i - 1 + 1] = s[i - 1] /\ i - 1 + 1 = i
      BY <1>1
    <2>2. QED
      BY <2>1
  <1>3. x \in {t[i] : i \in DOMAIN t}
    <2>1. 1 \in DOMAIN t
      BY <1>1
    <2>2. QED
      BY <1>1, <2>1
  <1>4. \A j \in DOMAIN s : s[j] \in {t[i] : i \in DOMAIN t}
    <2> SUFFICES ASSUME NEW j \in 1 .. Len(s) PROVE \E i \in DOMAIN t : t[i] = s[j]
      BY <1>1
    <2>1. j + 1 \in DOMAIN t /\ t[j + 1] = s[j]
      BY <1>1
    <2>2. QED
      BY <2>1
  <1>5. QED
    BY <1>2, <1>3, <1>4 DEF t, Members

\* A new commit adds itself to the log, and to the list it is put in front of
LEMMA CommitLogs ==
  ASSUME SessionAssumption, TypeOK, NEW code \in SUBSET Migration, NewCommit(code)
  PROVE  /\ Logged' = {NewId} \cup Logged
         /\ list' = <<NewId>> \o list => Listed' = {NewId} \cup Listed
  <1>1. HistoryOK /\ NewId \in CommitId' /\ head \in CommitId
    BY NewCommitType, ListedType DEF TypeOK
  <1>2. commits[head].log \in Seq(CommitId') /\ list \in Seq(CommitId')
    <2>1. commits[head].log \in Seq(CommitId)
      BY <1>1, LogType
    <2>2. CommitId \subseteq CommitId'
      BY <1>1, NewCommitType
    <2>3. QED
      BY <2>1, <2>2, SeqWiden, Widen
  <1>3. commits'[head'].log = <<NewId>> \o commits[head].log
    BY <1>1 DEF NewCommit, NewId, HistoryOK
  <1>4. Logged = Members(commits[head].log) /\ Listed = Members(list)
        /\ Logged' = Members(commits'[head'].log) /\ Listed' = Members(list')
    BY DEF Logged, Log, Listed, Members
  <1>5. Logged' = {NewId} \cup Logged
    BY <1>1, <1>2, <1>3, <1>4, FrontMembers
  <1>6. ASSUME list' = <<NewId>> \o list PROVE Listed' = {NewId} \cup Listed
    BY <1>1, <1>2, <1>4, <1>6, FrontMembers
  <1>7. QED
    BY <1>5, <1>6

\* A checkpoint goes to the front of the list
LEMMA ListFront ==
  ASSUME HistoryOK, NEW x \in CommitId, list' = <<x>> \o list
  PROVE  Listed' = {x} \cup Listed /\ list'[1] = x
  <1>1. list \in Seq(CommitId) /\ Listed = Members(list) /\ Listed' = Members(<<x>> \o list)
    BY DEF HistoryOK, Listed, Members
  <1>2. QED
    BY <1>1, FrontMembers, PushFront

LEMMA CommitFacts ==
  ASSUME TypeOK
  PROVE  /\ HistoryOK /\ HeadCode \in SUBSET Migration /\ tree.code \in SUBSET Migration
         /\ Listed \subseteq CommitId /\ list[1] \in Listed /\ head \in CommitId
         /\ (saved # 0 => saved \in CommitId) /\ (made # 0 => made \in CommitId)
         /\ point \in CommitId /\ newest \in CommitId
         /\ NewId \notin CommitId /\ NewId # 0
         /\ head \in Logged /\ Logged = Log(head)
  <1>1. /\ HistoryOK /\ head \in CommitId /\ Listed \subseteq CommitId
        /\ HeadCode \in SUBSET Migration /\ tree.code \in SUBSET Migration
    BY ListedType, LogType DEF TypeOK, HeadCode, DataOK
  <1>2. list[1] \in Listed
    BY <1>1 DEF HistoryOK, Listed
  <1>3. /\ (saved # 0 => saved \in CommitId) /\ (made # 0 => made \in CommitId)
        /\ NewId \notin CommitId /\ NewId # 0
        /\ point \in CommitId /\ newest \in CommitId
    <2>1. Len(commits) \in Nat
      BY <1>1 DEF HistoryOK
    <2>2. QED
      BY <2>1 DEF TypeOK, ControlOK, CommitId, NewId
  <1>4. head \in Logged
    <2>1. commits[head].log \in Seq(1 .. head) /\ commits[head].log # <<>>
          /\ commits[head].log[1] = head
      BY <1>1 DEF HistoryOK
    <2>2. 1 \in DOMAIN commits[head].log
      BY <2>1
    <2>3. QED
      BY <2>1, <2>2 DEF Logged, Log
  <1>5. QED
    BY <1>1, <1>2, <1>3, <1>4 DEF Logged

\* The steps of a boot, and those of everything else
LEMMA ApartStep ==
  ASSUME SessionAssumption, TypeOK, Phases, Apart, [Next]_vars
  PROVE  Apart'
  <1>1. /\ HistoryOK /\ HeadCode \in SUBSET Migration /\ tree.code \in SUBSET Migration
        /\ Listed \subseteq CommitId /\ list[1] \in Listed /\ head \in CommitId
        /\ (saved # 0 => saved \in CommitId) /\ (made # 0 => made \in CommitId)
        /\ NewId \notin CommitId /\ NewId # 0
    BY CommitFacts
  <1>2. UNCHANGED list => Listed' = Listed
    BY DEF Listed
  <1>3. ASSUME saved # 0, saved' = saved PROVE OfDocuments(saved)'
    <2>1. Documented(commits, dumps, saved)
      BY <1>3 DEF Apart, OfDocuments, Documented
    <2>2. BootSave => saved # newest
      BY <1>3 DEF BootSave, Apart, Phases
    <2>3. Dump \/ DumpDocs => saved # made
      BY <1>3 DEF Dump, DumpDocs, Apart, Phases, Making
    <2>4. Documented(commits', dumps', saved)
      BY <1>1, <1>3, <2>1, <2>2, <2>3, DocumentedStep
    <2>5. QED
      BY <1>3, <2>4 DEF OfDocuments, Documented
  <1>4. CASE EnsureBooted \/ Boot
    <2>1. UNCHANGED <<list, saved, op, made>> /\ status \in {"idle", "failed", "starting"}
      BY <1>4 DEF EnsureBooted, Boot, BootStart, BootRestore, BootSave, BootRestart, Phases, opVars
    <2>2. boot' \in {"restore", "save", "restart"} => newest' \in Listed
      BY <1>1, <1>4 DEF EnsureBooted, Boot, BootStart, BootRestore, BootSave, BootRestart, Apart
    <2>3. QED
      BY <1>2, <1>3, <2>1, <2>2 DEF Apart, Making
  <1>5. CASE \/ SendMessage \/ AgentWrites \/ AgentRestarts \/ AgentWritesRows
             \/ RunDone \/ RunFailed \/ RunKept \/ Save \/ (Commit /\ head # point)
    <2>1. UNCHANGED <<list, saved, status, boot, newest>>
          /\ op' \notin {"dump", "restoreDb", "dumpDocs"}
      BY <1>5 DEF SendMessage, AgentWrites, AgentRestarts, AgentWritesRows, RunDone,
         RunFailed, RunKept, Save, Commit, opVars, bootVars
    <2>2. QED
      BY <1>2, <1>3, <2>1 DEF Apart, Making
  <1>6. CASE Commit /\ head = point
    <2>1. UNCHANGED <<list, saved, status, boot, newest>> /\ made' = NewId /\ op' = "dump"
      BY <1>6 DEF Commit, bootVars
    <2>2. QED
      BY <1>1, <1>2, <1>3, <2>1 DEF Apart, Making
  <1>7. CASE Dump \/ (OpAborted /\ op = "dump" /\ list' = <<made>> \o list)
    <2>1. UNCHANGED <<saved, status, boot, newest>> /\ op' = "none" /\ status = "ready"
          /\ boot = "none"
      BY <1>7 DEF Dump, OpAborted, bootVars, Phases
    <2>2. QED
      BY <1>3, <2>1 DEF Apart, Making
  <1>8. CASE Discard
    <2>1. UNCHANGED <<saved, status, boot, newest>> /\ status = "ready" /\ boot = "none"
          /\ op' = "restoreDb"
      BY <1>8 DEF Discard, bootVars, Phases
    <2>2. made' = 0 \/ (made' = NewId /\ NewId \in Listed')
      <3>1. CASE tree.docs
        BY <1>1, <1>8, <3>1, CommitLogs DEF Discard
      <3>2. CASE ~ tree.docs
        BY <1>8, <3>2 DEF Discard
      <3>3. QED
        BY <3>1, <3>2
    <2>3. QED
      BY <1>1, <1>3, <2>1, <2>2 DEF Apart, Making
  <1>9. CASE RestoreDb \/ DumpDocs \/ RestartReverted
    BY <1>2, <1>3, <1>9 DEF RestoreDb, DumpDocs, RestartReverted, Apart, Making, bootVars, opVars
  <1>10. CASE RestoreCheckpoint \/ Restore
    <2>1. UNCHANGED <<saved, status, boot, newest>> /\ status = "ready" /\ boot = "none"
          /\ op' \notin {"dump", "restoreDb", "dumpDocs"}
      BY <1>10 DEF RestoreCheckpoint, Restore, Reset, RestoreTo, RestartTo, ListTo, bootVars, Phases
    <2>2. QED
      BY <1>3, <2>1 DEF Apart, Making
  <1>11. CASE DocsCommit
    <2>1. /\ NewCommit(HeadCode) /\ saved' = NewId
          /\ UNCHANGED <<list, status, op, made, boot, newest, dumps>>
      BY <1>11 DEF DocsCommit, opVars, bootVars, dbVars
    <2>2. OfDocuments(saved)'
      BY <2>1, NewOfDocuments DEF OfDocuments, Documented
    <2>3. QED
      BY <1>1, <1>2, <2>1, <2>2 DEF Apart, Making
  <1>12. CASE DocsListed
    <2>1. /\ saved # 0 /\ saved' = 0 /\ list' = <<saved>> \o list
          /\ UNCHANGED <<status, op, made, boot, newest>>
      BY <1>12 DEF DocsListed, opVars, bootVars
    <2>2. Listed' = {saved} \cup Listed
      BY <1>1, <2>1, ListFront
    <2>3. QED
      BY <2>1, <2>2 DEF Apart
  <1>13. CASE StopSession \/ (OpAborted /\ UNCHANGED list) \/ StopDone \/ Crash
    <2>1. /\ UNCHANGED list /\ saved' \in {0, saved} /\ newest' = newest
          /\ (status' = status \/ status' = "stopped")
          /\ (boot' = boot \/ boot' = "none")
          /\ (op' = "none" \/ UNCHANGED <<op, made>>)
      BY <1>13 DEF StopSession, OpAborted, StopDone, Crash, opVars, bootVars
    <2>2. QED
      BY <1>2, <1>3, <2>1 DEF Apart, Making
  <1>14. CASE ResumeSession
    <2>1. saved' = 0 /\ boot' = "start" /\ op' = op /\ op \in {"none", "agent"}
      BY <1>14 DEF ResumeSession, opVars, Phases
    <2>2. QED
      BY <2>1 DEF Apart, Making
  <1>15. CASE UNCHANGED vars
    BY <1>2, <1>3, <1>15 DEF vars, opVars, bootVars, Apart, Making
  <1>16. QED
    BY <1>4, <1>5, <1>6, <1>7, <1>8, <1>9, <1>10, <1>11, <1>12, <1>13, <1>14, <1>15
       DEF Next, SaveCheckpoint, RevertRun, DocsSave, OpAborted

\* When boots do not fail, the database kept for a checkpoint is never replaced
\* or dropped, whatever else fails (DumpsAreKept, database-branches.ts:46-63).
\* The premise is needed: the retry of a resumed session's boot breaks it
\* (sessions.ts:1876).
THEOREM SessionDumpsAreKept ==
  ASSUME "boot" \notin Faults
  PROVE  Spec => DumpsAreKept
  <1> DEFINE IInv == TypeOK /\ Phases /\ Unsaved /\ Apart
  <1>1. Init => IInv
    <2>1. Init => Unsaved /\ Apart
      BY DEF Init, Unsaved, Apart, Making
    <2>2. QED
      BY <2>1, InitType, SessionAssumption
  <1>2. IInv /\ [Next]_vars => IInv'
    <2> SUFFICES ASSUME IInv, [Next]_vars PROVE IInv'
      OBVIOUS
    <2>1. TypeOK' /\ Phases' /\ Apart'
      BY TypeStep, PhasesStep, ApartStep, SessionAssumption
    <2>2. QED
      BY <2>1, UnsavedAlways
  <1>3. IInv /\ [Next]_vars => [\A c \in DOMAIN dumps : c \in DOMAIN dumps' /\ dumps'[c] = dumps[c]]_vars
    <2> SUFFICES ASSUME IInv, Next
                 PROVE  \A c \in DOMAIN dumps : c \in DOMAIN dumps' /\ dumps'[c] = dumps[c]
      OBVIOUS
    <2>1. CASE UNCHANGED dumps
      BY <2>1
    <2>2. CASE BootSave
      BY <2>2, DumpStep, SaveType DEF Dump, DumpDocs, BootSave, Unsaved
    <2>3. CASE Dump \/ DumpDocs
      BY <2>3, DumpStep, SaveType DEF Dump, DumpDocs, BootSave
    <2>4. QED
      BY <2>1, <2>2, <2>3, DumpStep
  <1>4. QED
    BY <1>1, <1>2, <1>3, PTL DEF Spec, DumpsAreKept

----------------------------------------------------------------------------
\* HEAD's history and the list

\* What a restore goes back to is listed, what a dump is written for is in HEAD's
\* history, and so is what a document save has still to list
Attached ==
  /\ op = "reset" => point \in Listed
  /\ op = "listTo" => point \in Logged
  /\ Making => made \in Logged
  /\ boot \in {"restore", "save"} => newest \in Logged
  /\ status \in {"idle", "starting", "failed"} => Listed \subseteq Logged
  /\ saved # 0 => saved \in Logged

LEMMA AttachedStep ==
  ASSUME SessionAssumption, "overtaken" \notin Faults, TypeOK, Phases, Attached, [Next]_vars
  PROVE  Attached'
  <1>1. /\ HeadCode \in SUBSET Migration /\ tree.code \in SUBSET Migration /\ HistoryOK
        /\ list[1] \in Listed /\ (saved # 0 => saved \in CommitId)
    BY CommitFacts
  <1>2. UNCHANGED <<commits, head>> => Logged' = Logged
    BY DEF Logged, Log
  <1>3. UNCHANGED list => Listed' = Listed
    BY DEF Listed
  <1> USE DEF Attached, Making
  <1>4. CASE EnsureBooted \/ Boot
    <2>1. UNCHANGED <<commits, head, list, saved, op, made, point>>
          /\ status \in {"idle", "failed", "starting"}
      BY <1>4 DEF EnsureBooted, Boot, BootStart, BootRestore, BootSave, BootRestart, Phases,
         opVars, git
    <2>2. boot' \in {"restore", "save"} => newest' \in Logged
      BY <1>1, <1>4, <2>1
         DEF EnsureBooted, Boot, BootStart, BootRestore, BootSave, BootRestart
    <2>3. QED
      BY <1>2, <1>3, <2>1, <2>2
  <1>5. CASE \/ SendMessage \/ AgentWrites \/ AgentRestarts \/ AgentWritesRows
             \/ RunDone \/ RunFailed \/ RunKept
    BY <1>2, <1>3, <1>5
       DEF SendMessage, AgentWrites, AgentRestarts, AgentWritesRows, RunDone, RunFailed,
           RunKept, opVars, bootVars, git
  <1>6. CASE Save \/ (Commit /\ head # point)
    BY <1>2, <1>3, <1>6 DEF Save, Commit, bootVars, git
  <1>7. CASE Commit /\ head = point
    <2>1. NewCommit(tree.code) /\ made' = NewId /\ op' = "dump" /\ status = "ready"
          /\ UNCHANGED <<list, status, saved, boot, newest>>
      BY <1>7 DEF Commit, Phases, bootVars
    <2>2. Logged' = {NewId} \cup Logged
      BY <1>1, <2>1, CommitLogs
    <2>3. QED
      BY <1>3, <2>1, <2>2
  <1>16. CASE Dump
    <2>1. UNCHANGED <<commits, head, status, saved, boot, newest>> /\ op' = "none"
          /\ status = "ready" /\ boot = "none"
      BY <1>16 DEF Dump, Phases, bootVars, git
    <2>2. QED
      BY <1>2, <2>1
  <1>8. CASE Discard
    <2>1. UNCHANGED <<status, saved, boot, newest>> /\ op' = "restoreDb" /\ status = "ready"
          /\ boot = "none"
      BY <1>8 DEF Discard, Phases, bootVars
    <2>2. CASE tree.docs
      BY <1>1, <1>8, <2>1, <2>2, CommitLogs DEF Discard
    <2>3. CASE ~ tree.docs
      BY <1>2, <1>8, <2>1, <2>3 DEF Discard, git
    <2>4. QED
      BY <2>2, <2>3
  <1>9. CASE RestoreDb \/ DumpDocs \/ RestartReverted
    BY <1>2, <1>3, <1>9 DEF RestoreDb, DumpDocs, RestartReverted, bootVars, git
  <1>10. CASE RestoreCheckpoint \/ RestoreTo
    BY <1>2, <1>3, <1>10 DEF RestoreCheckpoint, RestoreTo, bootVars, git
  <1>17. CASE Reset
    <2>1. saved = 0 /\ saved' = 0 /\ op' = "restoreTo" /\ status = "ready" /\ boot = "none"
          /\ UNCHANGED <<status, boot>>
      BY <1>17 DEF Reset, Phases, bootVars
    <2>2. QED
      BY <2>1
  <1>18. CASE RestartTo
    <2>1. /\ UNCHANGED <<commits, head, list, status, saved, boot, newest>> /\ op' = "listTo"
          /\ point' = head
      BY <1>18 DEF RestartTo, bootVars, git
    <2>2. head \in Logged
      BY CommitFacts
    <2>3. QED
      BY <1>2, <1>3, <2>1, <2>2
  <1>19. CASE ListTo
    <2>1. /\ UNCHANGED <<commits, head, status, saved, boot, newest>> /\ op' = "none"
          /\ status = "ready"
      BY <1>19 DEF ListTo, Phases, bootVars, git
    <2>2. QED
      BY <1>2, <2>1
  <1>11. CASE DocsCommit
    <2>1. /\ NewCommit(HeadCode) /\ saved' = NewId
          /\ UNCHANGED <<list, op, point, made, status, boot, newest>>
      BY <1>11 DEF DocsCommit, opVars, bootVars
    <2>2. Logged' = {NewId} \cup Logged
      BY <1>1, <2>1, CommitLogs
    <2>3. QED
      BY <1>3, <2>1, <2>2
  <1>20. CASE DocsListed
    <2>1. /\ saved # 0 /\ saved' = 0 /\ list' = <<saved>> \o list
          /\ UNCHANGED <<commits, head, op, point, made, status, boot, newest>>
      BY <1>20 DEF DocsListed, opVars, bootVars, git
    <2>2. Listed' = {saved} \cup Listed
      BY <1>1, <2>1, ListFront
    <2>3. QED
      BY <1>2, <2>1, <2>2
  <1>12. CASE StopSession \/ StopDone \/ Crash \/ (OpAborted /\ UNCHANGED list)
    BY <1>2, <1>3, <1>12 DEF StopSession, OpAborted, StopDone, Crash, opVars, bootVars, git
  <1>21. CASE OpAborted /\ op = "dump"
    <2>1. UNCHANGED <<commits, head, status, saved, boot, newest>> /\ op' = "none"
          /\ status = "ready" /\ boot = "none"
      BY <1>21 DEF OpAborted, Phases, bootVars, git
    <2>2. QED
      BY <1>2, <2>1
  <1>13. CASE ResumeSession
    <2>1. Listed' = Logged' /\ saved' = 0 /\ boot' = "start" /\ op' \in {"none", "agent"}
      BY <1>13 DEF ResumeSession, Phases, opVars, Listed, Logged, Log
    <2>2. QED
      BY <2>1
  <1>14. CASE UNCHANGED vars
    BY <1>2, <1>3, <1>14 DEF vars, opVars, bootVars, git
  <1>15. QED
    BY <1>4, <1>5, <1>6, <1>7, <1>8, <1>9, <1>10, <1>11, <1>12, <1>13, <1>14, <1>16, <1>17,
       <1>18, <1>19, <1>20, <1>21
       DEF Next, SaveCheckpoint, RevertRun, Restore, DocsSave, OpAborted

\* The checkpoints the list has, or is about to be given
Pending == IF saved = 0 THEN {} ELSE {saved}
Known ==
  (IF op = "listTo" THEN Log(point) ELSE Listed)
    \cup (IF op = "dump" THEN {made} ELSE {}) \cup Pending

\* Outside a restore and before a stop nothing else is on the list, and what it
\* lacks are documents, saved while a restore read the history
InSync ==
  ~stopping /\ status # "stopped" /\ op \notin {"restoreTo", "restartTo"} =>
    /\ Known \subseteq Logged
    /\ \A c \in Logged \ Known : Documented(commits, dumps, c)
    /\ status # "ready" => Logged \subseteq Known

\* A checkpoint that is not lost by this step, nor were others before it, may be
\* missing only as documents are
LEMMA InSyncKept ==
  ASSUME SessionAssumption, TypeOK, Phases, Apart, InSync, [Next]_vars,
         ~stopping, status # "stopped", op \notin {"restoreTo", "restartTo"},
         Logged' = Logged \/ (Logged' = {NewId} \cup Logged /\ NewId \in Known'),
         Known' = Known \/ Known' = {NewId} \cup Known,
         Known' = {NewId} \cup Known => NewId \in Logged',
         status' # "ready" => status # "ready"
  PROVE  InSync'
  <1>1. Known \subseteq Logged /\ \A c \in Logged \ Known : Documented(commits, dumps, c)
        /\ (status # "ready" => Logged \subseteq Known)
    BY DEF InSync
  <1>2. ASSUME NEW c \in Logged' \ Known' PROVE Documented(commits', dumps', c)
    <2>1. c \in Logged \ Known
      BY <1>2
    <2>2. c \in CommitId
      BY <2>1, LogType, SeqMembers DEF TypeOK, HistoryOK, Logged, Log
    <2>3. BootSave => c # newest
      BY <1>1, <2>1 DEF BootSave, Phases
    <2>4. Dump \/ DumpDocs => c # made
      BY <2>1 DEF Dump, DumpDocs, Phases, Apart, Known
    <2>5. QED
      BY <1>1, <2>1, <2>2, <2>3, <2>4, DocumentedStep
  <1>3. QED
    BY <1>1, <1>2 DEF InSync

LEMMA InSyncStep ==
  ASSUME SessionAssumption, TypeOK, Phases, Apart, Attached, InSync, [Next]_vars
  PROVE  InSync'
  <1>1. /\ HeadCode \in SUBSET Migration /\ tree.code \in SUBSET Migration /\ HistoryOK
        /\ (saved # 0 => saved \in CommitId) /\ (made # 0 => made \in CommitId)
        /\ point \in CommitId /\ NewId # 0
    BY CommitFacts
  <1>2. UNCHANGED <<commits, head>> => Logged' = Logged
    BY DEF Logged, Log
  <1>3. UNCHANGED list => Listed' = Listed
    BY DEF Listed
  <1>4. UNCHANGED <<commits, point>> => Log(point)' = Log(point)
    BY DEF Log
  <1>5. CASE \/ EnsureBooted \/ Boot
             \/ SendMessage \/ AgentWrites \/ AgentRestarts \/ AgentWritesRows
             \/ RunDone \/ RunFailed \/ RunKept \/ Save \/ (Commit /\ head # point)
             \/ RestoreDb \/ DumpDocs \/ RestartReverted \/ RestoreCheckpoint
             \/ (Discard /\ ~tree.docs)
    <2>1. /\ UNCHANGED <<commits, head, list, saved, stopping>>
          /\ op \notin {"restoreTo", "restartTo", "listTo", "dump"}
          /\ op' \notin {"restoreTo", "restartTo", "listTo", "dump"}
          /\ (status' # "ready" => status # "ready")
          /\ (status = "stopped" => status' = "stopped")
      <3>1. CASE EnsureBooted \/ Boot
        BY <3>1 DEF EnsureBooted, Boot, BootStart, BootRestore, BootSave, BootRestart, Phases,
           opVars, git
      <3>2. CASE \/ SendMessage \/ AgentWrites \/ AgentRestarts \/ AgentWritesRows
                 \/ RunDone \/ RunFailed \/ RunKept \/ Save \/ (Commit /\ head # point)
        BY <3>2 DEF SendMessage, AgentWrites, AgentRestarts, AgentWritesRows, RunDone, RunFailed,
           RunKept, Save, Commit, Phases, opVars, git
      <3>3. CASE \/ RestoreDb \/ DumpDocs \/ RestartReverted \/ RestoreCheckpoint
                 \/ (Discard /\ ~tree.docs)
        BY <3>3 DEF RestoreDb, DumpDocs, RestartReverted, RestoreCheckpoint, Discard, Phases, git
      <3>4. QED
        BY <1>5, <3>1, <3>2, <3>3
    <2>2. Logged' = Logged /\ Known' = Known
      BY <1>2, <1>3, <2>1 DEF Known, Pending
    <2>3. CASE stopping \/ status = "stopped"
      BY <2>1, <2>3 DEF InSync
    <2>4. CASE ~stopping /\ status # "stopped"
      <3>1. NewId \in Known => NewId \in Logged'
        BY <2>1, <2>2, <2>4 DEF InSync
      <3>2. QED
        BY <2>1, <2>2, <2>4, <3>1, InSyncKept
    <2>5. QED
      BY <2>3, <2>4
  <1>7. CASE Commit /\ head = point
    <2>1. NewCommit(tree.code) /\ made' = NewId /\ op' = "dump" /\ op = "commit"
          /\ status = "ready" /\ UNCHANGED <<list, stopping, status, saved>>
      BY <1>7 DEF Commit, Phases
    <2>2. Logged' = {NewId} \cup Logged
      BY <1>1, <2>1, CommitLogs
    <2>3. Known' = {NewId} \cup Known
      BY <1>3, <2>1 DEF Known, Pending
    <2>4. QED
      BY <2>1, <2>2, <2>3, InSyncKept DEF InSync
  <1>8. CASE Dump
    <2>1. op = "dump" /\ op' = "none" /\ list' = <<made>> \o list /\ ~stopping
          /\ status = "ready" /\ made # 0 /\ UNCHANGED <<commits, head, status, saved>>
      BY <1>8 DEF Dump, git, Phases
    <2>2. Listed' = {made} \cup Listed
      BY <1>1, <2>1, ListFront
    <2>3. Known' = Known /\ Logged' = Logged
      BY <1>2, <2>1, <2>2 DEF Known, Pending
    <2>4. NewId \in Known => NewId \in Logged'
      BY <2>1, <2>3 DEF InSync
    <2>5. QED
      BY <2>1, <2>3, <2>4, InSyncKept
  <1>9. CASE Discard /\ tree.docs
    <2>1. op = "discard" /\ op' = "restoreDb" /\ UNCHANGED <<status, stopping, saved>>
          /\ NewCommit(HeadCode) /\ list' = <<NewId>> \o list /\ status = "ready"
      BY <1>9 DEF Discard, Phases
    <2>2. Logged' = {NewId} \cup Logged /\ Listed' = {NewId} \cup Listed
      BY <1>1, <2>1, CommitLogs
    <2>3. Known' = {NewId} \cup Known
      BY <2>1, <2>2 DEF Known, Pending
    <2>4. QED
      BY <2>1, <2>2, <2>3, InSyncKept DEF InSync
  <1>10. CASE Reset \/ RestoreTo
    BY <1>10 DEF Reset, RestoreTo, InSync
  <1>11. CASE RestartTo
    <2>1. /\ op' = "listTo" /\ point' = head /\ UNCHANGED <<commits, head, saved>>
      BY <1>11 DEF RestartTo, git
    <2>2. Known' = Logged' \cup Pending
      BY <2>1 DEF Known, Pending, Logged, Log
    <2>3. Pending \subseteq Logged /\ Logged' = Logged
      BY <1>2, <2>1 DEF Attached, Pending
    <2>4. QED
      BY <2>2, <2>3 DEF InSync
  <1>12. CASE ListTo
    <2>1. op = "listTo" /\ op' = "none" /\ list' = commits[point].log /\ status = "ready"
          /\ UNCHANGED <<commits, head, saved, stopping, status>>
      BY <1>12 DEF ListTo, git, Phases
    <2>2. Listed' = Log(point)
      BY <2>1 DEF Listed, Log
    <2>3. Known' = Known /\ Logged' = Logged
      BY <1>2, <2>1, <2>2 DEF Known, Pending
    <2>4. CASE ~stopping
      <3>1. NewId \in Known => NewId \in Logged'
        BY <2>1, <2>3, <2>4 DEF InSync
      <3>2. QED
        BY <2>1, <2>3, <2>4, <3>1, InSyncKept
    <2>5. QED
      BY <2>1, <2>4 DEF InSync
  <1>13. CASE DocsCommit
    <2>1. /\ NewCommit(HeadCode) /\ saved = 0 /\ saved' = NewId /\ status # "stopped"
          /\ UNCHANGED <<list, op, point, made, status, stopping>>
      BY <1>13 DEF DocsCommit, opVars
    <2>2. Logged' = {NewId} \cup Logged
      BY <1>1, <2>1, CommitLogs
    <2>3. Log(point)' = Log(point)
      <3>1. commits'[point] = commits[point]
        BY <1>1, <2>1 DEF NewCommit, CommitId, HistoryOK
      <3>2. QED
        BY <2>1, <3>1 DEF Log
    <2>4. Known' = {NewId} \cup Known
      BY <1>1, <1>3, <2>1, <2>3 DEF Known, Pending
    <2>5. CASE ~stopping /\ op \notin {"restoreTo", "restartTo"}
      BY <2>1, <2>2, <2>4, <2>5, InSyncKept
    <2>6. QED
      BY <2>1, <2>5 DEF InSync
  <1>14. CASE DocsListed
    <2>1. /\ saved # 0 /\ saved' = 0 /\ list' = <<saved>> \o list
          /\ UNCHANGED <<commits, head, dumps, op, point, made, status, stopping>>
      BY <1>14 DEF DocsListed, opVars, git, dbVars
    <2>2. Listed' = {saved} \cup Listed
      BY <1>1, <2>1, ListFront
    <2>3. Logged' = Logged /\ Log(point)' = Log(point)
      BY <1>2, <1>4, <2>1
    <2>4. Known = {saved} \cup Known' \/ Known' = Known
      BY <2>1, <2>2, <2>3 DEF Known, Pending
    <2>5. status # "ready" => Known' = Known
      BY <2>1, <2>2 DEF Known, Pending, Phases
    <2>6. Documented(commits, dumps, saved)
      BY <2>1 DEF Apart, OfDocuments, Documented
    <2>7. \A c : c \in Known => c = saved \/ c \in Known'
      BY <2>4
    <2>8. ASSUME ~stopping, status # "stopped", op \notin {"restoreTo", "restartTo"}
          PROVE  /\ Known' \subseteq Logged
                 /\ \A c \in Logged \ Known' : Documented(commits, dumps, c)
                 /\ status # "ready" => Logged \subseteq Known'
      BY <2>4, <2>5, <2>6, <2>7, <2>8 DEF InSync
    <2>9. QED
      BY <2>1, <2>3, <2>8 DEF InSync
  <1>15. CASE StopSession \/ OpAborted \/ StopDone \/ Crash
    BY <1>15 DEF StopSession, OpAborted, StopDone, Crash, InSync
  <1>16. CASE ResumeSession
    <2>1. list' = commits'[head'].log /\ op' = op /\ op \in {"none", "agent"} /\ saved' = 0
      BY <1>16 DEF ResumeSession, opVars, Phases
    <2>2. Known' = Logged'
      BY <2>1 DEF Known, Pending, Listed, Logged, Log
    <2>3. QED
      BY <2>2 DEF InSync
  <1>17. CASE UNCHANGED vars
    <2>1. UNCHANGED <<commits, head, list, saved, op, point, made, status, stopping, dumps>>
      BY <1>17 DEF vars, opVars, git, dbVars
    <2>2. Known' = Known /\ Logged' = Logged
      BY <1>2, <1>3, <1>4, <2>1 DEF Known, Pending
    <2>3. QED
      BY <2>1, <2>2 DEF InSync
  <1>18. QED
    BY <1>5, <1>7, <1>8, <1>9, <1>10, <1>11, <1>12, <1>13, <1>14, <1>15, <1>16, <1>17
       DEF Next, SaveCheckpoint, RevertRun, Restore, DocsSave

LEMMA InitLists ==
  ASSUME Init
  PROVE  Logged = {1} /\ Listed = {1} /\ Apart /\ Attached /\ InSync
  <1>1. /\ head = 1 /\ list = <<1>> /\ op = "none" /\ saved = 0 /\ boot \in {"none", "start"}
        /\ \E code \in SUBSET Migration : commits = <<[code |-> code, log |-> <<1>>]>>
    BY DEF Init
  <1>2. Logged = {1} /\ Listed = {1}
    BY <1>1 DEF Logged, Log, Listed
  <1>3. QED
    BY <1>1, <1>2 DEF Apart, Attached, InSync, Making, Known, Pending

\* Whatever else fails and whenever documents are saved, a session in which
\* nothing is in progress lists checkpoints of its history only, and lacks at
\* most documents that were saved while a restore read the history
\* (ListMatchesGit; sessions.ts:3086, :3177, :3426, :3563).  The premise is that
\* no restore takes a document checkpoint out of the history between its commit
\* and its entry on the list, where it would stay.
THEOREM SessionListMatchesGit ==
  ASSUME "overtaken" \notin Faults
  PROVE  Spec => []ListMatchesGit
  <1> DEFINE IInv == TypeOK /\ Phases /\ Apart /\ Attached /\ InSync
  <1>1. Init => IInv
    BY InitType, InitLists, SessionAssumption
  <1>2. IInv /\ [Next]_vars => IInv'
    BY TypeStep, PhasesStep, ApartStep, AttachedStep, InSyncStep, SessionAssumption
  <1>3. IInv => ListMatchesGit
    <2> SUFFICES ASSUME IInv, Settled
                 PROVE  Listed \subseteq Log(head) /\ \A c \in Log(head) \ Listed : OfDocuments(c)
      BY DEF ListMatchesGit
    <2>1. op = "none" /\ ~stopping /\ saved = 0 /\ status = "ready"
      BY DEF Settled, Phases
    <2>2. Known = Listed
      BY <2>1 DEF Known, Pending
    <2>3. QED
      BY <2>1, <2>2 DEF InSync, Logged, OfDocuments, Documented
  <1>4. QED
    BY <1>1, <1>2, <1>3, PTL DEF Spec

----------------------------------------------------------------------------
\* The promise about the history

LEMMA PromisedBelow == Promise!Below(head) = Logged
  BY DEF Promise!Below, Logged, Log

\* A new checkpoint is one the promise allows, shown now, later or with the rest
LEMMA PromisedMake ==
  ASSUME NEW code \in SUBSET Migration, NewCommit(code), UNCHANGED dumps,
         Listed' \in {Listed, {NewId} \cup Listed, Logged'}
  PROVE  Promise!Next
  <1>1. head' = Len(commits) + 1 /\ NewId = head'
        /\ commits' = Append(commits, [code |-> code, log |-> <<head'>> \o commits[head].log])
    BY DEF NewCommit, NewId
  <1>2. Promise!Below(head)' = Logged'
    BY DEF Promise!Below, Logged, Log
  <1>3. Promise!Make(code)
    BY <1>1, <1>2 DEF Promise!Make
  <1>4. QED
    BY <1>3 DEF Promise!Next

\* A dump that is written is kept for a checkpoint of the history that has none
LEMMA PromisedKeep ==
  ASSUME TypeOK, NEW sha \in Logged, sha \notin DOMAIN dumps, SaveDatabases(sha),
         UNCHANGED <<commits, head>>, Listed' \in {Listed, {sha} \cup Listed}
  PROVE  Promise!Next \/ UNCHANGED dumps
  <1>1. CASE UNCHANGED dumps
    BY <1>1
  <1>2. CASE dumps' = [c \in DOMAIN dumps \cup {sha} |-> IF c = sha THEN db ELSE dumps[c]]
    <2>1. sha \in Promise!Below(head) \ DOMAIN dumps /\ db \in Database
      BY PromisedBelow DEF TypeOK, DataOK
    <2>2. Promise!Keep(sha, db)
      BY <1>2, <2>1 DEF Promise!Keep
    <2>3. QED
      BY <2>1, <2>2 DEF Promise!Next
  <1>3. QED
    BY <1>1, <1>2 DEF SaveDatabases

LEMMA PromisedShow ==
  ASSUME UNCHANGED <<commits, head, dumps>>,
         \E c \in Logged : Listed' = Log(c) \/ Listed' = {c} \cup Listed
  PROVE  Promise!Next
  <1>1. \A c : Promise!Below(c) = Log(c)
    BY DEF Promise!Below, Log
  <1>2. QED
    BY <1>1, PromisedBelow DEF Promise!Show, Promise!Next

LEMMA PromisedStep ==
  ASSUME SessionAssumption, TypeOK, Phases, Unsaved, Attached, [Next]_vars
  PROVE  [Promise!Next]_(Promise!historyVars)
  <1>1. HeadCode \in SUBSET Migration /\ tree.code \in SUBSET Migration
        /\ HistoryOK /\ head \in Logged /\ Logged = Log(head)
    BY CommitFacts
  <1>2. UNCHANGED list => Listed' = Listed
    BY DEF Listed
  <1>3. UNCHANGED <<commits, head, list, dumps>> => UNCHANGED Promise!historyVars
    BY <1>2 DEF Promise!historyVars
  <1>4. ASSUME NEW x \in CommitId, list' = <<x>> \o list PROVE Listed' = {x} \cup Listed
    BY <1>1, <1>4, ListFront
  <1>5. CASE BootSave
    <2>1. UNCHANGED <<commits, head, list>> /\ SaveDatabases(newest)
          /\ newest \notin DOMAIN dumps /\ boot = "save"
      BY <1>5 DEF BootSave, Unsaved, git
    <2>2. newest \in Logged
      BY <2>1 DEF Attached
    <2>3. QED
      BY <1>2, <1>3, <2>1, <2>2, PromisedKeep
  <1>6. CASE Commit /\ head = point
    BY <1>1, <1>2, <1>6, PromisedMake DEF Commit, dbVars
  <1>7. CASE Dump \/ DumpDocs \/ (OpAborted /\ op = "dump" /\ list' = <<made>> \o list)
    <2>1. /\ UNCHANGED <<commits, head>> /\ made # 0 /\ op \in {"dump", "dumpDocs"}
          /\ list' = list \/ list' = <<made>> \o list
      BY <1>7 DEF Dump, DumpDocs, OpAborted, Phases, git
    <2>2. made \in Logged /\ made \notin DOMAIN dumps /\ made \in CommitId
      BY <1>1, <2>1 DEF Attached, Making, Unsaved, TypeOK, ControlOK, HistoryOK, CommitId
    <2>3. Listed' \in {Listed, {made} \cup Listed}
      BY <1>2, <1>4, <2>1, <2>2
    <2>4. SaveDatabases(made) \/ UNCHANGED dumps
      BY <1>7 DEF Dump, DumpDocs, OpAborted, dbVars
    <2>5. CASE UNCHANGED dumps
      BY <2>1, <2>2, <2>3, <2>5, PromisedShow DEF Promise!historyVars
    <2>6. QED
      BY <2>1, <2>2, <2>3, <2>4, <2>5, PromisedKeep
  <1>8. CASE Discard
    <2>1. CASE UNCHANGED <<commits, head, list>>
      BY <1>3, <1>8, <2>1 DEF Discard, dbVars
    <2>2. CASE NewCommit(HeadCode) /\ list' = <<NewId>> \o list
      <3>1. Listed' = {NewId} \cup Listed
        BY <1>1, <2>2, CommitLogs
      <3>2. QED
        BY <1>1, <1>8, <2>2, <3>1, PromisedMake DEF Discard, dbVars
    <2>3. QED
      BY <1>8, <2>1, <2>2 DEF Discard, git
  <1>14. CASE DocsCommit
    BY <1>1, <1>2, <1>14, PromisedMake DEF DocsCommit, dbVars
  <1>15. CASE DocsListed
    <2>1. saved \in Logged /\ saved \in CommitId /\ list' = <<saved>> \o list
          /\ UNCHANGED <<commits, head, dumps>>
      BY <1>1, <1>15 DEF DocsListed, Attached, TypeOK, ControlOK, HistoryOK, CommitId, git, dbVars
    <2>2. Listed' = {saved} \cup Listed
      BY <1>4, <2>1
    <2>3. QED
      BY <2>1, <2>2, PromisedShow
  <1>9. CASE Reset
    <2>1. point \in Listed /\ head' = point /\ UNCHANGED <<commits, list, dumps>>
      BY <1>9 DEF Reset, Attached, dbVars
    <2>2. Promise!GoBack(point)
      BY <1>2, <2>1 DEF Promise!GoBack
    <2>3. QED
      BY <2>1, <2>2 DEF Promise!Next
  <1>10. CASE ListTo
    <2>1. UNCHANGED <<commits, head, dumps>> /\ list' = commits[point].log /\ point \in Logged
      BY <1>10 DEF ListTo, Attached, git, dbVars
    <2>2. Listed' = Log(point)
      BY <2>1 DEF Listed, Log
    <2>3. QED
      BY <2>1, <2>2, PromisedShow
  <1>11. CASE ResumeSession
    <2>1. Listed' = Logged' /\ UNCHANGED dumps
      BY <1>11 DEF ResumeSession, Listed, Logged, Log, dbVars
    <2>2. CASE tree.docs
      BY <1>1, <1>11, <2>1, <2>2, PromisedMake DEF ResumeSession
    <2>3. CASE ~ tree.docs
      <3>1. UNCHANGED <<commits, head>>
        BY <1>11, <2>3 DEF ResumeSession, git
      <3>2. Logged' = Logged
        BY <3>1 DEF Logged, Log
      <3>3. QED
        BY <1>1, <2>1, <3>1, <3>2, PromisedShow
    <2>4. QED
      BY <2>2, <2>3
  <1>12. CASE \/ EnsureBooted \/ BootStart \/ BootRestore \/ BootRestart
              \/ SendMessage \/ AgentWrites \/ AgentRestarts \/ AgentWritesRows
              \/ RunDone \/ RunFailed \/ RunKept \/ Save \/ (Commit /\ head # point)
              \/ RestoreDb \/ RestartReverted \/ RestoreCheckpoint \/ RestoreTo \/ RestartTo
              \/ StopSession \/ (OpAborted /\ UNCHANGED list) \/ StopDone \/ Crash
              \/ UNCHANGED vars
    <2>1. UNCHANGED <<commits, head, list, dumps>>
      BY <1>12 DEF vars, git, dbVars, EnsureBooted, BootStart, BootRestore, BootRestart,
         SendMessage, AgentWrites, AgentRestarts, AgentWritesRows, RunDone, RunFailed,
         RunKept, Save, Commit, RestoreDb, RestartReverted, RestoreCheckpoint, RestoreTo,
         RestartTo, StopSession, OpAborted, StopDone, Crash
    <2>2. QED
      BY <1>3, <2>1
  <1>13. QED
    BY <1>5, <1>6, <1>7, <1>8, <1>9, <1>10, <1>11, <1>12, <1>14, <1>15
       DEF Next, Boot, SaveCheckpoint, RevertRun, Restore, DocsSave, OpAborted

\* When boots do not fail and no restore takes a document checkpoint out of the
\* history before it is on the list, a session keeps the promise of
\* CheckpointHistory (KeepsHistory): checkpoints are only ever made on top of
\* HEAD and stay as they were made, HEAD goes back only to a listed one, what
\* comes on the list is of HEAD's history, and a dump is kept once, for a
\* checkpoint of that history (saveCheckpoint, restoreCheckpoint,
\* database-branches.ts:46-63).
THEOREM SessionKeepsHistory ==
  ASSUME "boot" \notin Faults, "overtaken" \notin Faults
  PROVE  Spec => KeepsHistory
  <1> DEFINE IInv == TypeOK /\ Phases /\ Unsaved /\ Apart /\ Attached
  <1>1. Init => IInv /\ Promise!Init
    <2> SUFFICES ASSUME Init PROVE IInv /\ Promise!Init
      OBVIOUS
    <2>1. Unsaved
      BY DEF Init, Unsaved, Making
    <2>2. Promise!Init
      BY InitLists DEF Init, Promise!Init
    <2>3. QED
      BY <2>1, <2>2, InitType, InitLists, SessionAssumption
  <1>2. IInv /\ [Next]_vars => IInv'
    BY TypeStep, PhasesStep, UnsavedAlways, ApartStep, AttachedStep, SessionAssumption
  <1>3. IInv /\ [Next]_vars => [Promise!Next]_(Promise!historyVars)
    BY PromisedStep, SessionAssumption
  <1>4. QED
    BY <1>1, <1>2, <1>3, PTL DEF Spec, KeepsHistory, Promise!Spec

----------------------------------------------------------------------------
\* The database and the files

\* Every load of a dump works, every change a run keeps is one the next run
\* verifies, only a booted session's files are written to, and no restore takes a
\* document checkpoint out of the history before it is listed
Repairable == Faults \cap {"boot", "load", "terminal", "undone", "overtaken"} = {}

\* Every checkpoint below HEAD, or below another one, has a dump
Whole == Logged \subseteq DOMAIN dumps
Below(c) == Log(c) \ {c} \subseteq DOMAIN dumps
BelowMade == Below(made)
BelowNewest == Below(newest)

\* The history is a chain of older checkpoints with histories of their own
Ancestors ==
  \A c \in CommitId :
    /\ c \in Log(c)
    /\ \A x \in Log(c) : x \in 1 .. c /\ Log(x) \subseteq Log(c)
    /\ \A x, y \in Log(c) : x <= y => x \in Log(y)

\* In the history of HEAD or of a listed checkpoint
Reached(c) == c \in Logged \/ \E x \in Listed : c \in Log(x)

\* A dump taken over a whole history has the migrations of its checkpoint
Fits ==
  \A c \in CommitId :
    Reached(c) /\ Log(c) \subseteq DOMAIN dumps => dumps[c].migs = commits[c].code

\* Until it is dumped, what an operation made is newer than every dump
MadeIsNew ==
  Making => made \in Logged /\ \A c \in DOMAIN dumps : c < made

\* A boot loads the newest dump of HEAD's history, for a checkpoint no older
BootOrder ==
  /\ status \in {"idle", "starting"} /\ saved # 0 => list[1] < saved
  /\ boot = "start" => from <= list[1]
  /\ boot \in {"restore", "save", "restart"} => from <= newest /\ newest <= list[1]
  /\ boot \in {"start", "restore", "save"}
       => \A c \in Logged \cap DOMAIN dumps : c <= from

\* A document checkpoint may stand before HEAD in the list, but not where every
\* checkpoint of the history has a dump
Foremost ==
  /\ /\ ~stopping /\ status # "stopped" /\ op \notin {"restoreTo", "restartTo", "listTo"}
     /\ Whole
     => list[1] = head
  /\ ~stopping /\ op = "listTo" /\ Whole => point = head
  /\ status \in {"idle", "starting"} => tree.code = HeadCode
  /\ op \in {"restoreDb", "dumpDocs"} /\ made # 0 /\ made = head /\ BelowMade
       => list[1] = head

\* What is known of the database at each step of a run, of a revert or a
\* restore, and of a boot
HeldByRun ==
  ~stopping =>
    /\ status = "ready" /\ op = "none" /\ Clean /\ Whole => db = dumps[head]
    /\ status = "ready" /\ op = "agent" /\ ~touched /\ Clean /\ Whole => db.migs = HeadCode
    /\ op \in {"save", "commit"} /\ Whole => db.migs = tree.code
    /\ op = "dump" /\ BelowMade => db.migs = commits[made].code

HeldByRevert ==
  ~stopping =>
    /\ op = "discard" /\ Whole => point = head
    /\ op \in {"restoreDb", "dumpDocs", "restart", "restoreTo", "restartTo"}
         => tree.code = HeadCode
    /\ op = "restoreDb" /\ made = 0 /\ Whole => point = head
    /\ op = "restoreDb" /\ made # 0 /\ BelowMade
         => point \in DOMAIN dumps /\ dumps[point].migs = commits[made].code
    /\ op = "dumpDocs" /\ BelowMade => db.migs = commits[made].code
    /\ op = "restoreTo" /\ head \in DOMAIN dumps => point = head
    /\ op \in {"restart", "restartTo", "listTo"} /\ Whole => db = dumps[head]

HeldByBoot ==
  ~stopping =>
    /\ boot \in {"start", "restore"} /\ from # 0
         => from \in Logged /\ commits[from].code = HeadCode
    /\ status \in {"idle", "starting"}
         => commits[list[1]].code = HeadCode /\ (saved # 0 => commits[saved].code = HeadCode)
    /\ boot \in {"restore", "save"} => commits[newest].code = HeadCode
    /\ boot = "restore" => from # 0 /\ db.migs = HeadCode
    /\ boot = "save" /\ BelowNewest => db.migs = HeadCode
    /\ boot = "restart" /\ Whole => db = dumps[head]

HistInv == Ancestors /\ Fits
HeldInv == MadeIsNew /\ BootOrder /\ Foremost /\ HeldByRun /\ HeldByRevert /\ HeldByBoot
FitInv == TypeOK /\ Phases /\ Unsaved /\ Apart /\ Attached /\ HistInv /\ HeldInv

----------------------------------------------------------------------------
\* Histories

LEMMA LogMembers == \A c : Log(c) = Members(commits[c].log)
  BY DEF Log, Members

\* Steps that make no checkpoint and leave HEAD, the list and the dumps alone
LEMMA SameLogs ==
  ASSUME UNCHANGED <<commits, head>>
  PROVE  /\ \A c : Log(c)' = Log(c)
         /\ Logged' = Logged /\ HeadCode' = HeadCode /\ CommitId' = CommitId
  BY DEF Log, Logged, HeadCode, CommitId

LEMMA FrameHist ==
  ASSUME HistInv, UNCHANGED <<commits, head, list, dumps>>
  PROVE  /\ HistInv' /\ Whole' = Whole /\ Listed' = Listed /\ Logged' = Logged
         /\ HeadCode' = HeadCode
         /\ made' = made => BelowMade' = BelowMade
         /\ newest' = newest => BelowNewest' = BelowNewest
  <1>1. /\ \A c : Log(c)' = Log(c)
        /\ Logged' = Logged /\ HeadCode' = HeadCode /\ CommitId' = CommitId
    BY SameLogs
  <1>2. Listed' = Listed
    BY DEF Listed
  <1>3. Whole' = Whole
    BY <1>1 DEF Whole
  <1>6. /\ made' = made => BelowMade' = BelowMade
        /\ newest' = newest => BelowNewest' = BelowNewest
    BY DEF BelowMade, BelowNewest, Below, Log
  <1>4. Ancestors'
    BY <1>1 DEF HistInv, Ancestors
  <1>5. Fits'
    BY <1>1, <1>2 DEF HistInv, Fits, Reached
  <1>7. QED
    BY <1>1, <1>2, <1>3, <1>4, <1>5, <1>6 DEF HistInv

\* A new checkpoint has no dump and is on top of everything that HEAD had
LEMMA NewCommitLogs ==
  ASSUME TypeOK, HistInv, NEW code \in SUBSET Migration, NewCommit(code)
  PROVE  /\ \A c \in CommitId : Log(c)' = Log(c) /\ commits'[c] = commits[c]
         /\ head' = NewId /\ HeadCode' = code /\ commits'[NewId].code = code
         /\ Logged' = {NewId} \cup Logged
         /\ NewId \notin DOMAIN dumps /\ NewId \notin CommitId /\ NewId # 0
         /\ \A c \in CommitId : c < NewId
         /\ CommitId' = CommitId \cup {NewId}
         /\ Ancestors'
  <1>1. HistoryOK /\ SessionAssumption /\ Ancestors
    BY SessionAssumption DEF TypeOK, HistInv
  <1>2. /\ Len(commits') = Len(commits) + 1 /\ NewId \notin CommitId /\ NewId \in CommitId'
        /\ head' = NewId /\ NewId = Len(commits) + 1 /\ Len(commits) \in Nat
        /\ head \in CommitId /\ CommitId = 1 .. Len(commits)
    <2>1. /\ Len(commits') = Len(commits) + 1 /\ NewId \notin CommitId /\ NewId \in CommitId'
          /\ head' = NewId
      BY <1>1, NewCommitType
    <2>2. Len(commits) \in Nat /\ head \in CommitId
      BY <1>1 DEF HistoryOK
    <2>3. QED
      BY <2>1, <2>2 DEF NewId, CommitId
  <1>3. CommitId' = CommitId \cup {NewId} /\ \A c \in CommitId : c < NewId
    BY <1>2 DEF CommitId
  <1>4. NewId \notin DOMAIN dumps /\ NewId # 0
    BY <1>2, Widen, <1>1
  <1> DEFINE new == [code |-> code, log |-> <<NewId>> \o commits[head].log]
  <1>5. commits' = Append(commits, new)
    BY DEF NewCommit
  <1>6. commits[head].log \in Seq(CommitId')
    <2>1. commits[head].log \in Seq(CommitId) /\ CommitId \subseteq CommitId'
      BY <1>1, <1>2, <1>3, LogType
    <2>2. QED
      BY <2>1, SeqWiden
  <1>7. Members(new.log) = {NewId} \cup Members(commits[head].log)
    BY <1>2, <1>6, FrontMembers
  <1>8. new.code = code
    OBVIOUS
  <1> HIDE DEF new
  <1>9. /\ \A c \in CommitId : commits'[c] = commits[c]
        /\ commits'[NewId] = new
    BY <1>1, <1>2, <1>5 DEF HistoryOK
  <1>10. \A c \in CommitId : Log(c)' = Log(c)
    BY <1>9 DEF Log
  <1>11. Logged' = {NewId} \cup Logged
    <2>1. Logged' = Members(new.log)
      BY <1>2, <1>9 DEF Logged, Log, Members
    <2>2. QED
      BY <1>7, <2>1 DEF Logged, Log, Members
  <1>12. HeadCode' = code
    BY <1>2, <1>8, <1>9 DEF HeadCode
  <1>13. Ancestors'
    <2> SUFFICES ASSUME NEW c \in CommitId'
                 PROVE  /\ c \in Log(c)'
                        /\ \A x \in Log(c)' : x \in 1 .. c /\ Log(x)' \subseteq Log(c)'
                        /\ \A x, y \in Log(c)' : x <= y => x \in Log(y)'
      BY DEF Ancestors
    <2>1. CASE c \in CommitId
      <3>1. \A x \in Log(c) : x \in CommitId
        BY <1>1, <1>2, <2>1 DEF Ancestors
      <3>2. QED
        BY <1>1, <1>10, <2>1, <3>1 DEF Ancestors
    <2>2. CASE c = NewId
      <3>1. /\ \A x \in Logged : x \in CommitId /\ Log(x) \subseteq Logged
            /\ \A x, y \in Logged : x <= y => x \in Log(y)
        BY <1>1, <1>2 DEF Ancestors, Logged
      <3>2. \A x \in Logged : x \in 1 .. NewId /\ Log(x)' \subseteq Logged
        BY <1>2, <1>10, <3>1
      <3>3. NewId \in 1 .. NewId
        BY <1>2
      <3>4. Log(c)' = Logged'
        BY <1>2, <2>2 DEF Log, Logged
      <3>6. ASSUME NEW x \in Log(c)', NEW y \in Log(c)', x <= y PROVE x \in Log(y)'
        <4>1. CASE y = NewId
          BY <2>2, <3>6, <4>1
        <4>2. CASE y # NewId
          <5>1. y \in Logged /\ y \in CommitId /\ y < NewId
            BY <1>3, <1>11, <3>1, <3>4, <3>6, <4>2
          <5>2. x # NewId
            BY <1>2, <3>6, <5>1
          <5>3. x \in Logged
            BY <1>11, <3>4, <3>6, <5>2
          <5>4. QED
            BY <1>10, <3>1, <3>6, <5>1, <5>3
        <4>3. QED
          BY <4>1, <4>2
      <3>5. QED
        BY <1>11, <2>2, <3>2, <3>3, <3>4, <3>6
    <2>3. QED
      BY <1>3, <2>1, <2>2
  <1>14. QED
    BY <1>2, <1>3, <1>4, <1>8, <1>9, <1>10, <1>11, <1>12, <1>13

\* A new checkpoint goes to the front of the list
LEMMA PushNew ==
  ASSUME TypeOK, list' = <<NewId>> \o list
  PROVE  list'[1] = NewId
  <1>1. list \in Seq(CommitId \cup {NewId})
    BY SeqWiden DEF TypeOK, HistoryOK
  <1>2. QED
    BY <1>1, PushFront

\* What HEAD's history is made of
LEMMA LoggedFacts ==
  ASSUME TypeOK, HistInv
  PROVE  /\ head \in CommitId /\ head \in Logged /\ head # 0
         /\ \A x \in Logged : x \in CommitId /\ x <= head /\ Log(x) \subseteq Logged
         /\ \A x, y \in Logged : x <= y => x \in Log(y)
         /\ Listed \subseteq CommitId /\ list[1] \in Listed
         /\ \A x \in CommitId : x \in Nat /\ x # 0
  <1>1. head \in CommitId /\ Listed \subseteq CommitId /\ HistoryOK
    BY ListedType DEF TypeOK
  <1>2. list[1] \in Listed
    BY <1>1 DEF HistoryOK, Listed
  <1>3. \A x \in CommitId : x \in Nat /\ x # 0
    BY DEF CommitId
  <1>4. CommitId = 1 .. Len(commits) /\ Len(commits) \in Nat
    BY <1>1 DEF CommitId, HistoryOK
  <1>5. /\ \A x \in Log(head) : x \in 1 .. head /\ Log(x) \subseteq Log(head)
        /\ \A x, y \in Log(head) : x <= y => x \in Log(y)
    BY <1>1 DEF HistInv, Ancestors
  <1>6. head \in Log(head)
    BY <1>1 DEF HistInv, Ancestors
  <1>7. QED
    BY <1>1, <1>2, <1>3, <1>4, <1>5, <1>6 DEF Logged

\* The checkpoint of a step may go into the list, or the list is read from git
LEMMA NewCommitHist ==
  ASSUME TypeOK, HistInv, NEW code \in SUBSET Migration, NewCommit(code), UNCHANGED dumps,
         list' = list \/ list' = <<NewId>> \o list \/ list' = commits'[head'].log
  PROVE  /\ HistInv'
         /\ ~Whole' /\ head' \notin DOMAIN dumps'
         /\ made \in CommitId /\ made' = made => BelowMade' = BelowMade
         /\ made' = NewId => (BelowMade' <=> Whole)
         /\ newest' = newest => BelowNewest' = BelowNewest
  <1>1. /\ \A c \in CommitId : Log(c)' = Log(c) /\ commits'[c] = commits[c]
        /\ head' = NewId
        /\ Logged' = {NewId} \cup Logged
        /\ NewId \notin DOMAIN dumps /\ NewId \notin CommitId
        /\ CommitId' = CommitId \cup {NewId}
        /\ Ancestors'
    BY NewCommitLogs
  <1>2. /\ Logged \subseteq CommitId /\ Listed \subseteq CommitId
        /\ \A x \in Logged : Log(x) \subseteq Logged
    BY LoggedFacts
  <1>3. Listed' = Listed \/ Listed' = {NewId} \cup Listed \/ Listed' = Logged'
    <2>1. CASE list' = list
      BY <2>1 DEF Listed
    <2>2. CASE list' = <<NewId>> \o list
      BY <2>2, CommitLogs, SessionAssumption
    <2>3. CASE list' = commits'[head'].log
      BY <2>3 DEF Listed, Logged, Log
    <2>4. QED
      BY <2>1, <2>2, <2>3
  <1>4. \A c \in Listed' \cup Logged' : c = NewId \/ (c \in CommitId /\ c \in Listed \cup Logged)
    BY <1>1, <1>2, <1>3
  <1>10. ASSUME NEW c \in CommitId, Reached(c)' PROVE Reached(c)
    <2>1. CASE c \in Logged'
      BY <1>1, <2>1 DEF Reached
    <2>2. CASE \E x \in Listed' : c \in Log(x)'
      <3>1. PICK x \in Listed' : c \in Log(x)'
        BY <2>2
      <3>2. CASE x = NewId
        <4>1. Log(x)' = Logged'
          BY <1>1, <3>2 DEF Log, Logged
        <4>2. QED
          BY <1>1, <3>1, <4>1 DEF Reached
      <3>3. CASE x # NewId
        BY <1>1, <1>2, <1>4, <3>1, <3>3 DEF Reached
      <3>4. QED
        BY <3>2, <3>3
    <2>3. QED
      BY <1>10, <2>1, <2>2 DEF Reached
  <1>5. Fits'
    <2> SUFFICES ASSUME NEW c \in CommitId', Reached(c)', Log(c)' \subseteq DOMAIN dumps
                 PROVE  dumps[c].migs = commits'[c].code
      BY DEF Fits
    <2>1. c \in Log(c)'
      BY <1>1 DEF Ancestors
    <2>2. c \in CommitId /\ Reached(c)
      BY <1>1, <1>10, <2>1
    <2>3. QED
      BY <1>1, <2>2 DEF HistInv, Fits
  <1>6. ASSUME newest' = newest PROVE BelowNewest' = BelowNewest
    <2>1. newest \in CommitId
      BY DEF TypeOK, ControlOK
    <2>2. QED
      BY <1>1, <1>6, <2>1 DEF BelowNewest, Below, Log
  <1>7. ASSUME made \in CommitId, made' = made PROVE BelowMade' = BelowMade
    BY <1>1, <1>7 DEF BelowMade, Below, Log
  <1>8. ASSUME made' = NewId PROVE BelowMade' <=> Whole
    <2>1. Logged' \ {head'} = Logged
      BY <1>1, <1>2
    <2>2. BelowMade' <=> Logged' \ {head'} \subseteq DOMAIN dumps
      BY <1>1, <1>8 DEF BelowMade, Below, Log, Logged
    <2>3. QED
      BY <2>1, <2>2 DEF Whole
  <1>11. QED
    BY <1>1, <1>5, <1>6, <1>7, <1>8 DEF HistInv, Whole

\* Writing the dump of a checkpoint of the history that has none and that no
\* dumped checkpoint is on top of
LEMMA SaveHist ==
  ASSUME TypeOK, HistInv, NEW sha \in CommitId, SaveDatabases(sha), sha \notin DOMAIN dumps,
         UNCHANGED <<commits, head>>, Listed' = Listed \/ Listed' = {sha} \cup Listed,
         sha \in Logged,
         \A c \in CommitId : Reached(c) /\ sha \in Log(c) /\ c # sha => c \notin DOMAIN dumps,
         Below(sha) => db.migs = commits[sha].code
  PROVE  /\ HistInv'
         /\ dumps' = dumps \/ (DOMAIN dumps' = DOMAIN dumps \cup {sha} /\ dumps'[sha] = db)
         /\ \A c \in DOMAIN dumps : dumps'[c] = dumps[c]
  <1>1. /\ \A c : Log(c)' = Log(c)
        /\ Logged' = Logged /\ CommitId' = CommitId
    BY SameLogs
  <1>2. \/ dumps' = dumps
        \/ /\ DOMAIN dumps' = DOMAIN dumps \cup {sha} /\ dumps'[sha] = db
           /\ \A c \in DOMAIN dumps : dumps'[c] = dumps[c]
    BY DEF SaveDatabases
  <1>3. Ancestors'
    BY <1>1 DEF HistInv, Ancestors
  <1>8. ASSUME NEW c \in CommitId, Reached(c)' PROVE Reached(c)
    <2>1. CASE c \in Logged'
      BY <1>1, <2>1 DEF Reached
    <2>2. CASE \E x \in Listed' : c \in Log(x)'
      <3>1. PICK x \in Listed' : c \in Log(x)
        BY <1>1, <2>2
      <3>2. CASE x = sha
        <4>1. c \in Logged
          BY <3>1, <3>2, LoggedFacts
        <4>2. QED
          BY <4>1 DEF Reached
      <3>3. CASE x # sha
        BY <3>1, <3>3 DEF Reached
      <3>4. QED
        BY <3>2, <3>3
    <2>3. QED
      BY <1>8, <2>1, <2>2 DEF Reached
  <1>4. ASSUME NEW c \in CommitId, Reached(c)', Log(c)' \subseteq DOMAIN dumps'
        PROVE  dumps'[c].migs = commits'[c].code
    <2>1. c \in CommitId /\ c \in Log(c) /\ Reached(c)
      BY <1>4, <1>8 DEF HistInv, Ancestors
    <2>2. CASE c = sha
      <3>1. c \in DOMAIN dumps'
        BY <1>1, <1>4, <2>1
      <3>2. DOMAIN dumps' = DOMAIN dumps \cup {sha} /\ dumps'[sha] = db
        BY <1>2, <2>2, <3>1
      <3>3. Below(sha)
        BY <1>1, <1>4, <2>2, <3>2 DEF Below
      <3>4. QED
        BY <2>2, <3>2, <3>3
    <2>3. CASE c # sha
      <3>1. c \in DOMAIN dumps
        BY <1>1, <1>2, <1>4, <2>1, <2>3
      <3>2. sha \notin Log(c)
        BY <2>1, <2>3, <3>1
      <3>3. Log(c) \subseteq DOMAIN dumps
        BY <1>1, <1>2, <1>4, <3>2
      <3>4. dumps[c].migs = commits[c].code
        BY <2>1, <2>3, <3>3 DEF HistInv, Fits
      <3>5. QED
        BY <1>2, <3>1, <3>4
    <2>4. QED
      BY <2>2, <2>3
  <1>5. Fits'
    BY <1>1, <1>4 DEF Fits
  <1>7. QED
    BY <1>2, <1>3, <1>5 DEF HistInv

\* Going back to a checkpoint of the history, and listing checkpoints of it
LEMMA BackHist ==
  ASSUME TypeOK, HistInv, UNCHANGED <<commits, dumps>>, head' \in Logged \cup Listed,
         Listed' \subseteq Listed \cup Logged
  PROVE  HistInv'
  <1>1. (\A c : Log(c)' = Log(c)) /\ CommitId' = CommitId
    BY DEF Log, CommitId
  <1>2. Logged' = Log(head')
    BY DEF Logged, Log
  <1>3. \A x \in Logged : Log(x) \subseteq Logged
    BY LoggedFacts
  <1>8. ASSUME NEW c \in CommitId, Reached(c)' PROVE Reached(c)
    <2>1. CASE c \in Logged'
      BY <1>2, <1>3, <2>1 DEF Reached
    <2>2. CASE \E x \in Listed' : c \in Log(x)'
      BY <1>1, <1>3, <2>2 DEF Reached
    <2>3. QED
      BY <1>8, <2>1, <2>2 DEF Reached
  <1>5. Ancestors'
    BY <1>1 DEF HistInv, Ancestors
  <1>6. Fits'
    BY <1>1, <1>8 DEF HistInv, Fits
  <1>7. QED
    BY <1>5, <1>6 DEF HistInv

LEMMA RestartedFacts ==
  ASSUME NEW code \in SUBSET Migration, NEW d \in Database
  PROVE  /\ d.migs = code => Restarted(code, d) = d
         /\ d.migs \subseteq code => Restarted(code, d).migs = code
  BY DEF Restarted, Database

\* Without a fault the load of a dump works
LEMMA RestoreWorks ==
  ASSUME Repairable, NEW sha, RestoreDatabases(sha)
  PROVE  db' = IF sha \in DOMAIN dumps THEN dumps[sha] ELSE db
  BY DEF Repairable, RestoreDatabases, Outcomes

\* A whole history's newest dump fits
LEMMA WholeFits ==
  ASSUME TypeOK, HistInv, Whole
  PROVE  head \in DOMAIN dumps /\ dumps[head].migs = HeadCode
  BY LoggedFacts DEF HistInv, Fits, Whole, Reached, HeadCode, Logged

----------------------------------------------------------------------------
\* The steps that make no checkpoint and write no dump

LEMMA HeldBootSteps ==
  ASSUME Repairable, FitInv, EnsureBooted \/ BootStart \/ BootRestore \/ BootRestart
  PROVE  HistInv' /\ HeldInv'
  <1>1. UNCHANGED <<commits, head, list, saved, dumps, tree, op, point, made, touched, stopping>>
    BY DEF EnsureBooted, BootStart, BootRestore, BootRestart, git, opVars, dbVars
  <1>2. TypeOK /\ Phases /\ HistInv /\ MadeIsNew /\ BootOrder /\ Foremost /\ HeldByRun
        /\ HeldByRevert /\ HeldByBoot /\ Attached /\ Unsaved
    BY DEF FitInv, HeldInv
  <1>3. /\ HistInv' /\ Whole' = Whole /\ Listed' = Listed /\ Logged' = Logged
        /\ HeadCode' = HeadCode /\ BelowMade' = BelowMade
        /\ newest' = newest => BelowNewest' = BelowNewest
    BY <1>1, <1>2, FrameHist
  <1>4. ~stopping /\ status \in {"idle", "starting"} /\ op \in {"none", "agent"}
        /\ tree.code = HeadCode /\ HeadCode \in SUBSET Migration
        /\ (Whole => list[1] = head)
    <2>1. ~stopping /\ status \in {"idle", "starting"}
      BY <1>2 DEF EnsureBooted, BootStart, BootRestore, BootRestart, Phases, Unsaved
    <2>2. tree.code \in SUBSET Migration
      BY <1>2 DEF TypeOK, DataOK
    <2>3. QED
      BY <1>2, <2>1, <2>2 DEF Phases, Foremost
  <1>5. Clean' = Clean
    BY <1>1, <1>3 DEF Clean
  <1>6. MadeIsNew' /\ HeldByRevert'
    BY <1>1, <1>3, <1>4 DEF MadeIsNew, Making, HeldByRevert
  <1>7. status' \in {"starting", "ready"} /\ (status' = "ready" => BootRestart)
    <2>1. "boot" \notin Faults
      BY DEF Repairable
    <2>2. QED
      BY <1>2, <2>1
         DEF EnsureBooted, BootStart, BootRestore, BootRestart, Outcomes, Phases
  <1>8. Foremost'
    BY <1>1, <1>3, <1>4 DEF Foremost
  <1>14. list[1] \in Nat /\ newest \in Nat
    BY CommitFacts, <1>2 DEF CommitId
  <1>9. CASE EnsureBooted
    <2>1. boot' = "start" /\ from' = 0 /\ newest' = newest /\ DOMAIN dumps = {}
      BY <1>2, <1>9 DEF EnsureBooted, Unsaved
    <2>2. HeldByRun'
      BY <1>1, <1>4, <1>9 DEF HeldByRun, EnsureBooted
    <2>3. HeldByBoot'
      BY <1>1, <1>2, <1>3, <1>4, <2>1 DEF HeldByBoot
    <2>4. BootOrder'
      BY <1>1, <1>2, <1>3, <1>4, <1>14, <2>1 DEF BootOrder
    <2>5. QED
      BY <1>3, <1>6, <1>8, <2>2, <2>3, <2>4 DEF HeldInv
  <1>10. CASE BootStart
    <2>1. /\ boot = "start" /\ from' = from /\ db' = [migs |-> tree.code, rows |-> 0]
          /\ boot' = IF from = 0 THEN "save" ELSE "restore"
          /\ status' = status /\ newest' = list[1]
      BY <1>10 DEF BootStart, Outcomes, Repairable
    <2>2. status' = "starting" /\ status = "starting"
      BY <1>2, <2>1 DEF Phases
    <2>3. HeldByRun'
      BY <1>1, <1>4, <2>2 DEF HeldByRun
    <2>6. commits[list[1]].code = HeadCode
      BY <1>2, <1>4, <2>2 DEF HeldByBoot
    <2>4. HeldByBoot'
      BY <1>1, <1>2, <1>3, <1>4, <2>1, <2>2, <2>6 DEF HeldByBoot
    <2>7. BootOrder'
      BY <1>1, <1>2, <1>3, <1>14, <2>1, <2>2 DEF BootOrder
    <2>5. QED
      BY <1>3, <1>6, <1>8, <2>3, <2>4, <2>7 DEF HeldInv
  <1>11. CASE BootRestore
    <2>1. /\ boot = "restore" /\ from' = from /\ status' = status /\ newest' = newest
          /\ boot' = IF from # newest \/ from \notin DOMAIN dumps THEN "save" ELSE "restart"
          /\ db' = IF from \in DOMAIN dumps THEN dumps[from] ELSE db
      BY <1>11, RestoreWorks DEF BootRestore
    <2>2. status' = "starting" /\ status = "starting"
      BY <1>2, <2>1 DEF Phases
    <2>3. HeldByRun'
      BY <1>1, <1>4, <2>2 DEF HeldByRun
    <2>4. /\ from # 0 /\ from \in Logged /\ commits[from].code = HeadCode /\ db.migs = HeadCode
          /\ newest \in Logged /\ from <= newest /\ commits[newest].code = HeadCode
          /\ \A c \in Logged \cap DOMAIN dumps : c <= from
      BY <1>2, <1>4, <2>1 DEF HeldByBoot, BootOrder, Attached
    <2>5. ASSUME boot' = "save", BelowNewest PROVE db'.migs = HeadCode
      <3>1. CASE from \notin DOMAIN dumps
        BY <2>1, <2>4, <3>1
      <3>2. CASE from \in DOMAIN dumps
        <4>1. from # newest
          BY <2>1, <2>5, <3>2
        <4>2. from \in CommitId /\ Log(from) \subseteq Log(newest) /\ newest \notin Log(from)
          <5>1. /\ from \in CommitId /\ newest \in CommitId /\ from \in Log(newest)
                /\ from \in Nat /\ newest \in Nat
            BY <1>2, <2>4, LoggedFacts
          <5>2. /\ \A x \in Log(from) : x \in 1 .. from
                /\ Log(from) \subseteq Log(newest)
            BY <1>2, <5>1 DEF HistInv, Ancestors
          <5>3. QED
            BY <2>4, <4>1, <5>1, <5>2
        <4>3. Log(from) \subseteq DOMAIN dumps
          BY <2>5, <4>2 DEF BelowNewest, Below
        <4>4. dumps[from].migs = commits[from].code
          BY <1>2, <2>4, <4>2, <4>3 DEF HistInv, Fits, Reached
        <4>5. QED
          BY <2>1, <2>4, <3>2, <4>4
      <3>3. QED
        BY <3>1, <3>2
    <2>6. ASSUME boot' = "restart", Whole PROVE db' = dumps[head]
      <3>1. from = newest /\ from \in DOMAIN dumps /\ db' = dumps[from]
        BY <2>1, <2>6
      <3>2. head \in Logged /\ head \in Nat /\ from <= head /\ from \in Nat
        BY <1>2, <2>4, LoggedFacts
      <3>3. head <= from
        BY <2>4, <2>6, <3>2 DEF Whole
      <3>4. QED
        BY <3>1, <3>2, <3>3
    <2>7. HeldByBoot'
      BY <1>1, <1>2, <1>3, <1>4, <2>1, <2>2, <2>4, <2>5, <2>6 DEF HeldByBoot
    <2>9. BootOrder'
      BY <1>1, <1>2, <1>3, <2>1, <2>2 DEF BootOrder
    <2>8. QED
      BY <1>3, <1>6, <1>8, <2>3, <2>7, <2>9 DEF HeldInv
  <1>12. CASE BootRestart
    <2>1. /\ boot = "restart" /\ from' = from /\ status' = "ready" /\ boot' = "none"
          /\ db' = Restarted(tree.code, db)
      BY <1>12 DEF BootRestart
    <2>2. ASSUME Whole PROVE db' = dumps[head] /\ dumps[head].migs = HeadCode
      <3>1. db = dumps[head]
        BY <1>2, <1>4, <2>1, <2>2 DEF HeldByBoot
      <3>2. db.migs = HeadCode /\ db \in Database
        BY <1>2, <2>2, <3>1, WholeFits DEF TypeOK, DataOK
      <3>3. QED
        BY <1>4, <2>1, <3>1, <3>2, RestartedFacts
    <2>3. HeldByRun'
      BY <1>1, <1>3, <1>4, <1>5, <2>1, <2>2 DEF HeldByRun
    <2>4. HeldByBoot' /\ BootOrder'
      BY <2>1 DEF HeldByBoot, BootOrder
    <2>5. QED
      BY <1>3, <1>6, <1>8, <2>3, <2>4 DEF HeldInv
  <1>13. QED
    BY <1>9, <1>10, <1>11, <1>12

\* A run up to the reading of HEAD by its commit
LEMMA HeldRunSteps ==
  ASSUME Repairable, FitInv,
         \/ SendMessage \/ AgentWrites \/ AgentRestarts \/ AgentWritesRows
         \/ RunDone \/ RunFailed \/ RunKept \/ Save \/ (Commit /\ head # point)
  PROVE  HistInv' /\ HeldInv'
  <1>1. UNCHANGED <<commits, head, list, saved, dumps, status, stopping, boot, from, newest>>
    BY DEF SendMessage, AgentWrites, AgentRestarts, AgentWritesRows, RunDone, RunFailed, RunKept,
           Save, Commit, git, opVars, bootVars, dbVars
  <1>2. TypeOK /\ Phases /\ HistInv /\ MadeIsNew /\ BootOrder /\ Foremost /\ HeldByRun /\ HeldByRevert
        /\ HeldByBoot
    BY DEF FitInv, HeldInv
  <1>3. /\ HistInv' /\ Whole' = Whole /\ Listed' = Listed /\ Logged' = Logged
        /\ HeadCode' = HeadCode /\ BelowNewest' = BelowNewest
    BY <1>1, <1>2, FrameHist
  <1>4. op \in {"none", "agent", "save", "commit"}
        /\ op' \in {"none", "agent", "save", "commit", "discard"}
    <2>1. SendMessage => op = "none"
      BY <1>2 DEF SendMessage, Phases
    <2>2. QED
      BY <2>1 DEF SendMessage, AgentWrites, AgentRestarts, AgentWritesRows, RunDone, RunFailed,
                  RunKept, Save, Commit, opVars
  <1>5. MadeIsNew' /\ BootOrder'
    BY <1>1, <1>2, <1>3, <1>4 DEF MadeIsNew, Making, BootOrder
  <1>6. /\ db \in Database /\ tree.code \in SUBSET Migration /\ tree.docs \in BOOLEAN
    BY <1>2 DEF TypeOK, DataOK
  <1>7. /\ status \in {"idle", "starting"} => tree' = tree
        /\ boot # "none" => db' = db
    BY <1>2 DEF Phases, Repairable, SendMessage, AgentWrites, AgentRestarts, AgentWritesRows,
                RunDone, RunFailed, RunKept, Save, Commit, dbVars
  <1>8. Foremost'
    BY <1>1, <1>2, <1>3, <1>4, <1>7 DEF Foremost
  <1>9. HeldByBoot'
    BY <1>1, <1>2, <1>3, <1>7 DEF HeldByBoot
  <1>10. HeldByRevert'
    <2>1. op' = "discard" => point' = list[1] /\ status # "stopped" /\ op # "listTo"
      BY <1>2, <1>4 DEF Phases, SendMessage, AgentWrites, AgentRestarts, AgentWritesRows,
                        RunDone, RunFailed, RunKept, Save, Commit, opVars
    <2>2. QED
      BY <1>1, <1>2, <1>3, <1>4, <2>1 DEF HeldByRevert, Foremost
  <1>11. HeldByRun'
    <2>1. CASE SendMessage
      <3>1. op' = "agent" /\ UNCHANGED <<tree, db>> /\ op = "none"
        BY <1>2, <2>1 DEF SendMessage, dbVars, Phases
      <3>2. Clean' = Clean
        BY <1>3, <3>1 DEF Clean
      <3>3. QED
        BY <1>1, <1>2, <1>3, <3>1, <3>2, WholeFits DEF HeldByRun
    <2>2. CASE AgentWrites
      BY <2>2 DEF AgentWrites, HeldByRun
    <2>3. CASE AgentRestarts \/ AgentWritesRows
      <3>1. op = "agent" /\ op' = "agent" /\ UNCHANGED <<tree, touched>>
            /\ (db' = Restarted(tree.code, db) \/ db'.migs = db.migs)
        BY <2>3 DEF AgentRestarts, AgentWritesRows, opVars
      <3>2. Clean' = Clean
        BY <1>3, <3>1 DEF Clean
      <3>3. Clean /\ db.migs = HeadCode => db'.migs = HeadCode
        BY <1>6, <3>1, RestartedFacts DEF Clean
      <3>4. QED
        BY <1>1, <1>2, <1>3, <3>1, <3>2, <3>3 DEF HeldByRun
    <2>4. CASE RunDone
      <3>1. /\ op = "agent" /\ ~stopping /\ tree' = tree
            /\ \/ op' = "none" /\ status = "idle"
               \/ op' = "save" /\ status # "idle"
        BY <2>4 DEF RunDone
      <3>2. CASE op' = "none" /\ status = "idle"
        BY <1>1, <3>2 DEF HeldByRun
      <3>3. CASE op' = "save" /\ status # "idle"
        <4>1. CASE touched \/ ~Clean
          <5>1. db.migs \subseteq tree.code /\ db' = Restarted(tree.code, db)
            BY <2>4, <4>1 DEF RunDone
          <5>2. db'.migs = tree.code
            BY <1>6, <5>1, RestartedFacts
          <5>3. QED
            BY <3>1, <3>3, <5>2 DEF HeldByRun
        <4>2. CASE ~touched /\ Clean
          <5>1. db' = db /\ status = "ready"
            BY <2>4, <3>3, <4>2 DEF RunDone
          <5>2. Whole => db.migs = tree.code
            BY <1>2, <3>1, <4>2, <5>1 DEF HeldByRun, Clean
          <5>3. QED
            BY <1>3, <3>1, <3>3, <5>1, <5>2 DEF HeldByRun
        <4>3. QED
          BY <4>1, <4>2
      <3>4. QED
        BY <3>1, <3>2, <3>3
    <2>5. CASE RunFailed
      <3>1. op' = "discard" \/ (op' = "none" /\ status # "ready")
        BY <2>5 DEF RunFailed
      <3>2. QED
        BY <1>1, <3>1 DEF HeldByRun
    <2>6. CASE RunKept
      <3>1. op' = "none" /\ tree' = tree /\ ~Clean
        BY <2>6 DEF RunKept, Repairable
      <3>2. ~Clean'
        BY <1>3, <3>1 DEF Clean
      <3>3. QED
        BY <3>1, <3>2 DEF HeldByRun
    <2>7. CASE Save
      <3>1. op = "save" /\ UNCHANGED <<tree, db>>
            /\ \/ op' = "none" /\ ~DataChanged(list[1])
               \/ op' = "commit"
        BY <2>7 DEF Save, dbVars
      <3>2. CASE op' = "none" /\ ~DataChanged(list[1])
        <4>1. ASSUME Whole, ~stopping PROVE db = dumps[head]
          <5>1. head \in DOMAIN dumps
            BY <1>2, <4>1, WholeFits
          <5>2. list[1] = head
            BY <1>2, <3>1, <4>1, <5>1 DEF Foremost, Phases
          <5>3. QED
            BY <3>2, <5>1, <5>2 DEF DataChanged
        <4>2. QED
          BY <1>1, <1>3, <3>1, <3>2, <4>1 DEF HeldByRun
      <3>3. CASE op' = "commit"
        BY <1>1, <1>2, <1>3, <3>1, <3>3 DEF HeldByRun
      <3>4. QED
        BY <3>1, <3>2, <3>3
    <2>8. CASE Commit /\ head # point
      <3>1. op' = "discard" \/ (op' = "none" /\ stopping)
        BY <2>8 DEF Commit
      <3>2. QED
        BY <1>1, <3>1 DEF HeldByRun
    <2>9. QED
      BY <2>1, <2>2, <2>3, <2>4, <2>5, <2>6, <2>7, <2>8
  <1>12. QED
    BY <1>3, <1>5, <1>8, <1>9, <1>10, <1>11 DEF HeldInv

\* A revert or a restore, between its commit and its end
LEMMA HeldRevertSteps ==
  ASSUME Repairable, FitInv,
         \/ (Discard /\ ~tree.docs) \/ RestoreDb \/ RestartReverted
         \/ RestoreCheckpoint \/ RestoreTo \/ RestartTo
  PROVE  HistInv' /\ HeldInv'
  <1>1. UNCHANGED <<commits, head, list, saved, dumps, status, stopping, boot, from, newest>>
    BY DEF Discard, RestoreDb, RestartReverted, RestoreCheckpoint, RestoreTo, RestartTo, git,
       bootVars, dbVars
  <1>2. TypeOK /\ Phases /\ HistInv /\ MadeIsNew /\ BootOrder /\ Foremost /\ HeldByRun /\ HeldByRevert
        /\ HeldByBoot
    BY DEF FitInv, HeldInv
  <1>3. /\ HistInv' /\ Whole' = Whole /\ Listed' = Listed /\ Logged' = Logged
        /\ HeadCode' = HeadCode
        /\ made' = made => BelowMade' = BelowMade
    BY <1>1, <1>2, FrameHist
  <1>4. /\ db \in Database /\ tree.code \in SUBSET Migration
    BY <1>2 DEF TypeOK, DataOK
  <1>5. status = "ready" /\ boot = "none"
    BY <1>2 DEF Phases, Discard, RestoreDb, RestartReverted, RestoreCheckpoint, RestoreTo,
       RestartTo
  <1>6. HeldByBoot' /\ BootOrder'
    BY <1>1, <1>5 DEF HeldByBoot, BootOrder
  <1>7. CASE Discard /\ ~tree.docs
    <2>1. /\ op = "discard" /\ op' = "restoreDb" /\ made' = 0 /\ point' = point
          /\ tree' = [code |-> HeadCode, docs |-> FALSE]
      BY <1>7 DEF Discard
    <2>2. MadeIsNew' /\ HeldByRun'
      BY <2>1 DEF MadeIsNew, Making, HeldByRun
    <2>3. HeldByRevert'
      BY <1>1, <1>2, <1>3, <2>1 DEF HeldByRevert
    <2>4. Foremost'
      BY <1>1, <1>2, <1>3, <1>5, <2>1 DEF Foremost
    <2>5. QED
      BY <1>3, <1>6, <2>2, <2>3, <2>4 DEF HeldInv
  <1>8. CASE RestoreDb
    <2>1. /\ op = "restoreDb" /\ op' = IF made = 0 THEN "restart" ELSE "dumpDocs"
          /\ UNCHANGED <<tree, made, point>>
          /\ db' = IF point \in DOMAIN dumps THEN dumps[point] ELSE db
          /\ ~stopping
      BY <1>8, RestoreWorks DEF RestoreDb
    <2>2. MadeIsNew' /\ HeldByRun'
      BY <1>1, <1>2, <1>3, <2>1 DEF MadeIsNew, Making, HeldByRun
    <2>3. Whole => head \in DOMAIN dumps
      BY <1>2, WholeFits
    <2>4. HeldByRevert'
      BY <1>1, <1>2, <1>3, <2>1, <2>3 DEF HeldByRevert
    <2>5. Foremost'
      BY <1>1, <1>2, <1>3, <1>5, <2>1 DEF Foremost
    <2>6. QED
      BY <1>3, <1>6, <2>2, <2>4, <2>5 DEF HeldInv
  <1>9. CASE RestartReverted
    <2>1. /\ op = "restart" /\ op' = "none" /\ tree' = tree
          /\ db' = Restarted(tree.code, db) /\ ~stopping
      BY <1>9 DEF RestartReverted
    <2>2. Whole => db = dumps[head] /\ db.migs = tree.code
      BY <1>2, <2>1, WholeFits DEF HeldByRevert
    <2>3. Whole => db' = dumps[head]
      BY <1>4, <2>1, <2>2, RestartedFacts
    <2>4. MadeIsNew' /\ HeldByRun' /\ HeldByRevert'
      BY <1>1, <1>3, <2>1, <2>3 DEF MadeIsNew, Making, HeldByRun, HeldByRevert
    <2>5. Foremost'
      BY <1>1, <1>2, <1>3, <1>5, <2>1 DEF Foremost
    <2>6. QED
      BY <1>3, <1>6, <2>4, <2>5 DEF HeldInv
  <1>10. CASE RestoreCheckpoint
    <2>1. /\ op' = "reset" /\ point' \in Listed /\ tree' = tree /\ op = "none"
      BY <1>2, <1>10 DEF RestoreCheckpoint, Phases
    <2>3. MadeIsNew' /\ HeldByRun' /\ HeldByRevert'
      BY <1>1, <1>3, <2>1 DEF MadeIsNew, Making, HeldByRun, HeldByRevert
    <2>4. Foremost'
      BY <1>1, <1>2, <1>3, <1>5, <2>1 DEF Foremost
    <2>5. QED
      BY <1>3, <1>6, <2>3, <2>4 DEF HeldInv
  <1>11. CASE RestoreTo
    <2>1. /\ op = "restoreTo" /\ op' = "restartTo" /\ UNCHANGED <<tree, made, point>>
          /\ db' = IF point \in DOMAIN dumps THEN dumps[point] ELSE db
          /\ ~stopping
      BY <1>11, RestoreWorks DEF RestoreTo
    <2>2. Whole => head \in DOMAIN dumps
      BY <1>2, WholeFits
    <2>3. MadeIsNew' /\ HeldByRun' /\ HeldByRevert'
      BY <1>1, <1>2, <1>3, <2>1, <2>2 DEF MadeIsNew, Making, HeldByRun, HeldByRevert
    <2>4. Foremost'
      BY <1>1, <1>2, <1>3, <1>5, <2>1 DEF Foremost
    <2>5. QED
      BY <1>3, <1>6, <2>3, <2>4 DEF HeldInv
  <1>13. CASE RestartTo
    <2>1. /\ op = "restartTo" /\ op' = "listTo" /\ UNCHANGED <<tree, made>> /\ point' = head
          /\ db' = Restarted(tree.code, db) /\ ~stopping
      BY <1>13 DEF RestartTo
    <2>2. Whole => db = dumps[head] /\ db.migs = tree.code
      BY <1>2, <2>1, WholeFits DEF HeldByRevert
    <2>3. Whole => db' = dumps[head]
      BY <1>4, <2>1, <2>2, RestartedFacts
    <2>4. MadeIsNew' /\ HeldByRun' /\ HeldByRevert'
      BY <1>1, <1>3, <2>1, <2>3 DEF MadeIsNew, Making, HeldByRun, HeldByRevert
    <2>5. Foremost'
      BY <1>1, <1>2, <1>3, <1>5, <2>1 DEF Foremost
    <2>6. QED
      BY <1>3, <1>6, <2>4, <2>5 DEF HeldInv
  <1>12. QED
    BY <1>7, <1>8, <1>9, <1>10, <1>11, <1>13

\* A stop, a crash: nothing is held on to
LEMMA HeldStopSteps ==
  ASSUME FitInv, StopSession \/ (OpAborted /\ UNCHANGED list) \/ StopDone \/ Crash
  PROVE  HistInv' /\ HeldInv'
  <1>1. /\ UNCHANGED <<commits, head, list, dumps, tree, from, newest>>
        /\ saved' \in {0, saved} /\ boot' \in {"none", boot}
    BY DEF StopSession, OpAborted, StopDone, Crash, git, bootVars, dbVars
  <1>2. TypeOK /\ Phases /\ HistInv /\ MadeIsNew /\ BootOrder /\ Foremost
    BY DEF FitInv, HeldInv
  <1>3. /\ HistInv' /\ Logged' = Logged /\ HeadCode' = HeadCode /\ Listed' = Listed
    BY <1>1, <1>2, FrameHist
  <1>4. stopping' \/ (status' = "stopped" /\ op' = "none" /\ boot' = "none")
    BY DEF StopSession, OpAborted, StopDone, Crash, opVars
  <1>5. /\ status' = status \/ status' = "stopped"
        /\ op' = "none" \/ UNCHANGED <<op, made, point>>
        /\ made' = made
    BY DEF StopSession, OpAborted, StopDone, Crash, opVars
  <1>6. HeldByRun' /\ HeldByRevert' /\ HeldByBoot'
    BY <1>4 DEF HeldByRun, HeldByRevert, HeldByBoot
  <1>9. BelowMade' = BelowMade /\ Whole' = Whole
    BY <1>1, <1>2, <1>5, FrameHist
  <1>7. MadeIsNew' /\ Foremost' /\ BootOrder'
    BY <1>1, <1>2, <1>3, <1>4, <1>5, <1>9 DEF MadeIsNew, Making, Foremost, BootOrder
  <1>8. QED
    BY <1>3, <1>6, <1>7 DEF HeldInv

----------------------------------------------------------------------------
\* The steps that make a checkpoint, write a dump or go back

\* The commit of a run: its code is what the services of the run run on
LEMMA HeldCommit ==
  ASSUME FitInv, Commit, head = point
  PROVE  HistInv' /\ HeldInv'
  <1>1. /\ op = "commit" /\ op' = "dump" /\ NewCommit(tree.code) /\ made' = NewId
        /\ tree' = [code |-> tree.code, docs |-> FALSE]
        /\ UNCHANGED <<status, stopping, boot, from, list, saved, db, stamp, dumps>>
    BY DEF Commit, bootVars, dbVars
  <1>2. TypeOK /\ Phases /\ HistInv /\ HeldByRun
    BY DEF FitInv, HeldInv
  <1>3. tree.code \in SUBSET Migration
    BY <1>2 DEF TypeOK, DataOK
  <1>4. /\ HistInv' /\ ~Whole' /\ head' \notin DOMAIN dumps' /\ (BelowMade' <=> Whole)
    BY <1>1, <1>2, <1>3, NewCommitHist
  <1>5. /\ head' = NewId /\ commits'[NewId].code = tree.code
        /\ Logged' = {NewId} \cup Logged /\ \A c \in CommitId : c < NewId
    BY <1>1, <1>2, <1>3, NewCommitLogs
  <1>6. status = "ready" /\ boot = "none"
    BY <1>1, <1>2 DEF Phases
  <1>7. MadeIsNew' /\ BootOrder'
    BY <1>1, <1>2, <1>5, <1>6 DEF MadeIsNew, BootOrder, TypeOK, DataOK
  <1>8. Foremost' /\ HeldByBoot' /\ HeldByRevert'
    BY <1>1, <1>4, <1>6 DEF Foremost, HeldByBoot, HeldByRevert
  <1>9. HeldByRun'
    BY <1>1, <1>2, <1>4, <1>5 DEF HeldByRun
  <1>10. QED
    BY <1>4, <1>7, <1>8, <1>9 DEF HeldInv

\* The documents a revert finds become a checkpoint of the same code
LEMMA HeldDiscard ==
  ASSUME FitInv, Discard, tree.docs
  PROVE  HistInv' /\ HeldInv'
  <1>1. /\ op = "discard" /\ op' = "restoreDb" /\ NewCommit(HeadCode) /\ made' = NewId
        /\ list' = <<NewId>> \o list /\ tree' = [code |-> HeadCode, docs |-> FALSE]
        /\ UNCHANGED <<status, stopping, boot, from, saved, db, stamp, dumps, point>>
    BY DEF Discard, bootVars, dbVars
  <1>2. TypeOK /\ Phases /\ HistInv /\ HeldByRevert
    BY DEF FitInv, HeldInv
  <1>3. HeadCode \in SUBSET Migration /\ list \in Seq(CommitId) /\ HistoryOK
    BY <1>2, LogType, ListedType DEF TypeOK, HistoryOK, HeadCode
  <1>4. /\ HistInv' /\ ~Whole' /\ head' \notin DOMAIN dumps' /\ (BelowMade' <=> Whole)
    BY <1>1, <1>2, <1>3, NewCommitHist
  <1>5. /\ head' = NewId /\ commits'[NewId].code = HeadCode /\ HeadCode' = HeadCode
        /\ Logged' = {NewId} \cup Logged /\ NewId # 0 /\ \A c \in CommitId : c < NewId
    BY <1>1, <1>2, <1>3, NewCommitLogs
  <1>6. status = "ready" /\ boot = "none"
    BY <1>1, <1>2 DEF Phases
  <1>7. MadeIsNew' /\ BootOrder'
    BY <1>1, <1>2, <1>5, <1>6 DEF MadeIsNew, BootOrder, TypeOK, DataOK
  <1>12. list'[1] = head'
    BY <1>1, <1>2, <1>5, PushNew
  <1>8. Foremost' /\ HeldByBoot' /\ HeldByRun'
    BY <1>1, <1>4, <1>6, <1>12 DEF Foremost, HeldByBoot, HeldByRun
  <1>9. ASSUME Whole, ~stopping PROVE point \in DOMAIN dumps /\ dumps[point].migs = HeadCode
    <2>1. head \in DOMAIN dumps /\ dumps[head].migs = HeadCode
      BY <1>2, <1>9, WholeFits
    <2>2. point = head
      BY <1>1, <1>2, <1>9 DEF HeldByRevert
    <2>3. QED
      BY <2>1, <2>2
  <1>10. HeldByRevert'
    BY <1>1, <1>4, <1>5, <1>9 DEF HeldByRevert
  <1>11. QED
    BY <1>4, <1>7, <1>8, <1>10 DEF HeldInv

\* A document checkpoint in the middle of anything
LEMMA HeldDocsCommit ==
  ASSUME FitInv, DocsCommit
  PROVE  HistInv' /\ HeldInv'
  <1>1. /\ NewCommit(HeadCode) /\ saved = 0 /\ saved' = NewId /\ tree'.code = tree.code
        /\ UNCHANGED <<list, status, stopping, op, point, made, touched, boot, from, newest, db,
                       stamp, dumps>>
    BY DEF DocsCommit, opVars, bootVars, dbVars
  <1>2. /\ TypeOK /\ Phases /\ HistInv /\ MadeIsNew /\ BootOrder /\ Foremost /\ HeldByRun
        /\ HeldByRevert /\ HeldByBoot /\ Attached /\ Unsaved
    BY DEF FitInv, HeldInv
  <1>3. /\ HeadCode \in SUBSET Migration /\ list[1] \in CommitId /\ newest \in CommitId
        /\ (made # 0 => made \in CommitId) /\ NewId \notin CommitId /\ NewId # 0
    BY <1>2, CommitFacts
  <1>4. /\ HistInv' /\ ~Whole' /\ head' \notin DOMAIN dumps'
        /\ made \in CommitId => BelowMade' = BelowMade
        /\ BelowNewest' = BelowNewest
    BY <1>1, <1>2, <1>3, NewCommitHist
  <1>5. /\ HeadCode' = HeadCode /\ Logged' = {NewId} \cup Logged /\ head' = NewId
        /\ commits'[NewId].code = HeadCode /\ NewId \notin DOMAIN dumps
        /\ \A c \in CommitId : commits'[c] = commits[c] /\ c < NewId
    BY <1>1, <1>2, <1>3, NewCommitLogs
  <1>7. op \in {"dump", "dumpDocs"} => made # 0
    BY <1>2 DEF Phases
  <1>8. MadeIsNew' /\ Foremost'
    BY <1>1, <1>2, <1>3, <1>4, <1>5 DEF MadeIsNew, Making, Foremost
  <1>13. BootOrder'
    BY <1>1, <1>2, <1>3, <1>5 DEF BootOrder
  <1>9. HeldByBoot'
    <2>1. from \in Logged => from \in CommitId
      BY <1>2, LoggedFacts
    <2>2. QED
      BY <1>1, <1>2, <1>3, <1>4, <1>5, <2>1 DEF HeldByBoot
  <1>10. HeldByRun'
    BY <1>1, <1>2, <1>3, <1>4, <1>5, <1>7 DEF HeldByRun
  <1>11. HeldByRevert'
    BY <1>1, <1>2, <1>3, <1>4, <1>5, <1>7 DEF HeldByRevert
  <1>12. QED
    BY <1>4, <1>8, <1>9, <1>10, <1>11, <1>13 DEF HeldInv

\* ... goes in front of the list, where something below HEAD has no dump: itself
LEMMA HeldDocsListed ==
  ASSUME FitInv, DocsListed
  PROVE  HistInv' /\ HeldInv'
  <1>1. /\ saved # 0 /\ saved' = 0 /\ list' = <<saved>> \o list
        /\ UNCHANGED <<commits, head, tree, status, stopping, op, point, made, touched, boot,
                       from, newest, db, stamp, dumps>>
    BY DEF DocsListed, opVars, bootVars, dbVars, git
  <1>2. /\ TypeOK /\ Phases /\ HistInv /\ MadeIsNew /\ BootOrder /\ Foremost /\ HeldByRun
        /\ HeldByRevert /\ HeldByBoot /\ Attached /\ Apart
    BY DEF FitInv, HeldInv
  <1>3. /\ saved \in Logged /\ saved \in CommitId /\ saved \notin DOMAIN dumps
        /\ head \in Logged
    BY <1>1, <1>2, CommitFacts DEF Attached, Apart, OfDocuments
  <1>4. Listed' = {saved} \cup Listed /\ list'[1] = saved
    BY <1>1, <1>2, <1>3, ListFront DEF TypeOK
  <1>5. /\ HistInv'
        /\ \A c : Log(c)' = Log(c)
        /\ Logged' = Logged /\ HeadCode' = HeadCode
    BY <1>1, <1>2, <1>3, <1>4, BackHist, SameLogs
  <1>6. ~Whole /\ ~Whole'
    BY <1>1, <1>3, <1>5 DEF Whole
  <1>7. BelowMade' = BelowMade /\ BelowNewest' = BelowNewest
    BY <1>1 DEF BelowMade, BelowNewest, Below, Log
  <1>8. Making /\ made = head => ~BelowMade
    <2>1. Making => saved # made
      BY <1>1, <1>2 DEF Apart
    <2>2. QED
      BY <1>3, <2>1 DEF BelowMade, Below, Logged
  <1>9. MadeIsNew' /\ Foremost'
    BY <1>1, <1>2, <1>5, <1>6, <1>7, <1>8 DEF MadeIsNew, Making, Foremost
  <1>10. BootOrder'
    <2>1. status \in {"idle", "starting"} => list[1] < saved
      BY <1>1, <1>2 DEF BootOrder
    <2>2. list[1] \in Nat /\ saved \in Nat /\ newest \in Nat /\ from \in Nat
      BY <1>2, <1>3, CommitFacts DEF CommitId, TypeOK, ControlOK
    <2>3. QED
      BY <1>1, <1>2, <1>4, <1>5, <2>1, <2>2 DEF BootOrder, Phases
  <1>11. HeldByBoot'
    BY <1>1, <1>2, <1>4, <1>5, <1>6, <1>7 DEF HeldByBoot
  <1>12. HeldByRun' /\ HeldByRevert'
    BY <1>1, <1>2, <1>5, <1>6, <1>7 DEF HeldByRun, HeldByRevert
  <1>13. QED
    BY <1>5, <1>9, <1>10, <1>11, <1>12 DEF HeldInv

\* The dump of what an operation made: nothing dumped is on top of it
LEMMA MadeFacts ==
  ASSUME FitInv, Making
  PROVE  /\ made \in Logged /\ made \in CommitId /\ made \notin DOMAIN dumps
         /\ \A c \in CommitId : made \in Log(c) /\ c # made => c \notin DOMAIN dumps
         /\ head # made => head \notin DOMAIN dumps
  <1>1. TypeOK /\ HistInv /\ MadeIsNew
    BY DEF FitInv, HeldInv
  <1>2. made \in Logged /\ \A c \in DOMAIN dumps : c < made
    BY <1>1 DEF MadeIsNew
  <1>3. /\ made \in CommitId /\ made <= head
        /\ Listed \cup Logged \subseteq CommitId /\ head \in Nat /\ made \in Nat
    BY <1>1, <1>2, LoggedFacts
  <1>4. \A c \in CommitId : c \in Nat /\ (made \in Log(c) => made <= c)
    BY <1>1, <1>3 DEF HistInv, Ancestors, CommitId
  <1>5. \A c \in CommitId : made <= c => c \notin DOMAIN dumps
    <2> SUFFICES ASSUME NEW c \in CommitId, made <= c, c \in DOMAIN dumps
                 PROVE  FALSE
      OBVIOUS
    <2>1. c < made /\ c \in Nat
      BY <1>2, <1>4
    <2>2. QED
      BY <1>3, <2>1
  <1>6. made \notin DOMAIN dumps /\ (head # made => head \notin DOMAIN dumps)
    BY <1>1, <1>3, <1>5, LoggedFacts
  <1>7. ASSUME NEW c \in CommitId, made \in Log(c)
        PROVE  c \notin DOMAIN dumps
    BY <1>3, <1>4, <1>5, <1>7
  <1>8. QED
    BY <1>2, <1>3, <1>6, <1>7

LEMMA HeldDump ==
  ASSUME FitInv, Dump
  PROVE  HistInv' /\ HeldInv'
  <1>1. /\ op = "dump" /\ ~stopping /\ SaveDatabases(made) /\ list' = <<made>> \o list
        /\ op' = "none"
        /\ UNCHANGED <<commits, head, status, stopping, boot, from, saved, tree, db, made>>
    BY DEF Dump, git, bootVars
  <1>2. TypeOK /\ Phases /\ HistInv /\ HeldByRun
    BY DEF FitInv, HeldInv
  <1>3. made # 0 /\ status = "ready" /\ boot = "none"
    BY <1>1, <1>2 DEF Phases
  <1>4. /\ made \in Logged /\ made \in CommitId /\ made \notin DOMAIN dumps
        /\ \A c \in CommitId : made \in Log(c) /\ c # made => c \notin DOMAIN dumps
        /\ head # made => head \notin DOMAIN dumps
    BY <1>1, <1>3, MadeFacts DEF Making
  <1>5. Listed' = {made} \cup Listed /\ list'[1] = made
    BY <1>1, <1>2, <1>4, ListFront DEF TypeOK
  <1>7. Below(made) => db.migs = commits[made].code
    BY <1>1, <1>2 DEF HeldByRun, BelowMade
  <1>8. /\ HistInv'
        /\ dumps' = dumps \/ (DOMAIN dumps' = DOMAIN dumps \cup {made} /\ dumps'[made] = db)
    BY <1>1, <1>2, <1>4, <1>5, <1>7, SaveHist
  <1>9. /\ Logged' = Logged /\ HeadCode' = HeadCode
    BY <1>1, SameLogs
  <1>10. Whole' => head = made /\ dumps'[head] = db
    <2>1. Whole' => head \in DOMAIN dumps'
      BY <1>2, <1>9, LoggedFacts DEF Whole
    <2>2. QED
      BY <1>4, <1>8, <2>1
  <1>12. MadeIsNew' /\ BootOrder' /\ HeldByBoot' /\ HeldByRevert'
    BY <1>1, <1>3 DEF MadeIsNew, Making, BootOrder, HeldByBoot, HeldByRevert
  <1>13. Foremost' /\ HeldByRun'
    BY <1>1, <1>3, <1>5, <1>10 DEF Foremost, HeldByRun
  <1>15. QED
    BY <1>8, <1>12, <1>13 DEF HeldInv

LEMMA HeldDumpDocs ==
  ASSUME FitInv, DumpDocs
  PROVE  HistInv' /\ HeldInv'
  <1>1. /\ op = "dumpDocs" /\ ~stopping /\ SaveDatabases(made) /\ op' = "restart"
        /\ UNCHANGED <<commits, head, list, saved, status, stopping, boot, from, tree, db, made,
                       point>>
    BY DEF DumpDocs, git, bootVars
  <1>2. TypeOK /\ Phases /\ HistInv /\ HeldByRevert /\ Foremost
    BY DEF FitInv, HeldInv
  <1>3. made # 0 /\ status = "ready" /\ boot = "none"
    BY <1>1, <1>2 DEF Phases
  <1>4. /\ made \in Logged /\ made \in CommitId /\ made \notin DOMAIN dumps
        /\ \A c \in CommitId : made \in Log(c) /\ c # made => c \notin DOMAIN dumps
        /\ head # made => head \notin DOMAIN dumps
    BY <1>1, <1>3, MadeFacts DEF Making
  <1>5. Listed' = Listed
    BY <1>1 DEF Listed
  <1>6. Below(made) => db.migs = commits[made].code
    BY <1>1, <1>2 DEF HeldByRevert, BelowMade
  <1>7. /\ HistInv'
        /\ dumps' = dumps \/ (DOMAIN dumps' = DOMAIN dumps \cup {made} /\ dumps'[made] = db)
    BY <1>1, <1>2, <1>4, <1>5, <1>6, SaveHist
  <1>8. /\ Logged' = Logged /\ HeadCode' = HeadCode
    BY <1>1, SameLogs
  <1>9. Whole' => head = made /\ dumps'[head] = db /\ BelowMade
    <2>1. Whole' => head \in DOMAIN dumps'
      BY <1>2, <1>8, LoggedFacts DEF Whole
    <2>2. Whole' => head = made /\ DOMAIN dumps' = DOMAIN dumps \cup {made} /\ dumps'[made] = db
      BY <1>4, <1>7, <2>1
    <2>3. QED
      BY <1>8, <2>2 DEF Whole, BelowMade, Below, Logged
  <1>10. MadeIsNew' /\ BootOrder' /\ HeldByBoot' /\ HeldByRun'
    BY <1>1, <1>3 DEF MadeIsNew, Making, BootOrder, HeldByBoot, HeldByRun
  <1>12. Foremost'
    BY <1>1, <1>2, <1>3, <1>9 DEF Foremost
  <1>13. HeldByRevert'
    BY <1>1, <1>2, <1>8, <1>9 DEF HeldByRevert
  <1>14. QED
    BY <1>7, <1>10, <1>12, <1>13 DEF HeldInv

\* The boot's dump is of HEAD's newest listed checkpoint, and no older than any
LEMMA HeldBootSave ==
  ASSUME FitInv, BootSave
  PROVE  HistInv' /\ HeldInv'
  <1>1. /\ boot = "save" /\ ~stopping /\ SaveDatabases(newest)
        /\ \/ status' = "ready" /\ boot' = "none"
           \/ status' = status /\ boot' = "restart"
        /\ UNCHANGED <<commits, head, list, saved, stopping, op, point, made, touched, from,
                       newest, tree, db>>
    BY DEF BootSave, git, opVars
  <1>2. /\ TypeOK /\ Phases /\ HistInv /\ Attached /\ Unsaved /\ Foremost /\ HeldByBoot
        /\ BootOrder
    BY DEF FitInv, HeldInv
  <1>3. /\ status = "starting" /\ op \in {"none", "agent"} /\ newest \notin DOMAIN dumps
        /\ tree.code = HeadCode /\ commits[newest].code = HeadCode
        /\ newest \in Logged /\ Listed \subseteq Logged /\ from <= newest /\ newest <= list[1]
        /\ \A c \in Logged \cap DOMAIN dumps : c <= from
    BY <1>1, <1>2 DEF Phases, Foremost, Unsaved, HeldByBoot, Attached, BootOrder
  <1>4. /\ head \in Logged /\ newest \in CommitId /\ list[1] \in Logged /\ Listed' = Listed
        /\ head \in Nat /\ newest \in Nat /\ from \in Nat /\ list[1] \in Nat
        /\ newest <= head /\ list[1] <= head
    BY <1>1, <1>2, <1>3, LoggedFacts DEF Listed, TypeOK, ControlOK
  <1>5. \A c \in CommitId : Reached(c) /\ newest \in Log(c) /\ c # newest => c \notin DOMAIN dumps
    <2> SUFFICES ASSUME NEW c \in CommitId, Reached(c), newest \in Log(c), c \in DOMAIN dumps
                 PROVE  c = newest
      OBVIOUS
    <2>1. c \in Logged
      BY <1>2, <1>3, LoggedFacts DEF Reached
    <2>2. c <= from /\ newest <= c /\ c \in Nat
      BY <1>2, <1>3, <2>1, LoggedFacts DEF HistInv, Ancestors
    <2>3. QED
      BY <1>3, <1>4, <2>2
  <1>6. BelowNewest => db.migs = HeadCode
    BY <1>1, <1>2 DEF HeldByBoot
  <1>7. Below(newest) => db.migs = commits[newest].code
    BY <1>3, <1>6 DEF BelowNewest
  <1>8. /\ HistInv'
        /\ dumps' = dumps \/ (DOMAIN dumps' = DOMAIN dumps \cup {newest} /\ dumps'[newest] = db)
    BY <1>1, <1>2, <1>3, <1>4, <1>5, <1>7, SaveHist
  <1>9. /\ Logged' = Logged /\ HeadCode' = HeadCode
    BY <1>1, SameLogs
  <1>10. ASSUME Whole'
         PROVE  head = newest /\ list[1] = head /\ db = dumps'[head] /\ db.migs = HeadCode
    <2>1. head \in DOMAIN dumps'
      BY <1>4, <1>9, <1>10 DEF Whole
    <2>2. head \notin DOMAIN dumps
      <3>1. head \in DOMAIN dumps => head <= from
        BY <1>3, <1>4
      <3>2. head \in DOMAIN dumps => head = newest
        BY <1>3, <1>4, <3>1
      <3>3. QED
        BY <1>3, <3>2
    <2>3. head = newest /\ db = dumps'[head] /\ DOMAIN dumps' = DOMAIN dumps \cup {newest}
      BY <1>8, <2>1, <2>2
    <2>4. list[1] = head
      BY <1>3, <1>4, <2>3
    <2>5. BelowNewest
      BY <1>9, <1>10, <2>3 DEF Whole, BelowNewest, Below, Logged
    <2>6. QED
      BY <1>6, <2>3, <2>4, <2>5
  <1>11. MadeIsNew' /\ HeldByRevert' /\ Foremost' /\ BootOrder'
    BY <1>1, <1>2, <1>3, <1>9, <1>10
       DEF MadeIsNew, Making, HeldByRevert, Foremost, BootOrder
  <1>12. HeldByRun'
    BY <1>1, <1>3, <1>9, <1>10 DEF HeldByRun
  <1>14. HeldByBoot'
    BY <1>1, <1>2, <1>3, <1>9, <1>10 DEF HeldByBoot
  <1>13. QED
    BY <1>8, <1>11, <1>12, <1>14 DEF HeldInv

\* A restore's files go back to a listed checkpoint
LEMMA HeldReset ==
  ASSUME FitInv, Reset
  PROVE  HistInv' /\ HeldInv'
  <1>1. /\ op = "reset" /\ op' = "restoreTo" /\ head' = point
        /\ tree' = [code |-> commits[point].code, docs |-> FALSE]
        /\ UNCHANGED <<commits, list, dumps, status, boot, point>>
    BY DEF Reset, bootVars, dbVars
  <1>2. TypeOK /\ Phases /\ HistInv /\ Attached
    BY DEF FitInv, HeldInv
  <1>3. status = "ready" /\ boot = "none" /\ point \in Listed /\ Listed' = Listed
    BY <1>1, <1>2 DEF Phases, Attached, Listed
  <1>4. HistInv'
    BY <1>1, <1>2, <1>3, BackHist
  <1>5. HeadCode' = tree'.code
    BY <1>1 DEF HeadCode
  <1>6. MadeIsNew' /\ BootOrder' /\ Foremost' /\ HeldByRun' /\ HeldByBoot' /\ HeldByRevert'
    BY <1>1, <1>3, <1>5
       DEF MadeIsNew, Making, BootOrder, Foremost, HeldByRun, HeldByBoot, HeldByRevert
  <1>7. QED
    BY <1>4, <1>6 DEF HeldInv

\* ... and in the end the list is the log that was read: of HEAD, unless a
\* document checkpoint came in between, which has no dump
LEMMA HeldListTo ==
  ASSUME FitInv, ListTo
  PROVE  HistInv' /\ HeldInv'
  <1>1. /\ op = "listTo" /\ op' = "none" /\ list' = commits[point].log
        /\ UNCHANGED <<commits, head, tree, dumps, db, status, stopping, boot>>
    BY DEF ListTo, git, bootVars, dbVars
  <1>2. TypeOK /\ Phases /\ HistInv /\ Attached /\ Foremost /\ HeldByRevert
    BY DEF FitInv, HeldInv
  <1>3. /\ status = "ready" /\ boot = "none" /\ head \in Logged /\ point \in CommitId
        /\ Log(point) \subseteq Logged
    BY <1>1, <1>2, LoggedFacts DEF Phases, Attached
  <1>4. HistInv'
    <2>1. Listed' = Log(point)
      BY <1>1 DEF Listed, Log
    <2>2. QED
      BY <1>1, <1>2, <1>3, <2>1, BackHist
  <1>5. Logged' = Logged /\ HeadCode' = HeadCode
    BY <1>1, SameLogs
  <1>6. list'[1] = point
    BY <1>1, <1>2, <1>3 DEF TypeOK, HistoryOK
  <1>7. ~stopping /\ Whole' => point = head /\ db = dumps[head]
    BY <1>1, <1>2, <1>5 DEF Whole, Foremost, HeldByRevert
  <1>8. MadeIsNew' /\ BootOrder' /\ Foremost' /\ HeldByRun' /\ HeldByBoot' /\ HeldByRevert'
    BY <1>1, <1>3, <1>6, <1>7
       DEF MadeIsNew, Making, BootOrder, Foremost, HeldByRun, HeldByBoot, HeldByRevert
  <1>9. QED
    BY <1>4, <1>8 DEF HeldInv

\* A stop cuts a dump short, and the checkpoint still reaches the list
LEMMA HeldAborted ==
  ASSUME FitInv, OpAborted, op = "dump", list' = <<made>> \o list
  PROVE  HistInv' /\ HeldInv'
  <1>1. /\ stopping' /\ op' = "none"
        /\ UNCHANGED <<commits, head, dumps, status, boot, tree>>
    BY DEF OpAborted, git, bootVars, dbVars
  <1>2. TypeOK /\ Phases /\ HistInv
    BY DEF FitInv, HeldInv
  <1>3. made # 0 /\ status = "ready" /\ boot = "none"
    BY <1>2 DEF Phases
  <1>4. made \in CommitId /\ made \in Logged /\ head \in Logged
    BY <1>2, <1>3, MadeFacts, LoggedFacts DEF Making
  <1>5. Listed' = {made} \cup Listed
    BY <1>2, <1>4, ListFront DEF TypeOK
  <1>6. HistInv'
    BY <1>1, <1>2, <1>4, <1>5, BackHist
  <1>7. MadeIsNew' /\ BootOrder' /\ Foremost' /\ HeldByRun' /\ HeldByBoot' /\ HeldByRevert'
    BY <1>1, <1>3
       DEF MadeIsNew, Making, BootOrder, Foremost, HeldByRun, HeldByBoot, HeldByRevert
  <1>8. QED
    BY <1>6, <1>7 DEF HeldInv

\* A resumed session: its documents are a checkpoint of the same code
LEMMA HeldResume ==
  ASSUME SessionAssumption, FitInv, ResumeSession
  PROVE  HistInv' /\ HeldInv'
  <1>1. /\ status = "stopped" /\ list' = commits'[head'].log
        /\ IF tree.docs THEN NewCommit(HeadCode) ELSE UNCHANGED <<commits, head>>
        /\ tree' = [code |-> HeadCode, docs |-> FALSE]
        /\ status' = "starting" /\ boot' = "start" /\ from' = head /\ saved' = 0
        /\ UNCHANGED <<op, point, made, dumps>>
    BY DEF ResumeSession, git, opVars, dbVars
  <1>2. TypeOK /\ Phases /\ HistInv
    BY DEF FitInv, HeldInv
  <1>3. op \in {"none", "agent"} /\ head \in Logged /\ head \in CommitId /\ head \in Nat
        /\ \A c \in Logged : c <= head
    BY <1>1, <1>2, LoggedFacts DEF Phases
  <1>4. /\ HistInv' /\ HeadCode' = HeadCode /\ head <= head'
        /\ head \in Logged' /\ commits'[head] = commits[head]
        /\ \A c \in Logged' \cap DOMAIN dumps : c \in Logged
    <2>1. CASE tree.docs
      <3>1. NewCommit(HeadCode) /\ HeadCode \in SUBSET Migration
        BY <1>1, <1>2, <2>1, CommitFacts
      <3>2. /\ HeadCode' = HeadCode /\ Logged' = {NewId} \cup Logged /\ head' = NewId
            /\ NewId \notin DOMAIN dumps
            /\ \A c \in CommitId : commits'[c] = commits[c] /\ c < NewId
        BY <1>2, <3>1, NewCommitLogs
      <3>3. HistInv'
        BY <1>1, <1>2, <3>1, NewCommitHist
      <3>4. head <= head'
        <4>1. NewId \in Nat
          BY <1>2 DEF NewId, TypeOK, HistoryOK
        <4>2. QED
          BY <1>3, <3>2, <4>1
      <3>5. QED
        BY <1>3, <3>2, <3>3, <3>4
    <2>2. CASE ~tree.docs
      <3>1. UNCHANGED <<commits, head>> /\ Logged' = Logged /\ HeadCode' = HeadCode
        BY <1>1, <2>2, SameLogs
      <3>2. Listed' = Logged'
        BY <1>1 DEF Listed, Logged, Log
      <3>3. HistInv'
        BY <1>1, <1>2, <1>3, <3>1, <3>2, BackHist
      <3>4. QED
        BY <1>3, <3>1, <3>3
    <2>3. QED
      BY <2>1, <2>2
  <1>5. list'[1] = head'
    <2>1. HistoryOK'
      BY <1>2, TypeStep DEF TypeOK, Next
    <2>2. QED
      BY <1>1, <2>1 DEF HistoryOK
  <1>6. /\ commits'[from'].code = HeadCode' /\ tree'.code = HeadCode'
        /\ commits'[list'[1]].code = HeadCode'
    BY <1>1, <1>4, <1>5 DEF HeadCode
  <1>7. MadeIsNew' /\ BootOrder' /\ Foremost' /\ HeldByRun' /\ HeldByBoot' /\ HeldByRevert'
    BY <1>1, <1>3, <1>4, <1>5, <1>6
       DEF MadeIsNew, Making, BootOrder, Foremost, HeldByRun, HeldByBoot, HeldByRevert
  <1>8. QED
    BY <1>4, <1>7 DEF HeldInv

\* Every step
LEMMA HeldStep ==
  ASSUME SessionAssumption, Repairable, FitInv, [Next]_vars
  PROVE  HistInv' /\ HeldInv'
  <1>1. CASE EnsureBooted \/ Boot
    BY <1>1, HeldBootSteps, HeldBootSave DEF Boot
  <1>2. CASE \/ SendMessage \/ AgentWrites \/ AgentRestarts \/ AgentWritesRows
             \/ RunDone \/ RunFailed \/ RunKept
    BY <1>2, HeldRunSteps
  <1>3. CASE SaveCheckpoint
    BY <1>3, HeldRunSteps, HeldCommit, HeldDump DEF SaveCheckpoint
  <1>4. CASE RevertRun
    BY <1>4, HeldRevertSteps, HeldDiscard, HeldDumpDocs DEF RevertRun
  <1>5. CASE RestoreCheckpoint \/ Restore
    BY <1>5, HeldRevertSteps, HeldReset, HeldListTo DEF Restore
  <1>6. CASE DocsSave
    BY <1>6, HeldDocsCommit, HeldDocsListed DEF DocsSave
  <1>7. CASE OpAborted
    <2>1. UNCHANGED list \/ (op = "dump" /\ list' = <<made>> \o list)
      BY <1>7 DEF OpAborted
    <2>2. QED
      BY <1>7, <2>1, HeldStopSteps, HeldAborted
  <1>8. CASE StopSession \/ StopDone \/ Crash
    BY <1>8, HeldStopSteps
  <1>9. CASE ResumeSession
    BY <1>9, HeldResume
  <1>10. CASE UNCHANGED vars
    <2>1. UNCHANGED <<commits, head, list, saved, dumps, status, stopping, op, boot, from,
                      newest, tree, touched, db, point, made>>
      BY <1>10 DEF vars, git, opVars, bootVars, dbVars
    <2>2. /\ HistInv' /\ Whole' = Whole /\ Listed' = Listed /\ Logged' = Logged
          /\ HeadCode' = HeadCode /\ BelowNewest' = BelowNewest /\ BelowMade' = BelowMade
      BY <2>1, FrameHist DEF FitInv
    <2>3. Clean' = Clean
      BY <2>1, <2>2 DEF Clean
    <2>4. MadeIsNew' /\ BootOrder' /\ Foremost'
      BY <2>1, <2>2 DEF FitInv, HeldInv, MadeIsNew, Making, BootOrder, Foremost
    <2>6. HeldByRun' /\ HeldByBoot' /\ HeldByRevert'
      BY <2>1, <2>2, <2>3 DEF FitInv, HeldInv, HeldByRun, HeldByBoot, HeldByRevert
    <2>5. QED
      BY <2>2, <2>4, <2>6 DEF HeldInv
  <1>11. QED
    BY <1>1, <1>2, <1>3, <1>4, <1>5, <1>6, <1>7, <1>8, <1>9, <1>10 DEF Next

LEMMA InitFit ==
  ASSUME SessionAssumption, Init
  PROVE  FitInv
  <1>1. PICK code \in SUBSET Migration :
          /\ commits = <<[code |-> code, log |-> <<1>>]>>
          /\ tree = [code |-> code, docs |-> FALSE]
    BY DEF Init
  <1>2. /\ head = 1 /\ list = <<1>> /\ from = 0 /\ made = 0 /\ op = "none" /\ saved = 0
        /\ DOMAIN dumps = {} /\ status \in {"idle", "starting"} /\ boot \in {"none", "start"}
    BY DEF Init
  <1>3. commits[1] = [code |-> code, log |-> <<1>>] /\ Len(commits) = 1
    BY <1>1
  <1>4. CommitId = {1} /\ Log(1) = {1} /\ Logged = {1} /\ Listed = {1} /\ HeadCode = tree.code
    BY <1>1, <1>2, <1>3 DEF CommitId, Log, Logged, Listed, HeadCode
  <1>5. TypeOK /\ Phases
    BY InitType
  <1>6. Unsaved /\ Apart /\ Attached
    BY <1>2, InitLists DEF Init, Unsaved, Making
  <1>7. HistInv
    BY <1>2, <1>4 DEF HistInv, Ancestors, Fits
  <1>10. commits[list[1]].code = HeadCode
    BY <1>2 DEF HeadCode
  <1>8. HeldInv
    BY <1>2, <1>4, <1>10
       DEF HeldInv, MadeIsNew, Making, BootOrder, Foremost, HeldByRun, HeldByBoot, HeldByRevert,
           Whole
  <1>9. QED
    BY <1>5, <1>6, <1>7, <1>8 DEF FitInv

LEMMA FitStep ==
  ASSUME SessionAssumption, Repairable, FitInv, [Next]_vars
  PROVE  FitInv'
  <1>1. TypeOK' /\ Phases' /\ Apart' /\ Attached'
    BY TypeStep, PhasesStep, ApartStep, AttachedStep DEF FitInv, Repairable
  <1>2. HistInv' /\ HeldInv'
    BY HeldStep
  <1>3. Unsaved'
    <2>1. "boot" \notin Faults
      BY DEF Repairable
    <2>2. QED
      BY <2>1, UnsavedAlways DEF FitInv
  <1>4. QED
    BY <1>1, <1>2, <1>3 DEF FitInv

LEMMA FitForever ==
  ASSUME Repairable
  PROVE  Spec => []FitInv
  <1>1. Init => FitInv
    BY InitFit, SessionAssumption
  <1>2. FitInv /\ [Next]_vars => FitInv'
    BY FitStep, SessionAssumption
  <1>3. QED
    BY <1>1, <1>2, PTL DEF Spec

\* When boots and loads of dumps do not fail, only a booted session is written
\* to, no change is kept that the next run would not verify and no restore takes a
\* document checkpoint out of the history before it is listed, a settled
\* session's database is the one kept for HEAD, whatever runs failed, were
\* stopped, crashed or met a document save (SettledIsCheckpoint,
\* sessions.ts:3149-3157).  A failing load, a terminal that writes into an
\* unbooted session, a kept change that was undone and a document checkpoint
\* overtaken by a restore each break it or the next theorem, as the hazards say;
\* boots must not fail for the dumps to be kept.
THEOREM SessionSettledIsCheckpoint ==
  ASSUME Repairable
  PROVE  Spec => []SettledIsCheckpoint
  <1>1. FitInv => SettledIsCheckpoint
    <2> SUFFICES ASSUME FitInv, Settled, Clean, Dumped(head) PROVE db = dumps[head]
      BY DEF SettledIsCheckpoint
    <2>1. status = "ready" /\ ~running /\ ~stopping /\ op = "none"
      BY DEF Settled, FitInv, Phases
    <2>2. Whole
      BY DEF Dumped, Whole, Logged
    <2>3. QED
      BY <2>1, <2>2 DEF FitInv, HeldInv, HeldByRun
  <1>2. QED
    BY <1>1, FitForever, PTL

\* Under the same premises the database kept for a checkpoint has no migration
\* that the checkpoint's files lack, so going back to any checkpoint leaves
\* services that can start (DumpFitsCode, database-branches.ts:21-23).
THEOREM SessionDumpFitsCode ==
  ASSUME Repairable
  PROVE  Spec => []DumpFitsCode
  <1>1. FitInv => DumpFitsCode
    <2> SUFFICES ASSUME FitInv, NEW c \in Listed, Dumped(c)
                 PROVE  dumps[c].migs \subseteq commits[c].code
      BY DEF DumpFitsCode
    <2>1. c \in CommitId /\ c \in Log(c)
      BY LoggedFacts DEF FitInv, HistInv, Ancestors
    <2>2. Log(c) \subseteq DOMAIN dumps
      BY DEF Dumped
    <2>3. QED
      BY <2>1, <2>2 DEF FitInv, HistInv, Fits, Reached
  <1>2. QED
    BY <1>1, FitForever, PTL

=============================================================================
