----------------------------- MODULE DeployLock -----------------------------
(***************************************************************************)
(* DockerDeployer.#locked (packages/sandbox/src/docker/deploy.ts): the     *)
(* file deploy.lock that keeps two processes, the studio and the command   *)
(* line, from deploying one project at the same time.                      *)
(*                                                                         *)
(* The file is created empty and its owner's number is written into it     *)
(* afterwards; a process that finds the file reads it, and takes it over   *)
(* when no living process is named in it.  Every one of these is a system  *)
(* call of its own; any process may die between two of them, and any other *)
(* may be anywhere in its own request then.                                *)
(***************************************************************************)
EXTENDS Naturals, FiniteSets

CONSTANTS
  Proc,      \* processes that deploy this project
  Races      \* which of two moments another process may hit

\* "unwritten": the file is read when its number is not in it yet.  "replaced":
\* the file is created anew between another one's reading and unlinking it.
ASSUME RacesAssumption == Races \subseteq {"unwritten", "replaced"}

VARIABLES
  lock,   \* deploy.lock: who created it, and whether it has a number in it
  at      \* where in #locked each process is

lockVars == <<lock, at>>

Dead == "dead"     \* the number of a process that is no more
NoLock == [by |-> "none", written |-> FALSE]
ASSUME ProcAssumption == {Dead, "none"} \cap Proc = {}

Places == {"out", "open", "read", "unlink", "reopen", "write", "held"}
Asking(p) == at[p] \in Places \ {"out", "held"}

LockTypeOK ==
  /\ lock \in [by : Proc \cup {Dead, "none"}, written : BOOLEAN]
  /\ at \in [Proc -> Places]

LockInit == lock = NoLock /\ at = [p \in Proc |-> "out"]

-----------------------------------------------------------------------------

Goto(p, place) == at' = [at EXCEPT ![p] = place]

Ask(p) ==
  /\ at[p] = "out"
  /\ Goto(p, "open")
  /\ UNCHANGED lock

\* open(lock, "wx"): only one process can create the file.
Open(p) ==
  /\ at[p] \in {"open", "reopen"} /\ lock = NoLock
  /\ "replaced" \in Races \/ \A q \in Proc : at[q] # "unlink"
  /\ lock' = [by |-> p, written |-> FALSE]
  /\ Goto(p, "write")

\* The file is there: the first time it is looked at, the second time the
\* request fails.
Exists(p) ==
  /\ at[p] \in {"open", "reopen"} /\ lock # NoLock
  /\ Goto(p, IF at[p] = "open" THEN "read" ELSE "out")
  /\ UNCHANGED lock

\* Mutant of Owned: whether the process named in the file lives is not asked.
OwnedByNobody == FALSE

\* A number is in the file, and a process with that number lives.
Owned == lock.written /\ lock.by # Dead

\* A file that is no more names nobody either.
Read(p) ==
  /\ at[p] = "read"
  /\ "unwritten" \in Races \/ \A q \in Proc : at[q] # "write"
  /\ Goto(p, IF Owned THEN "out" ELSE "unlink")
  /\ UNCHANGED lock

\* Whichever file has this name now.
Unlink(p) ==
  /\ at[p] = "unlink"
  /\ lock' = NoLock
  /\ Goto(p, "reopen")

\* The number goes into the file that was opened, which need no longer be
\* the one that has this name.
Write(p) ==
  /\ at[p] = "write"
  /\ lock' = [lock EXCEPT !.written = @ \/ lock.by = p]
  /\ Goto(p, "held")

\* finally: whichever file has this name now.
Unlock(p) ==
  /\ at[p] = "held"
  /\ lock' = NoLock
  /\ Goto(p, "out")

\* The process ends without its finally: its number names nobody any more.
Die(p) ==
  /\ at[p] # "out"
  /\ lock' = [lock EXCEPT !.by = IF @ = p THEN Dead ELSE @]
  /\ Goto(p, "out")

Acquire(p) == Open(p) \/ Exists(p) \/ Read(p) \/ Unlink(p) \/ Write(p)

LockNext == \E p \in Proc : Ask(p) \/ Acquire(p) \/ Unlock(p) \/ Die(p)

LockSpec == LockInit /\ [][LockNext]_lockVars

-----------------------------------------------------------------------------

\* No two processes deploy one project at the same time, whoever died with
\* the lock in his hands: "같은 프로젝트를 두 곳에서 동시에 배포하지 않게 한다"
\* (deploy.ts:480).
MutualExclusion == \A p, q \in Proc : at[p] = "held" /\ at[q] = "held" => p = q
=============================================================================
