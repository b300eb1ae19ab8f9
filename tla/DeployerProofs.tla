--------------------------- MODULE DeployerProofs ---------------------------
(***************************************************************************)
(* The deployer for any number of processes, releases and records kept:    *)
(* one operation at a time, a record that is well formed, and a public     *)
(* address that stays on a release that runs.                              *)
(*                                                                         *)
(* The argument follows the release that an operation works on.  Until the *)
(* switch it is fresh, so nothing points to it; after the switch it is     *)
(* either what the address points to, and then it is recorded, or the      *)
(* address has been put back, and only then may it be taken down.          *)
(*                                                                         *)
(* The lock needs none of this: that never two deploy, and that a request  *)
(* is over after so many steps of its own, holds whatever fails, for any   *)
(* number of processes that ask for it, take it over and die at the same   *)
(* time, unless one hits one of the two moments of Races.  That the record *)
(* is well formed needs not even that.                                     *)
(***************************************************************************)
EXTENDS Deployer, TLAPS

\* No process reads the lock file before its number is in it, and none creates
\* it anew between another one's reading and unlinking it.
Unraced == Races = {}

\* No command takes effect after its failure, the state can be written, docker
\* can be started to take a release down, and the proxy does not restart between
\* failing commands.
Assumed ==
  \A F \in FaultSets : /\ F \cap {"cancel", "write", "spawn"} = {}
                       /\ ~("docker" \in F /\ "restart" \in F)

-----------------------------------------------------------------------------
(* The lock.                                                               *)

LInv ==
  /\ LockTypeOK
  /\ \A p \in Proc : at[p] = "held" => lock = [by |-> p, written |-> TRUE]
  /\ \A p \in Proc : at[p] = "write" => lock = [by |-> p, written |-> FALSE]
  /\ \A p \in Proc : at[p] = "unlink" => lock.by \notin Proc
  /\ \A p \in Proc : lock.by = p => at[p] \in {"write", "held"}
  /\ lock.by = "none" => lock = NoLock

LEMMA LockInitInv == LockInit => LInv
BY ProcAssumption DEF LockInit, LInv, LockTypeOK, Places, NoLock, Asking, Dead

LEMMA LockAskInv == ASSUME LInv, NEW p \in Proc, Ask(p) PROVE LInv'
BY ProcAssumption DEF LInv, Ask, Goto, LockTypeOK, Places, NoLock, Dead

LEMMA LockOpenInv == ASSUME LInv, Unraced, NEW p \in Proc, Open(p) PROVE LInv'
BY ProcAssumption DEF LInv, Unraced, Open, Goto, LockTypeOK, Places, NoLock, Dead

LEMMA LockExistsInv == ASSUME LInv, NEW p \in Proc, Exists(p) PROVE LInv'
BY ProcAssumption DEF LInv, Exists, Goto, LockTypeOK, Places, NoLock, Dead

LEMMA LockReadInv == ASSUME LInv, Unraced, NEW p \in Proc, Read(p) PROVE LInv'
BY ProcAssumption DEF LInv, Unraced, Read, Goto, LockTypeOK, Places, NoLock, Dead, Owned

LEMMA LockUnlinkInv == ASSUME LInv, NEW p \in Proc, Unlink(p) PROVE LInv'
BY ProcAssumption DEF LInv, Unlink, Goto, LockTypeOK, Places, NoLock, Dead

LEMMA LockWriteInv == ASSUME LInv, NEW p \in Proc, Write(p) PROVE LInv'
<1>1. lock = [by |-> p, written |-> FALSE] /\ at' = [at EXCEPT ![p] = "held"] /\ at[p] = "write"
  BY DEF LInv, Write, Goto
<1>2. lock' = [by |-> p, written |-> TRUE]
  <2>1. lock' = [lock EXCEPT !.written = lock.written \/ lock.by = p]
    BY DEF Write
  <2>2. (lock.written \/ lock.by = p) = TRUE
    BY <1>1
  <2> QED
    BY <1>1, <2>1, <2>2
<1> QED
  BY <1>1, <1>2, ProcAssumption DEF LInv, LockTypeOK, Places, NoLock, Dead

LEMMA LockUnlockInv == ASSUME LInv, NEW p \in Proc, Unlock(p) PROVE LInv'
BY ProcAssumption DEF LInv, Unlock, Goto, LockTypeOK, Places, NoLock, Dead

LEMMA LockDieInv == ASSUME LInv, NEW p \in Proc, Die(p) PROVE LInv'
<1>1. at' = [at EXCEPT ![p] = "out"] /\ LockTypeOK' /\ p \notin {Dead, "none"}
  BY ProcAssumption DEF LInv, Die, Goto, LockTypeOK, Places
<1>2. CASE lock.by = p
  <2>1. lock' = [by |-> Dead, written |-> lock.written]
    BY <1>2 DEF Die, LInv, LockTypeOK
  <2>2. \A q \in Proc : at'[q] \notin {"held", "write"}
    BY <1>1, <1>2 DEF LInv, LockTypeOK, NoLock
  <2> QED
    BY <1>1, <1>2, <2>1, <2>2, ProcAssumption DEF LInv, LockTypeOK, NoLock, Dead
<1>3. CASE lock.by # p
  <2>1. lock' = lock
    BY <1>3 DEF Die, LInv, LockTypeOK
  <2> QED
    BY <1>1, <1>3, <2>1 DEF LInv, LockTypeOK
<1> QED
  BY <1>2, <1>3

\* The lock keeps its invariant in every step of its own.
LEMMA LockStepInv ==
  ASSUME LInv, Unraced, NEW p \in Proc, Ask(p) \/ Acquire(p) \/ Unlock(p) \/ Die(p)
  PROVE  LInv'
BY LockAskInv, LockOpenInv, LockExistsInv, LockReadInv, LockUnlinkInv, LockWriteInv,
   LockUnlockInv, LockDieInv DEF Acquire

LEMMA LockStutterInv == ASSUME LInv, UNCHANGED lockVars PROVE LInv'
BY DEF LInv, lockVars, LockTypeOK

-----------------------------------------------------------------------------
(* The list of releases.                                                   *)

Recorded(state) == \A r \in Release : state.place[r] = 0 <=> state.status[r] = "none"
ActiveListed(state) == state.active # None => state.place[state.active] # 0

LEMMA MovedUpFacts ==
  ASSUME NEW place \in [Release -> Nat], NEW r \in Release
  PROVE  /\ MovedUp(place, r) \in [Release -> Nat]
         /\ \A x \in Release : MovedUp(place, r)[x] = 0 <=> x # r /\ place[x] = 0
BY ReleasesAssumption DEF MovedUp, Release

LEMMA TrimmedFacts ==
  ASSUME NEW place \in [Release -> Nat], NEW active \in Release \cup {None}
  PROVE  /\ Trimmed(place, active) \in [Release -> Nat]
         /\ \A x \in Release : Trimmed(place, active)[x] # 0 => place[x] # 0
         /\ active # None /\ place[active] # 0 => Trimmed(place, active)[active] # 0
<1> DEFINE late == active # None /\ place[active] > MaxRecords
           kept == IF late THEN MaxRecords - 1 ELSE MaxRecords
<1>1. MaxRecords \in Nat /\ MaxRecords # 0 /\ kept \in Nat
  BY RecordsAssumption
<1>2. CASE late
  BY <1>1, <1>2, ReleasesAssumption DEF Trimmed, Release, None
<1>3. CASE ~late
  BY <1>1, <1>3, ReleasesAssumption DEF Trimmed, Release, None
<1> QED
  BY <1>2, <1>3

\* What is put on the list has a record, and so does the active release.
LEMMA ListedFacts ==
  ASSUME NEW state \in State, NEW r \in Release, NEW active \in Release \cup {None},
         \A x \in Release : x # r => (state.place[x] = 0 <=> state.status[x] = "none"),
         state.status[r] # "none",
         active \in Release => active = r \/ state.place[active] # 0
  PROVE  /\ Listed(state, r, active) \in State
         /\ Recorded(Listed(state, r, active))
         /\ Listed(state, r, active).active = active
         /\ ActiveListed(Listed(state, r, active))
<1> DEFINE moved == MovedUp(state.place, r)
           place == Trimmed(moved, active)
<1>1. /\ state.place \in [Release -> Nat] /\ state.status \in [Release -> Status]
      /\ Listed(state, r, active) =
           [active |-> active, place |-> place,
            status |-> [x \in Release |-> IF place[x] = 0 THEN "none" ELSE state.status[x]]]
  BY DEF State, Listed
<1>2. moved \in [Release -> Nat] /\ \A x \in Release : moved[x] = 0 <=> x # r /\ state.place[x] = 0
  BY <1>1, MovedUpFacts
<1>3. /\ place \in [Release -> Nat]
      /\ \A x \in Release : place[x] # 0 => moved[x] # 0
      /\ active # None /\ moved[active] # 0 => place[active] # 0
  BY <1>2, TrimmedFacts
<1> HIDE DEF moved, place
<1>4. Listed(state, r, active) \in State
  BY <1>1, <1>3 DEF State, Status
<1>5. Recorded(Listed(state, r, active))
  BY <1>1, <1>2, <1>3 DEF Recorded, Status
<1>6. ActiveListed(Listed(state, r, active))
  BY <1>1, <1>2, <1>3 DEF ActiveListed, None
<1> QED
  BY <1>1, <1>4, <1>5, <1>6

LEMMA WithStatusFacts ==
  ASSUME NEW state \in State, NEW r, NEW s \in Status
  PROVE  /\ WithStatus(state, r, s) \in State
         /\ WithStatus(state, r, s).active = state.active
         /\ WithStatus(state, r, s).place = state.place
         /\ \A x \in Release : WithStatus(state, r, s).status[x] = IF x = r THEN s ELSE state.status[x]
<1>1. /\ state.active \in Release \cup {None} /\ state.place \in [Release -> Nat]
      /\ state.status \in [Release -> Status]
      /\ state = [active |-> state.active, place |-> state.place, status |-> state.status]
  BY DEF State
<1>2. WithStatus(state, r, s) =
        [active |-> state.active, place |-> state.place,
         status |-> [x \in Release |-> IF x = r THEN s ELSE state.status[x]]]
  BY <1>1 DEF WithStatus
<1> QED
  BY <1>1, <1>2 DEF State

LEMMA EmptyFacts == Empty \in State /\ Recorded(Empty) /\ ActiveListed(Empty) /\ Empty.active = None
BY DEF Empty, State, Status, Recorded, ActiveListed

-----------------------------------------------------------------------------
(* The operation under way.                                                *)

Working == {"build", "up", "proxy", "caddy", "reload", "verify", "restore", "record", "clean", "note"}
Settling == {"drain", "retire", "save"}
Removing == {"downAll", "forget"}
Started == {"proxy", "caddy", "reload", "verify", "restore", "record"} \cup Settling

\* What an operation works on, and that nothing named a release before it
\* was built.
PInv ==
  /\ TypeOK
  /\ ActiveListed(file)
  /\ pc \in Working \cup Removing => mem = file
  /\ pc \in Settling => mem.active = file.active /\ mem.place = file.place /\ file.active = rel
  /\ pc \in Working => rel \in Release /\ op # "remove" /\ file.active # rel
  /\ pc \in Working /\ op = "rollback" => mem.place[rel] # 0
  /\ pc \in {"build", "clean"} => op = "deploy"
  /\ pc \in Removing => op = "remove" /\ withdrawn
  /\ pc \in {"caddy", "reload", "verify", "restore", "record"} => previous = file.active
  /\ pc = "restore" => previous # None
  /\ pc \in Settling => rel \in Release /\ previous # rel
  /\ pc = "clean" => failure = "plain"
  /\ rel <= built /\ file.active <= built /\ route <= built /\ caddyfile <= built
  /\ \A r \in images : r <= built

OnRecord == file.active # None /\ ~withdrawn
Restarts == "restart" \in faults

\* Where the public address points while it does.
RInv ==
  /\ OnRecord => file.active \in up
  /\ RouteIsServed
  /\ OnRecord /\ Restarts /\ caddyfile # None => caddyfile \in up
  /\ op = "deploy" /\ pc \in {"build", "up", "proxy", "caddy"} => route # rel /\ caddyfile # rel
  /\ pc \in Started => rel \in up
  /\ pc = "reload" => caddyfile = rel /\ (op = "deploy" /\ route = rel => Restarts)
  /\ pc \in {"verify", "restore", "record", "drain"} => route = rel /\ caddyfile = rel
  /\ pc = "clean" /\ OnRecord => route # rel /\ (Restarts => caddyfile # rel)
  /\ pc = "note" /\ failure = "unrestored" => route = rel /\ rel \in up /\ "docker" \in faults

IInv == LInv /\ PInv /\ RInv

LEMMA ActiveType == ASSUME PInv PROVE file.active \in Release \cup {None} /\ mem.active \in Release \cup {None}
BY DEF PInv, TypeOK, State

LEMMA InitInv == Init => IInv
<1> SUFFICES ASSUME Init PROVE IInv
  OBVIOUS
<1>1. LInv
  BY LockInitInv DEF Init
<1>2. mem = Empty /\ file = Empty /\ \A s \in {mem, file}, r \in Release : s.place[r] = 0 <=> s.status[r] = "none"
  BY EmptyFacts DEF Init, Recorded
<1>4. TypeOK
  <2>1. LockTypeOK
    BY <1>1 DEF LInv
  <2>2. None \in 0 .. MaxDeploys
    BY ReleasesAssumption DEF None
  <2>3. pc \in Places2 /\ op \in {"deploy", "rollback", "remove"} /\ failure \in {"none", "plain", "unrestored"}
    BY DEF Init, Places2
  <2> QED
    BY <1>2, <2>1, <2>2, <2>3, EmptyFacts DEF Init, TypeOK, None
<1>5. PInv
  BY <1>2, <1>4, EmptyFacts, ReleasesAssumption DEF Init, PInv, ActiveListed, Working, Settling, Removing, None
<1>3. RInv
  BY EmptyFacts DEF Init, RInv, OnRecord, RouteIsServed, Started, Settling
<1> QED
  BY <1>1, <1>5, <1>3 DEF IInv

LEMMA LockInv == ASSUME IInv, Unraced, NEW p \in Proc, Lock(p) PROVE IInv'
<1>1. LInv'
  BY LockStepInv DEF Lock, IInv
<1>2. UNCHANGED <<faults, opVars, file, dockerVars, history>>
  BY DEF Lock
<1>3. PInv'
  BY <1>1, <1>2 DEF IInv, PInv, LInv, TypeOK, opVars, dockerVars, history, ActiveListed
<1>4. RInv'
  BY <1>2 DEF IInv, RInv, opVars, dockerVars, history, OnRecord, Restarts, RouteIsServed
<1> QED
  BY <1>1, <1>3, <1>4 DEF IInv

LEMMA FinishInv == ASSUME IInv, Unraced, NEW p \in Proc, Finish(p) PROVE IInv'
<1>1. LInv'
  BY LockStepInv DEF Finish, IInv
<1>2. /\ pc' = "idle" /\ op' = "deploy" /\ rel' = None /\ previous' = None /\ failure' = "none"
      /\ mem' = Empty
      /\ UNCHANGED <<faults, file, images, up, proxy, caddyfile, route, built, torn, withdrawn>>
  BY DEF Finish, NoOperation, dockerVars, history
<1>3. PInv'
  BY <1>1, <1>2, EmptyFacts, ReleasesAssumption
  DEF IInv, PInv, LInv, TypeOK, ActiveListed, Recorded, Places2, Working, Settling, Removing, None, Release
<1>4. RInv'
  BY <1>2 DEF IInv, RInv, OnRecord, Restarts, RouteIsServed, Started, Settling
<1> QED
  BY <1>1, <1>3, <1>4 DEF IInv

LEMMA CrashInv == ASSUME IInv, Unraced, NEW p \in Proc, Crash(p) PROVE IInv'
<1>1. LInv'
  BY LockStepInv DEF Crash, IInv
<1>2. /\ UNCHANGED <<faults, file, images, up, proxy, caddyfile, route, built, withdrawn>>
      /\ \/ /\ pc' = "idle" /\ op' = "deploy" /\ rel' = None /\ previous' = None /\ failure' = "none"
            /\ mem' = Empty /\ torn' \in BOOLEAN
         \/ UNCHANGED <<pc, op, rel, previous, failure, mem, torn>>
  BY DEF Crash, NoOperation, dockerVars, opVars, IInv, PInv, TypeOK
<1>3. PInv'
  <2>1. CASE UNCHANGED <<pc, op, rel, previous, failure, mem, torn>>
    BY <1>1, <1>2, <2>1 DEF IInv, PInv, LInv, TypeOK, ActiveListed
  <2>2. CASE ~UNCHANGED <<pc, op, rel, previous, failure, mem, torn>>
    BY <1>1, <1>2, <2>2, EmptyFacts, ReleasesAssumption
    DEF IInv, PInv, LInv, TypeOK, ActiveListed, Recorded, Places2, Working, Settling, Removing, None, Release
  <2> QED
    BY <2>1, <2>2
<1>4. RInv'
  BY <1>2 DEF IInv, RInv, OnRecord, Restarts, RouteIsServed, Started, Settling
<1> QED
  BY <1>1, <1>3, <1>4 DEF IInv

LEMMA ProxyRestartInv == ASSUME IInv, Assumed, ProxyRestart PROVE IInv'
<1>1. LInv' /\ UNCHANGED lockVars
  BY LockStutterInv DEF ProxyRestart, IInv
<1>2. /\ route' = caddyfile /\ Restarts /\ "docker" \notin faults
  BY DEF ProxyRestart, Assumed, Restarts, IInv, PInv, TypeOK
<1>3. UNCHANGED <<faults, pc, op, rel, previous, failure, mem, file, images, up, proxy, caddyfile, built, torn, withdrawn>>
  BY DEF ProxyRestart, opVars, history
<1>4. PInv'
  BY <1>1, <1>2, <1>3 DEF IInv, PInv, LInv, TypeOK, ActiveListed
<1>5. RInv'
  BY <1>2, <1>3 DEF IInv, RInv, OnRecord, Restarts, RouteIsServed, Started, Settling
<1> QED
  BY <1>1, <1>4, <1>5 DEF IInv

-----------------------------------------------------------------------------
(* The types, whatever fails.                                              *)

Switched == {"caddy", "reload", "verify", "restore", "record"}

\* Nothing is known of the lock or of docker here: only that an operation works
\* on a release, and that a release it may put on record as active is listed.
TInv ==
  /\ TypeOK
  /\ ActiveListed(mem) /\ ActiveListed(file)
  /\ pc \in Working \cup Settling => rel \in Release
  /\ pc \in Working \cup Settling /\ op # "deploy" => mem.place[rel] # 0
  /\ pc \in Switched => previous \in {None, mem.active}
  /\ pc \in Removing => op = "remove"

LEMMA LockTyped ==
  ASSUME LockTypeOK, NEW p \in Proc, Ask(p) \/ Acquire(p) \/ Unlock(p) \/ Die(p)
  PROVE  LockTypeOK'
<1> USE ProcAssumption DEF LockTypeOK, Places, Goto, NoLock, Dead
<1>1. CASE Ask(p) \/ Exists(p) \/ Read(p)
  <2>1. CASE Ask(p)
    BY <2>1 DEF Ask
  <2>2. CASE Exists(p)
    BY <2>2 DEF Exists
  <2>3. CASE Read(p)
    <3>1. lock' = lock /\ (at' = [at EXCEPT ![p] = "out"] \/ at' = [at EXCEPT ![p] = "unlink"])
      BY <2>3 DEF Read
    <3> QED
      BY <3>1
  <2> QED
    BY <1>1, <2>1, <2>2, <2>3
<1>2. CASE Open(p) \/ Unlink(p) \/ Unlock(p)
  <2>1. CASE Open(p)
    BY <2>1 DEF Open
  <2>2. CASE Unlink(p) \/ Unlock(p)
    <3>1. /\ lock' = [by |-> "none", written |-> FALSE]
          /\ at' = [at EXCEPT ![p] = "reopen"] \/ at' = [at EXCEPT ![p] = "out"]
      BY <2>2 DEF Unlink, Unlock
    <3> QED
      BY <3>1
  <2> QED
    BY <1>2, <2>1, <2>2
<1>3. CASE Write(p)
  <2>1. (lock.written \/ lock.by = p) \in BOOLEAN
    OBVIOUS
  <2> QED
    BY <1>3, <2>1 DEF Write
<1>4. CASE Die(p)
  BY <1>4 DEF Die
<1> QED
  BY <1>1, <1>2, <1>3, <1>4 DEF Acquire

\* A step that leaves the record as it is, and whose operation goes on or ends.
LEMMA TypedAlong ==
  ASSUME TInv, UNCHANGED <<lockVars, faults, op, rel, mem, file, built>>,
         images' \subseteq Release, up' \subseteq Release, proxy' \in BOOLEAN,
         caddyfile' \in Release \cup {None}, route' \in Release \cup {None},
         previous' \in {previous, None, mem.active},
         failure' \in {"none", "plain", "unrestored"},
         torn' \in BOOLEAN, withdrawn' \in BOOLEAN,
         pc' \in Places2,
         pc' \in Working \cup Settling => pc \in Working \cup Settling,
         pc' \in Switched => previous' \in {None, mem.active},
         pc' \in Removing => pc \in Removing
  PROVE  TInv'
<1>1. mem.active \in Release \cup {None}
  BY DEF TInv, TypeOK, State
<1> QED
  BY <1>1 DEF TInv, TypeOK, LockTypeOK, ActiveListed, lockVars

\* What is thrown ends the operation.
LEMMA ThrowsTyped ==
  ASSUME NEW how \in {"plain", "unrestored"}, Throws(how)
  PROVE  /\ failure' = how /\ failure' \in {"none", "plain", "unrestored"}
         /\ pc' \in {"clean", "note", "done"} /\ pc' \in Places2
         /\ op = "remove" => pc' = "done"
BY DEF Throws, Places2

LEMMA StepsTyped ==
  ASSUME TInv,
         Build \/ Up \/ EnsureProxy \/ WriteCaddyfile \/ Reload \/ Verify \/ CleanUp \/ DownAll \/ Refuse
  PROVE  TInv'
<1> USE DEF Step, Places2, Working, Settling, Removing, Switched
<1>1. /\ rel \in Release \cup {None} /\ failure \in {"none", "plain", "unrestored"}
      /\ images \subseteq Release /\ up \subseteq Release /\ proxy \in BOOLEAN
      /\ caddyfile \in Release \cup {None} /\ route \in Release \cup {None}
      /\ torn \in BOOLEAN /\ withdrawn \in BOOLEAN
      /\ pc \in Working \cup Settling => rel \in Release
      /\ pc \in Switched => previous \in {None, mem.active}
  BY DEF TInv, TypeOK
<1>2. CASE Build \/ Up
  <2>1. rel \in Release
    BY <1>1, <1>2 DEF Build, Up
  <2> QED
    BY <1>1, <1>2, <2>1, TypedAlong DEF Build, Up, history
<1>3. CASE EnsureProxy
  <2>1. /\ proxy' \in BOOLEAN
        /\ caddyfile' \in Release \cup {None} /\ route' \in Release \cup {None}
    BY <1>1, <1>3 DEF EnsureProxy, MadeAnew
  <2>2. previous' \in {None, mem.active}
    BY <1>3 DEF EnsureProxy
  <2> QED
    BY <1>1, <1>3, <2>1, <2>2, TypedAlong DEF EnsureProxy, history
<1>4. CASE WriteCaddyfile \/ Reload
  BY <1>1, <1>4, TypedAlong DEF WriteCaddyfile, Reload, history
<1>5. CASE Verify \/ Refuse
  BY <1>1, <1>5, TypedAlong DEF Verify, Refuse, dockerVars, history
<1>6. CASE CleanUp
  <2>1. images' \subseteq Release /\ up' \subseteq Release
    BY <1>1, <1>6 DEF CleanUp
  <2> QED
    BY <1>1, <1>6, <2>1, TypedAlong DEF CleanUp, history
<1>7. CASE DownAll
  <2>1. images' \subseteq Release /\ up' \subseteq Release
    BY <1>1, <1>7 DEF DownAll
  <2> QED
    BY <1>1, <1>7, <2>1, TypedAlong DEF DownAll, history
<1> QED
  BY <1>2, <1>3, <1>4, <1>5, <1>6, <1>7

LEMMA FailuresTyped ==
  ASSUME TInv,
         \/ BuildFails \/ UpFails \/ EnsureProxyFails \/ SwitchFails \/ VerifyFails
         \/ Restore \/ RestoreFails \/ Drain
  PROVE  TInv'
<1>1. /\ rel \in Release \cup {None} /\ failure \in {"none", "plain", "unrestored"}
      /\ previous \in Release \cup {None}
      /\ images \subseteq Release /\ up \subseteq Release /\ proxy \in BOOLEAN
      /\ caddyfile \in Release \cup {None} /\ route \in Release \cup {None}
      /\ torn \in BOOLEAN /\ withdrawn \in BOOLEAN
      /\ pc \in Working \cup Settling => rel \in Release
      /\ pc \in Switched => previous \in {None, mem.active}
  BY DEF TInv, TypeOK
<1>2. /\ UNCHANGED <<lockVars, faults, op, rel, mem, file, built, previous, torn, withdrawn>>
      /\ pc \in Working \cup Settling
      /\ \/ Step("verify", "restore") /\ UNCHANGED failure
         \/ Step("drain", "retire") /\ UNCHANGED failure
         \/ Throws("plain") \/ Throws("unrestored")
  <2> USE DEF Fails, Step, Working, Settling, dockerVars, history
  <2>1. CASE BuildFails \/ UpFails \/ EnsureProxyFails
    BY <2>1 DEF BuildFails, UpFails, EnsureProxyFails
  <2>2. CASE SwitchFails \/ VerifyFails
    BY <2>2 DEF SwitchFails, VerifyFails
  <2>3. CASE Restore \/ RestoreFails \/ Drain
    BY <2>3 DEF Restore, RestoreFails, Drain
  <2> QED
    BY <2>1, <2>2, <2>3
<1>3. rel \in Release
  BY <1>1, <1>2
<1>4. /\ images' \subseteq Release /\ up' \subseteq Release /\ proxy' \in BOOLEAN
      /\ caddyfile' \in Release \cup {None} /\ route' \in Release \cup {None}
  <2>1. CASE BuildFails \/ UpFails
    BY <1>1, <1>3, <2>1 DEF BuildFails, UpFails
  <2>2. CASE EnsureProxyFails
    BY <1>1, <2>2 DEF EnsureProxyFails, MadeAnew
  <2>3. CASE SwitchFails \/ VerifyFails
    BY <1>1, <1>3, <2>3 DEF SwitchFails, VerifyFails, dockerVars
  <2>4. CASE Restore \/ RestoreFails \/ Drain
    BY <1>1, <2>4 DEF Restore, RestoreFails, Drain
  <2> QED
    BY <2>1, <2>2, <2>3, <2>4
<1>5. /\ failure' \in {"none", "plain", "unrestored"} /\ pc' \in Places2
      /\ pc' \notin Removing /\ (pc' \in Switched => pc \in Switched)
  <2>1. CASE Step("verify", "restore") \/ Step("drain", "retire")
    BY <1>1, <1>2, <2>1, ThrowsTyped DEF Step, Places2, Removing, Switched
  <2>2. CASE Throws("plain") \/ Throws("unrestored")
    BY <2>2, ThrowsTyped DEF Removing, Switched
  <2> QED
    BY <1>2, <2>1, <2>2
<1> QED
  BY <1>1, <1>2, <1>4, <1>5, TypedAlong

LEMMA BeginsTyped ==
  ASSUME TInv, BeginDeploy \/ BeginRollback \/ RemoveProxy
  PROVE  TInv'
<1> USE DEF Step, Places2, Working, Settling, Removing, Switched
<1>1. /\ pc' \in {"build", "up", "downAll"} /\ mem' = file /\ previous' = None /\ failure' = "none"
      /\ UNCHANGED <<lockVars, faults, file, images, up, torn>>
      /\ withdrawn' \in BOOLEAN /\ proxy' \in BOOLEAN
      /\ caddyfile' \in {caddyfile, None} /\ route' \in {route, None}
  BY DEF BeginDeploy, BeginRollback, RemoveProxy, dockerVars, history, TInv, TypeOK
<1>2. /\ built' \in 0 .. MaxDeploys /\ rel' \in Release \cup {None}
      /\ op' \in {"deploy", "rollback", "remove"}
      /\ pc' \in {"build", "up"} => rel' \in Release
      /\ pc' \in {"build", "up"} /\ op' # "deploy" => file.place[rel'] # 0
      /\ pc' = "downAll" => op' = "remove"
  <2>1. CASE BeginDeploy
    BY <2>1, ReleasesAssumption DEF BeginDeploy, TInv, TypeOK, Release
  <2>2. CASE BeginRollback
    <3>1. PICK x \in images : file.status[x] = "previous" /\ rel' = x
      BY <2>2 DEF BeginRollback
    <3>2. x \in Release /\ file.place[x] # 0
      BY <3>1 DEF TInv, TypeOK
    <3> QED
      BY <2>2, <3>1, <3>2 DEF BeginRollback, dockerVars, TInv, TypeOK
  <2>3. CASE RemoveProxy
    BY <2>3 DEF RemoveProxy, TInv, TypeOK
  <2> QED
    BY <2>1, <2>2, <2>3
<1> QED
  BY <1>1, <1>2 DEF TInv, TypeOK, LockTypeOK, ActiveListed, lockVars

\* A write of the record ends the step or is thrown; in memory it has happened
\* either way.
LEMMA WritesTyped ==
  ASSUME TInv, NEW from, NEW to \in Places2, NEW state \in State, WriteState(from, to, state),
         Recorded(state), ActiveListed(state),
         UNCHANGED <<op, rel, previous, images, up, proxy, caddyfile, route, built>>,
         torn' \in BOOLEAN, withdrawn' \in BOOLEAN,
         \/ from \in Working \cup Settling /\ state.place[rel] # 0
         \/ from \in Removing,
         to \in Settling => from \in Working \cup Settling,
         to \in Settling \cup {"done"}
  PROVE  TInv'
<1> USE DEF Settling, Removing, Switched, Working
<1>1. /\ mem' = state /\ pc = from /\ UNCHANGED <<lockVars, faults>>
      /\ \/ pc' = to /\ file' = state /\ UNCHANGED failure
         \/ Throws("plain") /\ UNCHANGED file
  BY DEF WriteState, Step, Fails
<1>2. /\ file' \in State /\ Recorded(file') /\ ActiveListed(file')
  BY <1>1 DEF TInv, TypeOK, Recorded
<1>3. /\ failure' \in {"none", "plain", "unrestored"} /\ pc' \in Places2
      /\ pc' \in Working \cup Settling => pc \in Working \cup Settling
      /\ pc' \notin Removing \cup Switched
  <2>1. CASE pc' = to
    BY <1>1, <2>1, ThrowsTyped DEF TInv, TypeOK
  <2>2. CASE Throws("plain")
    BY <1>1, <2>2, ThrowsTyped DEF TInv
  <2> QED
    BY <1>1, <2>1, <2>2
<1> QED
  BY <1>1, <1>2, <1>3 DEF TInv, TypeOK, Recorded, ActiveListed, LockTypeOK, lockVars

LEMMA RecordTyped == ASSUME TInv, Record PROVE TInv'
<1> DEFINE old == WithStatus(mem, previous, "previous")
           new == WithStatus(old, rel, "active")
           state == Listed(new, rel, rel)
           to == IF previous # None THEN "drain" ELSE "retire"
<1>1. /\ WriteState("record", to, state) /\ pc = "record"
      /\ UNCHANGED <<op, rel, previous, images, up, proxy, caddyfile, route, built>>
      /\ torn' \in BOOLEAN /\ withdrawn' \in BOOLEAN
  <2>1. WriteState("record", to, state)
    BY DEF Record
  <2>2. pc = "record"
    BY DEF Record, WriteState
  <2> QED
    BY <2>1, <2>2 DEF Record, dockerVars
<1>2. /\ mem \in State /\ rel \in Release /\ previous \in {None, mem.active} /\ ActiveListed(mem)
      /\ \A x \in Release : mem.place[x] = 0 <=> mem.status[x] = "none"
  BY <1>1 DEF TInv, TypeOK, Working, Switched
<1>3. /\ old \in State /\ old.place = mem.place
      /\ \A x \in Release : old.status[x] = IF x = previous THEN "previous" ELSE mem.status[x]
  BY <1>2, WithStatusFacts DEF Status
<1> HIDE DEF old
<1>4. /\ new \in State /\ new.place = mem.place
      /\ \A x \in Release : new.status[x] = IF x = rel THEN "active" ELSE old.status[x]
  BY <1>3, WithStatusFacts DEF Status
<1> HIDE DEF new
<1>5. \A x \in Release : x # rel => (new.place[x] = 0 <=> new.status[x] = "none")
  <2> TAKE x \in Release
  <2> HAVE x # rel
  <2>1. CASE x = previous
    <3>1. x = mem.active /\ mem.active # None
      BY <1>2, <2>1, ReleasesAssumption DEF Release, None
    <3>2. mem.place[x] # 0
      BY <1>2, <3>1 DEF ActiveListed
    <3> QED
      BY <1>3, <1>4, <2>1, <3>2
  <2>2. CASE x # previous
    BY <1>2, <1>3, <1>4, <2>2
  <2> QED
    BY <2>1, <2>2
<1>6. /\ state \in State /\ Recorded(state) /\ state.active = rel /\ ActiveListed(state)
  BY <1>2, <1>4, <1>5, ListedFacts
<1> HIDE DEF state
<1>7. state.place[rel] # 0
  BY <1>2, <1>6, ReleasesAssumption DEF ActiveListed, Release, None
<1>8. to \in Settling /\ to \in Places2
  BY DEF Settling, Places2
<1> HIDE DEF to
<1> QED
  BY <1>1, <1>6, <1>7, <1>8, WritesTyped DEF Working

LEMMA SettlesTyped == ASSUME TInv, Retire \/ Save PROVE TInv'
<1>1. CASE Retire
  <2>1. /\ pc = "retire" /\ pc' = "save" /\ images' \subseteq images
        /\ UNCHANGED <<lockVars, faults, op, rel, previous, failure, file, up, proxy, caddyfile,
                       route, built, torn, withdrawn>>
        /\ mem' = [mem EXCEPT !.status = [r \in Release |-> IF r \in Retired(mem) THEN "retired" ELSE @[r]]]
    BY <1>1 DEF Retire, Step, ImagesWithout, history
  <2>2. /\ mem' \in State /\ mem'.active = mem.active /\ mem'.place = mem.place
        /\ \A r \in Release : mem'.status[r] = IF r \in Retired(mem) THEN "retired" ELSE mem.status[r]
    BY <2>1 DEF TInv, TypeOK, State, Status
  <2>3. \A r \in Release : mem'.place[r] = 0 <=> mem'.status[r] = "none"
    BY <2>2 DEF TInv, TypeOK, Retired, Previous
  <2> QED
    BY <2>1, <2>2, <2>3
    DEF TInv, TypeOK, ActiveListed, LockTypeOK, lockVars, Places2, Working, Settling, Removing, Switched
<1>2. CASE Save
  <2>1. WriteState("save", "done", mem) /\ pc = "save"
    BY <1>2 DEF Save, WriteState
  <2> DEFINE state == mem
  <2>2. CASE mem.place[rel] # 0
    <3>1. mem \in State /\ Recorded(mem) /\ ActiveListed(mem)
      BY DEF TInv, TypeOK, Recorded
    <3>2. /\ UNCHANGED <<op, rel, previous, images, up, proxy, caddyfile, route, built>>
          /\ torn' \in BOOLEAN /\ withdrawn' \in BOOLEAN
      BY <1>2 DEF Save, dockerVars, history, TInv, TypeOK
    <3> QED
      BY <2>1, <2>2, <3>1, <3>2, WritesTyped DEF Settling, Places2
  <2>3. CASE mem.place[rel] = 0
    <3>1. op = "deploy" /\ rel \in Release
      BY <2>1, <2>3 DEF TInv, TypeOK, Settling
    <3>2. /\ mem' = mem /\ UNCHANGED <<lockVars, faults, op, rel, previous, images, up, proxy,
                                      caddyfile, route, built, torn, withdrawn>>
          /\ file' \in {mem, file}
          /\ (pc' = "done" /\ UNCHANGED failure) \/ Throws("plain")
      BY <1>2 DEF Save, WriteState, Step, Fails, dockerVars, history
    <3>3. pc' \in {"done", "clean", "note"} /\ failure' \in {"none", "plain", "unrestored"}
      BY <3>2, ThrowsTyped DEF TInv, TypeOK
    <3> QED
      BY <3>1, <3>2, <3>3
      DEF TInv, TypeOK, ActiveListed, LockTypeOK, lockVars, Places2, Working, Settling, Removing, Switched
  <2> QED
    BY <2>2, <2>3 DEF TInv, TypeOK
<1> QED
  BY <1>1, <1>2

LEMMA NoteTyped == ASSUME TInv, Note PROVE TInv'
<1> DEFINE taken == IF failure = "unrestored" THEN WithStatus(mem, mem.active, "previous") ELSE mem
           active == IF failure = "unrestored" THEN rel ELSE mem.active
           failed == WithStatus(taken, rel, "failed")
<1>1. /\ pc = "note" /\ pc' = "done" /\ mem' = Noted /\ file' \in {Noted, file}
      /\ UNCHANGED <<lockVars, faults, failure, op, rel, previous, images, up, proxy, caddyfile,
                     route, built, torn, withdrawn>>
  BY DEF Note, dockerVars, history
<1>2. /\ mem \in State /\ rel \in Release /\ mem.active \in Release \cup {None} /\ ActiveListed(mem)
      /\ \A x \in Release : mem.place[x] = 0 <=> mem.status[x] = "none"
      /\ op # "deploy" => mem.place[rel] # 0
  BY <1>1 DEF TInv, TypeOK, State, Working
<1>3. /\ taken \in State /\ taken.place = mem.place
      /\ \A x \in Release : taken.place[x] = 0 <=> taken.status[x] = "none"
  <2>1. CASE failure = "unrestored"
    <3> DEFINE last == WithStatus(mem, mem.active, "previous")
    <3>1. /\ last \in State /\ last.place = mem.place
          /\ \A x \in Release :
               last.status[x] = IF x = mem.active THEN "previous" ELSE mem.status[x]
      BY <1>2, WithStatusFacts DEF Status
    <3>2. taken = last
      BY <2>1
    <3>3. \A x \in Release : x = mem.active => mem.place[x] # 0
      BY <1>2, ReleasesAssumption DEF ActiveListed, Release, None
    <3> HIDE DEF last, taken
    <3> QED
      BY <1>2, <3>1, <3>2, <3>3
  <2>2. CASE failure # "unrestored"
    BY <1>2, <2>2
  <2> QED
    BY <2>1, <2>2
<1>4. /\ active \in Release \cup {None}
      /\ active \in Release => active = rel \/ mem.place[active] # 0
  BY <1>2, ReleasesAssumption DEF ActiveListed, None, Release
<1>5. Noted = IF op = "deploy" THEN Listed(failed, rel, active) ELSE [taken EXCEPT !.active = active]
  BY DEF Noted
<1> HIDE DEF taken, active
<1>6. Noted \in State /\ Recorded(Noted) /\ ActiveListed(Noted)
  <2>1. CASE op = "deploy"
    <3>1. /\ failed \in State /\ failed.place = mem.place
          /\ \A x \in Release : failed.status[x] = IF x = rel THEN "failed" ELSE taken.status[x]
      BY <1>2, <1>3, WithStatusFacts DEF Status
    <3> HIDE DEF failed
    <3>2. /\ \A x \in Release : x # rel => (failed.place[x] = 0 <=> failed.status[x] = "none")
          /\ failed.status[rel] # "none"
      BY <1>2, <1>3, <3>1
    <3> QED
      BY <1>2, <1>4, <1>5, <2>1, <3>1, <3>2, ListedFacts
  <2>2. CASE op # "deploy"
    <3>1. Noted = [taken EXCEPT !.active = active]
      BY <1>5, <2>2
    <3>2. /\ Noted \in State /\ Noted.active = active
          /\ Noted.place = mem.place /\ Noted.status = taken.status
      BY <1>3, <1>4, <3>1 DEF State
    <3> QED
      BY <1>2, <1>3, <1>4, <2>2, <3>2 DEF Recorded, ActiveListed, None
  <2> QED
    BY <2>1, <2>2
<1> HIDE DEF failed
<1> QED
  BY <1>1, <1>6
  DEF TInv, TypeOK, Recorded, ActiveListed, LockTypeOK, lockVars, Places2, Working, Settling, Removing, Switched

LEMMA ForgetTyped == ASSUME TInv, Forget PROVE TInv'
<1> DEFINE forgotten == [mem EXCEPT !.active = None,
             !.status = [r \in Release |-> IF @[r] \in {"none", "failed"} THEN @[r] ELSE "retired"]]
<1>1. WriteState("forget", "done", forgotten)
  BY DEF Forget
<1>2. /\ forgotten \in State /\ Recorded(forgotten) /\ ActiveListed(forgotten)
  <2>1. mem \in State /\ \A x \in Release : mem.place[x] = 0 <=> mem.status[x] = "none"
    BY DEF TInv, TypeOK
  <2>2. /\ forgotten \in State /\ forgotten.active = None /\ forgotten.place = mem.place
        /\ \A x \in Release :
             forgotten.status[x] = IF mem.status[x] \in {"none", "failed"} THEN mem.status[x] ELSE "retired"
    BY <2>1 DEF State, Status
  <2> QED
    BY <2>1, <2>2 DEF Recorded, ActiveListed
<1>3. /\ UNCHANGED <<op, rel, previous, images, up, proxy, caddyfile, route, built>>
      /\ torn' \in BOOLEAN /\ withdrawn' \in BOOLEAN
  BY DEF Forget, dockerVars, TInv, TypeOK
<1> HIDE DEF forgotten
<1> QED
  BY <1>1, <1>2, <1>3, WritesTyped DEF Removing, Settling, Places2

LEMMA TypeStep == ASSUME TInv, [Next]_vars PROVE TInv'
<1>1. CASE OpStep
  BY <1>1, StepsTyped, FailuresTyped, BeginsTyped, RecordTyped, SettlesTyped, NoteTyped, ForgetTyped
  DEF OpStep
<1>2. ASSUME NEW p \in Proc, Lock(p) \/ Finish(p) \/ Crash(p) PROVE TInv'
  <2>1. LockTypeOK'
    BY <1>2, LockTyped DEF Lock, Finish, Crash, TInv, TypeOK
  <2>2. /\ UNCHANGED <<faults, file, images, up, proxy, caddyfile, route, built, withdrawn>>
        /\ torn' \in BOOLEAN
        /\ UNCHANGED opVars \/ NoOperation
    BY <1>2 DEF Lock, Finish, Crash, dockerVars, history, TInv, TypeOK
  <2>3. CASE UNCHANGED opVars
    BY <2>1, <2>2, <2>3 DEF opVars, TInv, TypeOK, ActiveListed
  <2>4. CASE NoOperation
    BY <2>1, <2>2, <2>4, EmptyFacts, ReleasesAssumption
    DEF NoOperation, TInv, TypeOK, Recorded, ActiveListed, Places2, Working, Settling, Removing, Switched
  <2> QED
    BY <2>2, <2>3, <2>4
<1>3. CASE ProxyRestart
  BY <1>3 DEF ProxyRestart, lockVars, opVars, history, TInv, TypeOK, LockTypeOK, ActiveListed
<1>4. CASE UNCHANGED vars
  BY <1>4 DEF vars, lockVars, opVars, dockerVars, history, TInv, TypeOK, LockTypeOK, ActiveListed
<1> QED
  BY <1>1, <1>2, <1>3, <1>4 DEF Next

\* Whatever fails, wherever processes die and whoever has the lock, the variables
\* of the deployer keep their types: every release on the list has a record, and
\* every record is of a release on the list (TypeOK; the record of
\* deploy-plan.ts:14-59, cut by deploy_plan.rs:686-702).
THEOREM DeployTypeOK == Spec => []TypeOK
<1>1. Init => TInv
  BY InitInv, EmptyFacts DEF Init, IInv, PInv, TInv, Working, Settling, Removing, Switched
<1>2. TInv /\ [Next]_vars => TInv'
  BY TypeStep
<1>3. TInv => TypeOK
  BY DEF TInv
<1> QED
  BY <1>1, <1>2, <1>3, PTL DEF Spec

-----------------------------------------------------------------------------
(* The steps that leave the record alone.                                  *)

LEMMA RefuseInv == ASSUME IInv, Assumed, Refuse PROVE IInv'
<1>1. LInv'
  BY LockStutterInv DEF Refuse, Step, IInv
<1>2. PInv'
  BY <1>1, ReleasesAssumption
  DEF Refuse, Step, dockerVars, history, IInv, PInv, LInv, TypeOK, ActiveListed,
      Places2, Working, Settling, Removing, Assumed, Release, None, ImagesWithout
<1>3. RInv'
  BY ReleasesAssumption
  DEF Refuse, Step, dockerVars, history, IInv, PInv, TypeOK, RInv, OnRecord, Restarts, RouteIsServed,
      ActiveListed, Started, Settling, Working, Assumed, Release, None, Removing
<1> QED
  BY <1>1, <1>2, <1>3 DEF IInv

LEMMA BeginDeployInv == ASSUME IInv, Assumed, BeginDeploy PROVE IInv'
<1>1. LInv'
  BY LockStutterInv DEF BeginDeploy, Step, IInv
<1>2. PInv'
  <2>1. /\ mem' = file /\ file' = file /\ pc' # "idle"
        /\ \A t \in {mem', file'}, r \in Release : t.place[r] = 0 <=> t.status[r] = "none"
    BY DEF BeginDeploy, Step, IInv, PInv, TypeOK
  <2>2. rel' \in Release /\ rel' = built + 1 /\ built' = built + 1 /\ built \in Nat /\ built' \in 0 .. MaxDeploys
    BY ReleasesAssumption DEF BeginDeploy, IInv, PInv, TypeOK, Release
  <2>3. TypeOK'
    BY <1>1, <2>1, <2>2, ReleasesAssumption DEF BeginDeploy, Step, dockerVars, history, IInv, PInv, LInv, TypeOK, Places2
  <2> QED
    BY <2>1, <2>2, <2>3, ActiveType, ReleasesAssumption
    DEF BeginDeploy, Step, dockerVars, history, IInv, PInv, TypeOK, ActiveListed, Working, Settling, Removing, Release, None
<1>3. RInv'
  BY ReleasesAssumption
  DEF BeginDeploy, Step, dockerVars, history, IInv, PInv, TypeOK, RInv, OnRecord, Restarts, RouteIsServed,
      ActiveListed, Started, Settling, Working, Assumed, Release, None, Removing
<1> QED
  BY <1>1, <1>2, <1>3 DEF IInv

LEMMA BeginRollbackInv == ASSUME IInv, Assumed, BeginRollback PROVE IInv'
<1>1. LInv'
  BY LockStutterInv DEF BeginRollback, Step, IInv
<1>2. PInv'
  <2>1. /\ mem' = file /\ file' = file /\ pc' # "idle"
        /\ \A t \in {mem', file'}, r \in Release : t.place[r] = 0 <=> t.status[r] = "none"
    BY DEF BeginRollback, Step, IInv, PInv, TypeOK
  <2>2. rel' \in Release /\ rel' \in images /\ file.place[rel'] # 0 /\ file.active # rel'
    BY DEF BeginRollback, IInv, PInv, TypeOK
  <2>3. TypeOK'
    BY <1>1, <2>1, <2>2, ReleasesAssumption DEF BeginRollback, Step, dockerVars, history, IInv, PInv, LInv, TypeOK, Places2
  <2> QED
    BY <2>1, <2>2, <2>3, ActiveType, ReleasesAssumption
    DEF BeginRollback, Step, dockerVars, history, IInv, PInv, TypeOK, ActiveListed, Working, Settling, Removing, Release, None
<1>3. RInv'
  BY ReleasesAssumption
  DEF BeginRollback, Step, dockerVars, history, IInv, PInv, TypeOK, RInv, OnRecord, Restarts, RouteIsServed,
      ActiveListed, Started, Settling, Working, Assumed, Release, None, Removing
<1> QED
  BY <1>1, <1>2, <1>3 DEF IInv

LEMMA BuildInv == ASSUME IInv, Assumed, Build PROVE IInv'
<1>1. LInv'
  BY LockStutterInv DEF Build, Step, IInv
<1>2. PInv'
  BY <1>1, ReleasesAssumption
  DEF Build, Step, dockerVars, history, IInv, PInv, LInv, TypeOK, ActiveListed,
      Places2, Working, Settling, Removing, Assumed, Release, None, ImagesWithout
<1>3. RInv'
  BY ReleasesAssumption
  DEF Build, Step, dockerVars, history, IInv, PInv, TypeOK, RInv, OnRecord, Restarts, RouteIsServed,
      ActiveListed, Started, Settling, Working, Assumed, Release, None, Removing
<1> QED
  BY <1>1, <1>2, <1>3 DEF IInv

LEMMA BuildFailsInv == ASSUME IInv, Assumed, BuildFails PROVE IInv'
<1>1. LInv'
  BY LockStutterInv DEF BuildFails, Fails, Throws, IInv
<1>2. PInv'
  BY <1>1, ReleasesAssumption
  DEF BuildFails, Fails, Throws, dockerVars, history, IInv, PInv, LInv, TypeOK, ActiveListed,
      Places2, Working, Settling, Removing, Assumed, Release, None, ImagesWithout
<1>3. RInv'
  BY ReleasesAssumption
  DEF BuildFails, Fails, Throws, dockerVars, history, IInv, PInv, TypeOK, RInv, OnRecord, Restarts, RouteIsServed,
      ActiveListed, Started, Settling, Working, Assumed, Release, None, Removing
<1> QED
  BY <1>1, <1>2, <1>3 DEF IInv

LEMMA UpInv == ASSUME IInv, Assumed, Up PROVE IInv'
<1>1. LInv'
  BY LockStutterInv DEF Up, Step, IInv
<1>2. PInv'
  BY <1>1, ReleasesAssumption
  DEF Up, Step, dockerVars, history, IInv, PInv, LInv, TypeOK, ActiveListed,
      Places2, Working, Settling, Removing, Assumed, Release, None, ImagesWithout
<1>3. RInv'
  BY ReleasesAssumption
  DEF Up, Step, dockerVars, history, IInv, PInv, TypeOK, RInv, OnRecord, Restarts, RouteIsServed,
      ActiveListed, Started, Settling, Working, Assumed, Release, None, Removing
<1> QED
  BY <1>1, <1>2, <1>3 DEF IInv

LEMMA UpFailsInv == ASSUME IInv, Assumed, UpFails PROVE IInv'
<1>1. LInv'
  BY LockStutterInv DEF UpFails, Fails, Throws, IInv
<1>2. PInv'
  BY <1>1, ReleasesAssumption
  DEF UpFails, Fails, Throws, dockerVars, history, IInv, PInv, LInv, TypeOK, ActiveListed,
      Places2, Working, Settling, Removing, Assumed, Release, None, ImagesWithout
<1>3. RInv'
  BY ReleasesAssumption
  DEF UpFails, Fails, Throws, dockerVars, history, IInv, PInv, TypeOK, RInv, OnRecord, Restarts, RouteIsServed,
      ActiveListed, Started, Settling, Working, Assumed, Release, None, Removing
<1> QED
  BY <1>1, <1>2, <1>3 DEF IInv

LEMMA EnsureProxyInv == ASSUME IInv, Assumed, EnsureProxy PROVE IInv'
<1>1. LInv'
  BY LockStutterInv DEF EnsureProxy, Step, IInv
<1>2. PInv'
  <2>1. previous' \in Release \cup {None} /\ previous' = file.active
    BY ActiveType DEF EnsureProxy, Step, IInv, PInv, Working
  <2>2. /\ caddyfile' \in Release \cup {None} /\ route' \in Release \cup {None}
        /\ caddyfile' <= built /\ route' <= built
    BY ReleasesAssumption DEF EnsureProxy, MadeAnew, IInv, PInv, TypeOK, None
  <2>3. proxy' \in BOOLEAN
    BY DEF EnsureProxy, MadeAnew, IInv, PInv, TypeOK
  <2> QED
    BY <1>1, <2>1, <2>2, <2>3
    DEF EnsureProxy, Step, history, IInv, PInv, LInv, TypeOK, ActiveListed, Places2, Working, Settling, Removing
<1>3. RInv'
  BY ReleasesAssumption
  DEF EnsureProxy, MadeAnew, Step, dockerVars, history, IInv, PInv, TypeOK, RInv, OnRecord, Restarts, RouteIsServed,
      ActiveListed, Started, Settling, Working, Assumed, Release, None, Removing
<1> QED
  BY <1>1, <1>2, <1>3 DEF IInv

LEMMA EnsureProxyFailsInv == ASSUME IInv, Assumed, EnsureProxyFails PROVE IInv'
<1>1. LInv'
  BY LockStutterInv DEF EnsureProxyFails, Fails, IInv
<1>2. /\ pc = "proxy" /\ Throws("plain")
      /\ UNCHANGED <<faults, op, rel, previous, mem, file, images, up, built, torn, withdrawn>>
      /\ proxy' \in BOOLEAN
      /\ caddyfile' \in {caddyfile, None} /\ route' \in {route, None}
  BY DEF EnsureProxyFails, MadeAnew, Fails, history, IInv, PInv, TypeOK
<1>3. /\ rel \in Release /\ op \in {"deploy", "rollback"} /\ mem = file
      /\ op = "deploy" => route # rel /\ caddyfile # rel
  BY <1>2 DEF IInv, PInv, RInv, TypeOK, Working
<1>4. failure' = "plain" /\ pc' = IF op = "deploy" THEN "clean" ELSE "note"
  BY <1>2, <1>3 DEF Throws
<1>5. /\ caddyfile' \in Release \cup {None} /\ route' \in Release \cup {None}
      /\ caddyfile' <= built /\ route' <= built
  BY <1>2, ReleasesAssumption DEF IInv, PInv, TypeOK, None
<1>6. PInv'
  BY <1>1, <1>2, <1>3, <1>4, <1>5
  DEF IInv, PInv, LInv, TypeOK, ActiveListed, Places2, Working, Settling, Removing
<1>7. RInv'
  <2>1. rel # None
    BY <1>3, ReleasesAssumption DEF Release, None
  <2> QED
    BY <1>2, <1>3, <1>4, <2>1
    DEF IInv, RInv, OnRecord, Restarts, RouteIsServed, Started, Settling
<1> QED
  BY <1>1, <1>6, <1>7 DEF IInv

LEMMA WriteCaddyfileInv == ASSUME IInv, Assumed, WriteCaddyfile PROVE IInv'
<1>1. LInv'
  BY LockStutterInv DEF WriteCaddyfile, Step, IInv
<1>2. PInv'
  BY <1>1, ReleasesAssumption
  DEF WriteCaddyfile, Step, dockerVars, history, IInv, PInv, LInv, TypeOK, ActiveListed,
      Places2, Working, Settling, Removing, Assumed, Release, None, ImagesWithout
<1>3. RInv'
  BY ReleasesAssumption
  DEF WriteCaddyfile, Step, dockerVars, history, IInv, PInv, TypeOK, RInv, OnRecord, Restarts, RouteIsServed,
      ActiveListed, Started, Settling, Working, Assumed, Release, None, Removing
<1> QED
  BY <1>1, <1>2, <1>3 DEF IInv

LEMMA ReloadInv == ASSUME IInv, Assumed, Reload PROVE IInv'
<1>1. LInv'
  BY LockStutterInv DEF Reload, Step, IInv
<1>2. PInv'
  BY <1>1, ReleasesAssumption
  DEF Reload, Step, dockerVars, history, IInv, PInv, LInv, TypeOK, ActiveListed,
      Places2, Working, Settling, Removing, Assumed, Release, None, ImagesWithout
<1>3. RInv'
  BY ReleasesAssumption
  DEF Reload, Step, dockerVars, history, IInv, PInv, TypeOK, RInv, OnRecord, Restarts, RouteIsServed,
      ActiveListed, Started, Settling, Working, Assumed, Release, None, Removing
<1> QED
  BY <1>1, <1>2, <1>3 DEF IInv

LEMMA SwitchFailsInv == ASSUME IInv, Assumed, SwitchFails PROVE IInv'
<1>1. LInv'
  BY LockStutterInv DEF SwitchFails, Fails, Throws, IInv
<1>2. PInv'
  BY <1>1, ReleasesAssumption
  DEF SwitchFails, Fails, Throws, dockerVars, history, IInv, PInv, LInv, TypeOK, ActiveListed,
      Places2, Working, Settling, Removing, Assumed, Release, None, ImagesWithout
<1>3. RInv'
  BY ReleasesAssumption
  DEF SwitchFails, Fails, Throws, dockerVars, history, IInv, PInv, TypeOK, RInv, OnRecord, Restarts, RouteIsServed,
      ActiveListed, Started, Settling, Working, Assumed, Release, None, Removing
<1> QED
  BY <1>1, <1>2, <1>3 DEF IInv

LEMMA VerifyInv == ASSUME IInv, Assumed, Verify PROVE IInv'
<1>1. LInv'
  BY LockStutterInv DEF Verify, Step, IInv
<1>2. PInv'
  BY <1>1, ReleasesAssumption
  DEF Verify, Step, dockerVars, history, IInv, PInv, LInv, TypeOK, ActiveListed,
      Places2, Working, Settling, Removing, Assumed, Release, None, ImagesWithout
<1>3. RInv'
  BY ReleasesAssumption
  DEF Verify, Step, dockerVars, history, IInv, PInv, TypeOK, RInv, OnRecord, Restarts, RouteIsServed,
      ActiveListed, Started, Settling, Working, Assumed, Release, None, Removing
<1> QED
  BY <1>1, <1>2, <1>3 DEF IInv

LEMMA VerifyFailsInv == ASSUME IInv, Assumed, VerifyFails PROVE IInv'
<1>1. LInv'
  BY LockStutterInv DEF VerifyFails, Fails, Throws, Step, IInv
<1>2. PInv'
  BY <1>1, ReleasesAssumption
  DEF VerifyFails, Fails, Throws, Step, dockerVars, history, IInv, PInv, LInv, TypeOK, ActiveListed,
      Places2, Working, Settling, Removing, Assumed, Release, None, ImagesWithout
<1>3. RInv'
  BY ReleasesAssumption
  DEF VerifyFails, Fails, Throws, Step, dockerVars, history, IInv, PInv, TypeOK, RInv, OnRecord, Restarts, RouteIsServed,
      ActiveListed, Started, Settling, Working, Assumed, Release, None, Removing
<1> QED
  BY <1>1, <1>2, <1>3 DEF IInv

LEMMA RestoreInv == ASSUME IInv, Assumed, Restore PROVE IInv'
<1>1. LInv'
  BY LockStutterInv DEF Restore, Fails, Throws, IInv
<1>2. PInv'
  BY <1>1, ReleasesAssumption
  DEF Restore, Fails, Throws, dockerVars, history, IInv, PInv, LInv, TypeOK, ActiveListed,
      Places2, Working, Settling, Removing, Assumed, Release, None, ImagesWithout
<1>3. RInv'
  BY ReleasesAssumption
  DEF Restore, Fails, Throws, dockerVars, history, IInv, PInv, TypeOK, RInv, OnRecord, Restarts, RouteIsServed,
      ActiveListed, Started, Settling, Working, Assumed, Release, None, Removing
<1> QED
  BY <1>1, <1>2, <1>3 DEF IInv

LEMMA RestoreFailsInv == ASSUME IInv, Assumed, RestoreFails PROVE IInv'
<1>1. LInv'
  BY LockStutterInv DEF RestoreFails, Fails, Throws, IInv
<1>2. PInv'
  BY <1>1, ReleasesAssumption
  DEF RestoreFails, Fails, Throws, dockerVars, history, IInv, PInv, LInv, TypeOK, ActiveListed,
      Places2, Working, Settling, Removing, Assumed, Release, None, ImagesWithout
<1>3. RInv'
  BY ReleasesAssumption
  DEF RestoreFails, Fails, Throws, dockerVars, history, IInv, PInv, TypeOK, RInv, OnRecord, Restarts, RouteIsServed,
      ActiveListed, Started, Settling, Working, Assumed, Release, None, Removing
<1> QED
  BY <1>1, <1>2, <1>3 DEF IInv

LEMMA Drained ==
  ASSUME PInv, Assumed, Drain
  PROVE  Step("drain", "retire") /\ up' = up \ {previous} /\ UNCHANGED failure
BY DEF Drain, PInv, TypeOK, Assumed

LEMMA DrainInv == ASSUME IInv, Assumed, Drain PROVE IInv'
<1>0. Step("drain", "retire") /\ up' = up \ {previous} /\ UNCHANGED failure
  BY Drained DEF IInv
<1>1. LInv'
  BY <1>0, LockStutterInv DEF Step, IInv
<1>2. PInv'
  BY <1>0, <1>1, ReleasesAssumption
  DEF Drain, Step, dockerVars, history, IInv, PInv, LInv, TypeOK, ActiveListed,
      Places2, Working, Settling, Removing, Assumed, Release, None, ImagesWithout
<1>3. RInv'
  BY <1>0, ReleasesAssumption
  DEF Drain, Step, dockerVars, history, IInv, PInv, TypeOK, RInv, OnRecord, Restarts, RouteIsServed,
      ActiveListed, Started, Settling, Working, Assumed, Release, None, Removing
<1> QED
  BY <1>1, <1>2, <1>3 DEF IInv

LEMMA CleanUpInv == ASSUME IInv, Assumed, CleanUp PROVE IInv'
<1>1. LInv'
  BY LockStutterInv DEF CleanUp, Step, IInv
<1>2. PInv'
  BY <1>1, ReleasesAssumption
  DEF CleanUp, Step, dockerVars, history, IInv, PInv, LInv, TypeOK, ActiveListed,
      Places2, Working, Settling, Removing, Assumed, Release, None, ImagesWithout
<1>3. RInv'
  BY ReleasesAssumption
  DEF CleanUp, Step, dockerVars, history, IInv, PInv, TypeOK, RInv, OnRecord, Restarts, RouteIsServed,
      ActiveListed, Started, Settling, Working, Assumed, Release, None, Removing
<1> QED
  BY <1>1, <1>2, <1>3 DEF IInv

LEMMA RemoveProxyInv == ASSUME IInv, Assumed, RemoveProxy PROVE IInv'
<1>1. LInv'
  BY LockStutterInv DEF RemoveProxy, Step, IInv
<1>2. PInv'
  <2>1. /\ mem' = file /\ file' = file /\ pc' # "idle"
        /\ \A t \in {mem', file'}, r \in Release : t.place[r] = 0 <=> t.status[r] = "none"
    BY DEF RemoveProxy, Step, IInv, PInv, TypeOK
  <2>2. rel' = None /\ None <= built /\ built \in Nat
    BY ReleasesAssumption DEF RemoveProxy, IInv, PInv, TypeOK, None
  <2>3. TypeOK'
    BY <1>1, <2>1, <2>2, ReleasesAssumption DEF RemoveProxy, Step, dockerVars, history, IInv, PInv, LInv, TypeOK, Places2
  <2> QED
    BY <2>1, <2>2, <2>3, ActiveType, ReleasesAssumption
    DEF RemoveProxy, Step, dockerVars, history, IInv, PInv, TypeOK, ActiveListed, Working, Settling, Removing, Release, None
<1>3. RInv'
  BY ReleasesAssumption
  DEF RemoveProxy, Step, dockerVars, history, IInv, PInv, TypeOK, RInv, OnRecord, Restarts, RouteIsServed,
      ActiveListed, Started, Settling, Working, Assumed, Release, None, Removing
<1> QED
  BY <1>1, <1>2, <1>3 DEF IInv

LEMMA DownAllInv == ASSUME IInv, Assumed, DownAll PROVE IInv'
<1>1. LInv'
  BY LockStutterInv DEF DownAll, Step, IInv
<1>2. PInv'
  BY <1>1, ReleasesAssumption
  DEF DownAll, Step, dockerVars, history, IInv, PInv, LInv, TypeOK, ActiveListed,
      Places2, Working, Settling, Removing, Assumed, Release, None, ImagesWithout
<1>3. RInv'
  BY ReleasesAssumption
  DEF DownAll, Step, dockerVars, history, IInv, PInv, TypeOK, RInv, OnRecord, Restarts, RouteIsServed,
      ActiveListed, Started, Settling, Working, Assumed, Release, None, Removing
<1> QED
  BY <1>1, <1>2, <1>3 DEF IInv

-----------------------------------------------------------------------------
(* The steps that change the record.                                       *)

\* Without the fault "write" the file is what the operation works on.
LEMMA Written ==
  ASSUME PInv, Assumed, NEW from, NEW to, NEW state, WriteState(from, to, state)
  PROVE  pc = from /\ pc' = to /\ mem' = state /\ file' = state /\ UNCHANGED <<lockVars, faults, failure>>
BY DEF WriteState, Step, PInv, TypeOK, Assumed

LEMMA RecordInv == ASSUME IInv, Assumed, Record PROVE IInv'
<1> DEFINE old == WithStatus(mem, previous, "previous")
           new == WithStatus(old, rel, "active")
           state == Listed(new, rel, rel)
<1>1. /\ pc = "record" /\ pc' = (IF previous # None THEN "drain" ELSE "retire")
      /\ mem' = state /\ file' = state /\ UNCHANGED <<lockVars, faults, failure>>
      /\ torn' = FALSE /\ withdrawn' = FALSE
      /\ UNCHANGED <<op, rel, previous, images, up, proxy, caddyfile, route, built>>
  BY Written DEF Record, IInv, dockerVars
<1>2. /\ mem \in State /\ rel \in Release /\ previous = file.active /\ file.active # rel /\ mem = file
      /\ \A r \in Release : mem.place[r] = 0 <=> mem.status[r] = "none"
      /\ ActiveListed(file)
      /\ "active" \in Status /\ "previous" \in Status
  BY <1>1 DEF IInv, PInv, TypeOK, Working, Status
<1>3. /\ old \in State /\ old.place = mem.place
      /\ \A r \in Release : old.status[r] = IF r = previous THEN "previous" ELSE mem.status[r]
  BY <1>2, WithStatusFacts
<1>4. /\ new \in State /\ new.place = mem.place
      /\ \A r \in Release : new.status[r] = IF r = rel THEN "active" ELSE old.status[r]
  BY <1>2, <1>3, WithStatusFacts
<1> HIDE DEF old, new
<1>5. \A r \in Release : r # rel => (new.place[r] = 0 <=> new.status[r] = "none")
  BY <1>2, <1>3, <1>4 DEF ActiveListed, None, Release
<1>6. state \in State /\ Recorded(state) /\ state.active = rel /\ ActiveListed(state)
  BY <1>2, <1>4, <1>5, ListedFacts
<1> HIDE DEF state
<1>7. LInv'
  BY <1>1, LockStutterInv DEF IInv
<1>8. \A t \in {mem', file'}, r \in Release : t.place[r] = 0 <=> t.status[r] = "none"
  BY <1>1, <1>6 DEF Recorded
<1>9. PInv'
  BY <1>1, <1>2, <1>6, <1>7, <1>8
  DEF IInv, PInv, LInv, TypeOK, ActiveListed, Places2, Working, Settling, Removing
<1>10. RInv'
  BY <1>1, <1>2, <1>6
  DEF IInv, PInv, TypeOK, RInv, OnRecord, Restarts, RouteIsServed, Started, Settling, Release, None
<1> QED
  BY <1>7, <1>9, <1>10 DEF IInv

LEMMA RetireInv == ASSUME IInv, Assumed, Retire PROVE IInv'
<1> DEFINE status == [r \in Release |-> IF r \in Retired(mem) THEN "retired" ELSE mem.status[r]]
<1>1. /\ pc = "retire" /\ pc' = "save" /\ UNCHANGED <<lockVars, faults>>
      /\ mem' = [mem EXCEPT !.status = status]
      /\ images' \subseteq images
      /\ UNCHANGED <<op, rel, previous, failure, file, up, proxy, caddyfile, route, built, torn, withdrawn>>
  BY DEF Retire, Step, history, ImagesWithout
<1>2. mem \in State /\ mem.status \in [Release -> Status] /\ \A r \in Release : mem.place[r] = 0 <=> mem.status[r] = "none"
  BY DEF IInv, PInv, TypeOK, State
<1>3. \A r \in Retired(mem) : r \in Release /\ mem.status[r] = "previous"
  BY DEF Retired, Previous
<1>4. status \in [Release -> Status] /\ \A r \in Release : status[r] = "none" <=> mem.status[r] = "none"
  BY <1>2, <1>3 DEF Status
<1> HIDE DEF status
<1>5. mem' \in State /\ mem'.active = mem.active /\ mem'.place = mem.place /\ mem'.status = status
  BY <1>1, <1>2, <1>4 DEF State
<1>6. \A t \in {mem', file'}, r \in Release : t.place[r] = 0 <=> t.status[r] = "none"
  <2>1. \A r \in Release : mem'.place[r] = 0 <=> mem'.status[r] = "none"
    BY <1>2, <1>4, <1>5
  <2>2. \A r \in Release : file'.place[r] = 0 <=> file'.status[r] = "none"
    BY <1>1 DEF IInv, PInv, TypeOK
  <2> QED
    BY <2>1, <2>2
<1>7. LInv'
  BY <1>1, LockStutterInv DEF IInv
<1>8. PInv'
  BY <1>1, <1>5, <1>6, <1>7
  DEF IInv, PInv, LInv, TypeOK, ActiveListed, Places2, Working, Settling, Removing
<1>9. RInv'
  BY <1>1 DEF IInv, RInv, OnRecord, Restarts, RouteIsServed, Started, Settling
<1> QED
  BY <1>7, <1>8, <1>9 DEF IInv

LEMMA SaveInv == ASSUME IInv, Assumed, Save PROVE IInv'
<1>1. /\ pc = "save" /\ pc' = "done" /\ mem' = mem /\ file' = mem /\ UNCHANGED <<lockVars, faults, failure>>
      /\ UNCHANGED <<op, rel, previous, images, up, proxy, caddyfile, route, built, torn, withdrawn>>
  BY Written DEF Save, IInv, dockerVars, history
<1>2. LInv'
  BY <1>1, LockStutterInv DEF IInv
<1>3. mem.active = file.active /\ mem.place = file.place
  BY <1>1 DEF IInv, PInv, Settling
<1>4. \A t \in {mem', file'}, r \in Release : t.place[r] = 0 <=> t.status[r] = "none"
  BY <1>1 DEF IInv, PInv, TypeOK
<1>5. PInv'
  BY <1>1, <1>2, <1>3, <1>4
  DEF IInv, PInv, LInv, TypeOK, ActiveListed, Places2, Working, Settling, Removing
<1>6. RInv'
  BY <1>1, <1>3 DEF IInv, RInv, OnRecord, Restarts, RouteIsServed, Started, Settling
<1> QED
  BY <1>2, <1>5, <1>6 DEF IInv

\* What is noted of a failure is well formed, and the release that becomes
\* the active one by it is the one that could not be left.
LEMMA NotedFacts ==
  ASSUME IInv, pc = "note"
  PROVE  /\ Noted \in State /\ Recorded(Noted) /\ ActiveListed(Noted)
         /\ Noted.active = IF failure = "unrestored" THEN rel ELSE file.active
<1> DEFINE taken == IF failure = "unrestored" THEN WithStatus(mem, mem.active, "previous") ELSE mem
           active == IF failure = "unrestored" THEN rel ELSE mem.active
           failed == WithStatus(taken, rel, "failed")
<1>1. /\ mem \in State /\ rel \in Release /\ mem = file /\ ActiveListed(mem)
      /\ \A r \in Release : mem.place[r] = 0 <=> mem.status[r] = "none"
      /\ active \in Release \cup {None} /\ op \in {"deploy", "rollback"}
      /\ op = "rollback" => mem.place[rel] # 0
      /\ "previous" \in Status /\ "failed" \in Status
  BY ActiveType DEF IInv, PInv, TypeOK, Working, Status
<1>2. taken \in State /\ taken.place = mem.place /\ taken.active = mem.active /\ Recorded(taken)
  <2>1. CASE failure = "unrestored"
    <3>1. \A r \in Release : r = mem.active => mem.place[r] # 0
      BY <1>1 DEF ActiveListed, None, Release
    <3> QED
      BY <1>1, <2>1, <3>1, WithStatusFacts DEF Recorded
  <2>2. CASE failure # "unrestored"
    BY <1>1, <2>2 DEF Recorded
  <2> QED
    BY <2>1, <2>2
<1>3. /\ failed \in State /\ failed.place = mem.place
      /\ \A r \in Release : failed.status[r] = IF r = rel THEN "failed" ELSE taken.status[r]
  BY <1>1, <1>2, WithStatusFacts
<1>4. Noted = IF op = "deploy" THEN Listed(failed, rel, active) ELSE [taken EXCEPT !.active = active]
  BY DEF Noted
<1>5. active \in Release => active = rel \/ mem.place[active] # 0
  BY <1>1 DEF ActiveListed, None, Release
<1> HIDE DEF taken, failed
<1>6. CASE op = "deploy"
  <2>1. \A r \in Release : r # rel => (failed.place[r] = 0 <=> failed.status[r] = "none")
    BY <1>2, <1>3 DEF Recorded
  <2>2. failed.status[rel] # "none"
    BY <1>1, <1>3
  <2> HIDE DEF active
  <2>3. /\ Listed(failed, rel, active) \in State /\ Recorded(Listed(failed, rel, active))
        /\ Listed(failed, rel, active).active = active /\ ActiveListed(Listed(failed, rel, active))
    BY <1>1, <1>3, <1>5, <2>1, <2>2, ListedFacts
  <2> QED
    BY <1>1, <1>4, <1>6, <2>3 DEF active
<1>7. CASE op = "rollback"
  <2>1. Noted = [taken EXCEPT !.active = active]
    BY <1>4, <1>7
  <2>2. /\ Noted \in State /\ Noted.active = active
        /\ Noted.place = taken.place /\ Noted.status = taken.status
    BY <1>1, <1>2, <2>1 DEF State
  <2> QED
    BY <1>1, <1>2, <1>7, <2>2 DEF Recorded, ActiveListed
<1> QED
  BY <1>1, <1>6, <1>7

LEMMA NoteInv == ASSUME IInv, Assumed, Note PROVE IInv'
<1>1. /\ pc = "note" /\ pc' = "done" /\ mem' = Noted /\ file' = Noted /\ UNCHANGED <<lockVars, faults, failure>>
      /\ UNCHANGED <<op, rel, previous, images, up, proxy, caddyfile, route, built, torn, withdrawn>>
  BY DEF Note, dockerVars, history, Assumed, IInv, PInv, TypeOK
<1>2. /\ Noted \in State /\ Recorded(Noted) /\ ActiveListed(Noted)
      /\ Noted.active = IF failure = "unrestored" THEN rel ELSE file.active
  BY <1>1, NotedFacts
<1>3. LInv'
  BY <1>1, LockStutterInv DEF IInv
<1>4. \A t \in {mem', file'}, r \in Release : t.place[r] = 0 <=> t.status[r] = "none"
  BY <1>1, <1>2 DEF Recorded
<1>5. PInv'
  BY <1>1, <1>2, <1>3, <1>4
  DEF IInv, PInv, LInv, TypeOK, Places2, Working, Settling, Removing
<1>6. RInv'
  BY <1>1, <1>2
  DEF IInv, PInv, TypeOK, RInv, OnRecord, Restarts, RouteIsServed, Started, Settling, Assumed
<1> QED
  BY <1>3, <1>5, <1>6 DEF IInv

LEMMA ForgetInv == ASSUME IInv, Assumed, Forget PROVE IInv'
<1> DEFINE status == [r \in Release |-> IF mem.status[r] \in {"none", "failed"} THEN mem.status[r] ELSE "retired"]
           state == [mem EXCEPT !.active = None, !.status = status]
<1>1. /\ pc = "forget" /\ pc' = "done" /\ mem' = state /\ file' = state /\ UNCHANGED <<lockVars, faults, failure>>
      /\ torn' = FALSE /\ UNCHANGED <<op, rel, previous, images, up, proxy, caddyfile, route, built, withdrawn>>
  BY Written DEF Forget, IInv, dockerVars
<1>2. /\ mem \in State /\ mem.status \in [Release -> Status] /\ mem.place \in [Release -> Nat]
      /\ \A r \in Release : mem.place[r] = 0 <=> mem.status[r] = "none"
  BY DEF IInv, PInv, TypeOK, State
<1>3. status \in [Release -> Status] /\ \A r \in Release : status[r] = "none" <=> mem.status[r] = "none"
  BY <1>2 DEF Status
<1> HIDE DEF status
<1>4. state \in State /\ state.active = None /\ state.place = mem.place /\ state.status = status
  BY <1>2, <1>3 DEF State
<1> HIDE DEF state
<1>5. LInv'
  BY <1>1, LockStutterInv DEF IInv
<1>6. \A t \in {mem', file'}, r \in Release : t.place[r] = 0 <=> t.status[r] = "none"
  BY <1>1, <1>2, <1>3, <1>4
<1>7. PInv'
  <2>1. None <= built
    BY ReleasesAssumption DEF IInv, PInv, TypeOK, None
  <2> QED
    BY <1>1, <1>4, <1>5, <1>6, <2>1
    DEF IInv, PInv, LInv, TypeOK, ActiveListed, Places2, Working, Settling, Removing
<1>8. RInv'
  BY <1>1, <1>4 DEF IInv, RInv, OnRecord, RouteIsServed, Started, Settling
<1> QED
  BY <1>5, <1>7, <1>8 DEF IInv

-----------------------------------------------------------------------------
(* The theorems.                                                           *)

LEMMA StutterInv == ASSUME IInv, UNCHANGED vars PROVE IInv'
<1>1. LInv'
  BY LockStutterInv DEF vars, IInv
<1>2. PInv' /\ RInv'
  BY <1>1 DEF vars, opVars, dockerVars, history, IInv, PInv, LInv, TypeOK, ActiveListed, RInv, OnRecord, Restarts, RouteIsServed
<1> QED
  BY <1>1, <1>2 DEF IInv

LEMMA StepInv == ASSUME IInv, Unraced, Assumed, [Next]_vars PROVE IInv'
<1>1. CASE OpStep
  BY <1>1, RefuseInv, BeginDeployInv, BeginRollbackInv, BuildInv, BuildFailsInv, UpInv, UpFailsInv,
     EnsureProxyInv, WriteCaddyfileInv, ReloadInv, SwitchFailsInv, VerifyInv, VerifyFailsInv,
     RestoreInv, RestoreFailsInv, EnsureProxyFailsInv, RecordInv, DrainInv, RetireInv, SaveInv, CleanUpInv, NoteInv,
     RemoveProxyInv, DownAllInv, ForgetInv DEF OpStep
<1>2. CASE \E p \in Proc : Lock(p) \/ Finish(p) \/ Crash(p)
  BY <1>2, LockInv, FinishInv, CrashInv
<1>3. CASE ProxyRestart
  BY <1>3, ProxyRestartInv
<1>4. CASE UNCHANGED vars
  BY <1>4, StutterInv
<1> QED
  BY <1>1, <1>2, <1>3, <1>4 DEF Next

THEOREM SpecIInv == ASSUME Unraced, Assumed PROVE Spec => []IInv
<1>1. Init => IInv
  BY InitInv
<1>2. IInv /\ [Next]_vars => IInv'
  BY StepInv
<1> QED
  BY <1>1, <1>2, PTL DEF Spec

\* The release that the public address points to runs as long as one is on
\* record, for any number of releases and records kept.
THEOREM DeployRouteIsServed == ASSUME Unraced, Assumed PROVE Spec => []RouteIsServed
<1>1. IInv => RouteIsServed
  BY DEF IInv, RInv
<1> QED
  BY <1>1, SpecIInv, PTL

-----------------------------------------------------------------------------
(* The refinement.                                                         *)

OnList == IF withdrawn THEN None ELSE file.active
Keeps == Promise!Next \/ UNCHANGED <<route, up, OnList>>

LEMMA StandsStill ==
  ASSUME UNCHANGED <<route, up, file, withdrawn>> PROVE Keeps
BY DEF Keeps, OnList

LEMMA StartsKeep ==
  ASSUME IInv, Up \/ UpFails PROVE Keeps
<1>1. rel \in Release /\ UNCHANGED <<route, file, withdrawn>> /\ (up' = up \cup {rel} \/ up' = up)
  BY DEF IInv, PInv, Working, Up, UpFails, Step, Fails, history
<1> QED
  BY <1>1 DEF Keeps, OnList, Promise!Next, Promise!Start

LEMMA SwitchesKeep ==
  ASSUME IInv, Assumed,
         EnsureProxy \/ EnsureProxyFails \/ Reload \/ SwitchFails \/ Restore \/ ProxyRestart
  PROVE  Keeps
<1>1. UNCHANGED <<up, file, withdrawn>>
  BY DEF EnsureProxy, EnsureProxyFails, Reload, SwitchFails, Restore, ProxyRestart, history
<1>2. \/ route' \in {route, None}
      \/ route' \in Release /\ (OnList # None => route' \in up)
  <2>1. CASE EnsureProxy \/ EnsureProxyFails
    BY <2>1 DEF EnsureProxy, EnsureProxyFails, MadeAnew
  <2>2. CASE Reload
    BY <2>2 DEF Reload, Step, IInv, PInv, RInv, Working, Started
  <2>3. CASE SwitchFails
    BY <2>3 DEF SwitchFails, Assumed, IInv, PInv, TypeOK
  <2>4. CASE Restore
    <3>1. pc = "restore" /\ route' = previous
      BY <2>4 DEF Restore, Fails
    <3> QED
      BY <3>1 DEF IInv, PInv, TypeOK, RInv, OnRecord, OnList
  <2>5. CASE ProxyRestart
    BY <2>5 DEF ProxyRestart, IInv, PInv, TypeOK, RInv, OnRecord, OnList, Restarts
  <2> QED
    BY <2>1, <2>2, <2>3, <2>4, <2>5
<1> QED
  BY <1>1, <1>2 DEF Keeps, OnList, Promise!Next, Promise!Switch, Promise!NewProxy

LEMMA StopsKeep ==
  ASSUME IInv, Assumed, Drain \/ CleanUp \/ DownAll PROVE Keeps
<1>1. UNCHANGED <<route, file, withdrawn>>
  BY DEF Drain, CleanUp, DownAll, history
<1>2. \E R \in SUBSET Release : up' = up \ R /\ (OnList = None \/ route \notin R)
  <2>1. CASE Drain
    <3>1. pc = "drain" /\ up' = up \ {previous} /\ route # previous
      BY <2>1, Drained DEF Step, IInv, PInv, RInv, Settling
    <3> DEFINE R == {previous} \cap Release
    <3>2. up' = up \ R /\ R \in SUBSET Release /\ route \notin R
      BY <3>1 DEF IInv, PInv, TypeOK
    <3> HIDE DEF R
    <3> QED
      BY <3>2
  <2>2. CASE CleanUp
    <3>1. pc = "clean" /\ up' = up \ {rel} /\ rel \in Release
      BY <2>2 DEF CleanUp, Step, IInv, PInv, Working
    <3>2. OnList = None \/ route \notin {rel}
      BY <3>1 DEF IInv, RInv, OnRecord, OnList
    <3>3. {rel} \in SUBSET Release
      BY <3>1
    <3> QED
      BY <3>1, <3>2, <3>3, Zenon
  <2>3. CASE DownAll
    <3>1. up' = up \ up /\ up \in SUBSET Release /\ OnList = None
      BY <2>3 DEF DownAll, Step, IInv, PInv, TypeOK, Removing, OnList
    <3> QED
      BY <3>1
  <2> QED
    BY <2>1, <2>2, <2>3
<1> QED
  BY <1>1, <1>2 DEF Keeps, OnList, Promise!Next, Promise!Stop

LEMMA RecordsKeep ==
  ASSUME IInv, Assumed, Record \/ Note PROVE Keeps
<1>1. UNCHANGED <<route, up>> /\ OnList' \in {OnList, route}
  <2>1. CASE Record
    <3>1. /\ pc = "record" /\ withdrawn' = FALSE /\ UNCHANGED <<route, up>>
          /\ file' = Listed(WithStatus(WithStatus(mem, previous, "previous"), rel, "active"), rel, rel)
      BY <2>1, Written DEF Record, dockerVars, IInv
    <3>2. file'.active = rel
      BY <3>1 DEF Listed
    <3>3. route = rel
      BY <3>1 DEF IInv, RInv
    <3> QED
      BY <3>1, <3>2, <3>3 DEF OnList
  <2>2. CASE Note
    <3>1. pc = "note" /\ file' = Noted /\ UNCHANGED <<route, up, withdrawn>>
      BY <2>2 DEF Note, dockerVars, history, Assumed, IInv, PInv, TypeOK
    <3>2. Noted.active = IF failure = "unrestored" THEN rel ELSE file.active
      BY <3>1, NotedFacts
    <3>3. failure = "unrestored" => route = rel
      BY <3>1 DEF IInv, RInv
    <3> QED
      BY <3>1, <3>2, <3>3 DEF OnList
  <2> QED
    BY <2>1, <2>2
<1> QED
  BY <1>1 DEF Keeps, OnList, Promise!Next, Promise!Record

LEMMA RemovalKeeps ==
  ASSUME IInv, Assumed, RemoveProxy \/ Forget \/ Save PROVE Keeps
<1>1. CASE RemoveProxy
  <2>1. route' = None /\ OnList' = None /\ UNCHANGED up
    BY <1>1 DEF RemoveProxy, OnList
  <2> QED
    BY <2>1 DEF Keeps, OnList, Promise!Next, Promise!Withdraw
<1>2. CASE Forget
  <2>1. UNCHANGED <<route, up, withdrawn>> /\ withdrawn
    BY <1>2, Written DEF Forget, dockerVars, IInv, PInv, Removing
  <2> QED
    BY <2>1 DEF Keeps, OnList
<1>3. CASE Save
  <2>1. UNCHANGED <<route, up, withdrawn>> /\ file' = mem /\ mem.active = file.active
    BY <1>3, Written DEF Save, dockerVars, history, IInv, PInv, Settling
  <2> QED
    BY <2>1 DEF Keeps, OnList
<1> QED
  BY <1>1, <1>2, <1>3

LEMMA StepKeeps == ASSUME IInv, Assumed, [Next]_vars PROVE Keeps
<1>1. CASE Refuse \/ BeginDeploy \/ BeginRollback \/ Build \/ BuildFails \/ WriteCaddyfile \/ Verify
           \/ VerifyFails \/ RestoreFails \/ Retire
  BY <1>1, StandsStill
  DEF Refuse, BeginDeploy, BeginRollback, Build, BuildFails, WriteCaddyfile, Verify, VerifyFails,
      RestoreFails, Retire, dockerVars, history
<1>2. CASE OpStep
  BY <1>1, <1>2, StartsKeep, SwitchesKeep, StopsKeep, RecordsKeep, RemovalKeeps DEF OpStep
<1>3. CASE \E p \in Proc : Lock(p) \/ Finish(p) \/ Crash(p)
  BY <1>3, StandsStill DEF Lock, Finish, Crash, dockerVars, history
<1>4. CASE ProxyRestart
  BY <1>4, SwitchesKeep
<1>5. CASE UNCHANGED vars
  BY <1>5, StandsStill DEF vars, dockerVars, history
<1> QED
  BY <1>2, <1>3, <1>4, <1>5 DEF Next

\* The deployer keeps the promise of PublicRoute: what is in operation is
\* only left for a release that runs, and not taken down while it is used.
THEOREM DeployKeepsPromise == ASSUME Unraced, Assumed PROVE Spec => KeepsPromise
<1>1. Init => Promise!Init
  BY DEF Init, Empty, Promise!Init
<1>2. IInv /\ [Next]_vars => [Promise!Next]_<<route, up, OnList>>
  BY StepKeeps DEF Keeps
<1>3. <<route, up, OnList>> = <<route, up, IF withdrawn THEN None ELSE file.active>>
  BY DEF OnList
<1> QED
  BY <1>1, <1>2, SpecIInv, PTL DEF Spec, KeepsPromise, Promise!Spec, Promise!routeVars, OnList

-----------------------------------------------------------------------------
(* The record and the address.                                             *)

\* A proxy that has lost its configuration is not left without one by a
\* failing command.
Steady == \A F \in FaultSets : ~("docker" \in F /\ "ports" \in F)

Switching == {"caddy", "reload", "verify", "restore", "record"}
Resting == {"idle", "build", "up", "proxy", "clean", "done"} \cup Settling
Agreed == route = file.active /\ (Restarts => caddyfile = file.active)

\* The record that nothing has broken off.
Whole == ~torn /\ file.active # None /\ pc \notin Removing

\* While it is whole, the address follows it: it is elsewhere only between the
\* switch and the record.
MInv ==
  /\ pc \in Switching \/ Whole => proxy
  /\ pc = "note" /\ failure = "unrestored" => file.active # None
  /\ Whole /\ pc \in Resting => Agreed
  /\ Whole /\ pc \in {"caddy", "reload"} /\ "docker" \in faults => route = file.active
  /\ Whole /\ pc = "note" /\ failure # "unrestored" => Agreed

\* What is thrown while a deploy or a rollback works is caught.
LEMMA ThrowsWorking ==
  ASSUME IInv, pc \in Working, NEW how, Throws(how)
  PROVE  /\ failure' = how
         /\ pc' \in {"clean", "note"}
         /\ how = "unrestored" => pc' = "note"
<1>1. op \in {"deploy", "rollback"}
  BY DEF IInv, PInv, TypeOK
<1>2. CASE op = "deploy"
  BY <1>2 DEF Throws
<1>3. CASE op = "rollback"
  BY <1>3 DEF Throws
<1> QED BY <1>1, <1>2, <1>3

LEMMA MatchBegins ==
  ASSUME IInv, MInv, Refuse \/ BeginDeploy \/ BeginRollback \/ Build \/ BuildFails \/ Up \/ UpFails
  PROVE  MInv'
<1>1. UNCHANGED <<faults, file, proxy, caddyfile, route, torn>>
  BY DEF Refuse, BeginDeploy, BeginRollback, Build, BuildFails, Up, UpFails, Step, Fails, dockerVars, history
<1>2. /\ pc \in {"idle", "build", "up"}
      /\ pc' \in {"build", "up", "proxy", "clean", "done"} \/ (pc' = "note" /\ failure' = "plain")
  <2>1. CASE Refuse \/ BeginDeploy \/ BeginRollback \/ Build \/ Up
    <3>1. \/ Step("idle", "done") \/ Step("idle", "build") \/ Step("idle", "up")
          \/ Step("build", "up") \/ Step("up", "proxy")
      BY <2>1 DEF Refuse, BeginDeploy, BeginRollback, Build, Up
    <3> QED BY <3>1 DEF Step
  <2>2. CASE BuildFails \/ UpFails
    BY <2>2, ThrowsWorking DEF BuildFails, UpFails, Fails, Working
  <2> QED BY <2>1, <2>2
<1> QED BY <1>1, <1>2 DEF MInv, Whole, Agreed, Restarts, Switching, Resting, Settling, Removing

LEMMA MatchSwitches ==
  ASSUME IInv, MInv, Assumed, Steady,
         EnsureProxy \/ EnsureProxyFails \/ WriteCaddyfile \/ Reload \/ SwitchFails
  PROVE  MInv'
<1>1. UNCHANGED <<faults, file, torn>> /\ faults \in FaultSets
  BY DEF EnsureProxy, EnsureProxyFails, WriteCaddyfile, Reload, SwitchFails, Step, Fails, history,
         IInv, PInv, TypeOK
<1>2. CASE EnsureProxy
  <2>1. pc = "proxy" /\ pc' = "caddy" /\ proxy' = TRUE
    BY <1>2 DEF EnsureProxy, MadeAnew, Step, IInv, PInv, TypeOK
  <2>2. Whole /\ "docker" \in faults => UNCHANGED route
    BY <1>1, <1>2, <2>1 DEF EnsureProxy, MustBeMade, Steady, MInv
  <2> QED BY <1>1, <2>1, <2>2 DEF MInv, Whole, Agreed, Switching, Resting, Settling, Removing
<1>3. CASE WriteCaddyfile
  BY <1>1, <1>3 DEF WriteCaddyfile, Step, MInv, Whole, Agreed, Switching, Resting, Settling, Removing
<1>4. CASE Reload
  BY <1>1, <1>4 DEF Reload, Step, MInv, Whole, Agreed, Switching, Resting, Settling, Removing
<1>5. CASE SwitchFails
  <2>1. /\ pc \in {"caddy", "reload"} /\ failure' = "plain" /\ pc' \in {"clean", "note"}
        /\ UNCHANGED <<caddyfile, route, proxy>> /\ "docker" \in faults
    <3>1. "cancel" \notin faults
      BY <1>1 DEF Assumed
    <3>2. \E from \in {"caddy", "reload"} : Fails(from, "plain")
      BY <1>5 DEF SwitchFails
    <3>3. pc \in {"caddy", "reload"} /\ failure' = "plain" /\ pc' \in {"clean", "note"}
      BY <3>2, ThrowsWorking DEF Fails, Working
    <3> QED BY <1>5, <3>1, <3>3 DEF SwitchFails
  <2>2. ~Restarts
    BY <1>1, <2>1 DEF Assumed, Restarts
  <2> QED BY <1>1, <2>1, <2>2 DEF MInv, Whole, Agreed, Restarts, Switching, Resting, Settling, Removing
<1>6. CASE EnsureProxyFails
  <2>1. pc = "proxy" /\ failure' = "plain" /\ pc' \in {"clean", "note"}
    BY <1>6, ThrowsWorking DEF EnsureProxyFails, Fails, Working
  <2>2. Whole => UNCHANGED <<caddyfile, route, proxy>>
    <3>1. "cancel" \notin faults /\ ~("docker" \in faults /\ "ports" \in faults)
      BY <1>1 DEF Assumed, Steady
    <3>2. Whole => proxy
      BY DEF MInv
    <3> QED BY <1>6, <3>1, <3>2 DEF EnsureProxyFails, MustBeMade
  <2> QED BY <1>1, <2>1, <2>2 DEF MInv, Whole, Agreed, Restarts, Switching, Resting, Settling, Removing
<1> QED BY <1>2, <1>3, <1>4, <1>5, <1>6

LEMMA MatchVerifies ==
  ASSUME IInv, MInv, Assumed, Verify \/ VerifyFails \/ Restore \/ RestoreFails
  PROVE  MInv'
<1>1. UNCHANGED <<faults, file, torn, proxy>>
  BY DEF Verify, VerifyFails, Restore, RestoreFails, Step, Fails, dockerVars, history
<1>2. CASE Verify
  BY <1>1, <1>2 DEF Verify, Step, MInv, Whole, Switching, Resting, Settling, Removing
<1>3. CASE VerifyFails
  <2>1. pc = "verify" /\ previous = file.active /\ (previous # None => mem.place[previous] # 0)
    <3>1. pc = "verify"
      BY <1>3 DEF VerifyFails, Step, Fails
    <3> QED BY <3>1 DEF IInv, PInv, ActiveListed, Working
  <2>2. \/ pc' = "restore"
        \/ file.active = None /\ pc' \in {"clean", "note"} /\ failure' = "plain"
    <3>1. CASE previous # None
      BY <1>3, <2>1, <3>1 DEF VerifyFails, Step
    <3>2. CASE previous = None
      <4>1. Fails("verify", "plain")
        BY <1>3, <3>2 DEF VerifyFails
      <4> QED BY <2>1, <3>2, <4>1, ThrowsWorking DEF Fails, Working
    <3> QED BY <3>1, <3>2
  <2> QED BY <1>1, <2>1, <2>2 DEF MInv, Whole, Switching, Resting, Settling, Removing
<1>4. CASE Restore
  <2>1. /\ pc = "restore" /\ previous = file.active /\ pc' \in {"clean", "note"} /\ failure' = "plain"
        /\ caddyfile' = previous /\ route' = previous
    BY <1>4, ThrowsWorking DEF Restore, Fails, IInv, PInv, Working
  <2> QED BY <1>1, <2>1 DEF MInv, Whole, Agreed, Switching, Resting, Settling, Removing
<1>5. CASE RestoreFails
  <2>1. pc = "restore" /\ file.active # None /\ pc' = "note" /\ failure' = "unrestored"
    BY <1>5, ThrowsWorking DEF RestoreFails, Fails, IInv, PInv, Working
  <2> QED BY <1>1, <2>1 DEF MInv, Whole, Switching, Resting, Settling, Removing
<1> QED BY <1>2, <1>3, <1>4, <1>5

LEMMA MatchRecords ==
  ASSUME IInv, MInv, Assumed, Record \/ Drain \/ Retire \/ Save \/ CleanUp \/ Note
  PROVE  MInv'
<1>1. UNCHANGED <<faults, proxy, caddyfile, route>>
  BY DEF Record, Drain, Retire, Save, CleanUp, Note, WriteState, Step, Fails, dockerVars
<1>2. CASE Record
  <2>1. /\ pc = "record" /\ pc' \in Settling
        /\ file' = Listed(WithStatus(WithStatus(mem, previous, "previous"), rel, "active"), rel, rel)
    BY <1>2, Written DEF Record, IInv, Settling
  <2>2. file'.active = rel /\ route = rel /\ caddyfile = rel
    BY <2>1 DEF Listed, IInv, RInv
  <2> QED BY <1>1, <2>1, <2>2 DEF MInv, Whole, Agreed, Switching, Resting, Settling, Removing
<1>3. CASE Drain \/ Retire \/ CleanUp
  <2>1. /\ UNCHANGED <<file, torn, failure>> /\ pc \in {"drain", "retire", "clean"}
        /\ pc' \in Settling \/ (pc' = "note" /\ failure = "plain")
    <3>1. CASE Drain \/ Retire
      <4>1. Step("drain", "retire") \/ Step("retire", "save")
        BY <3>1, Drained DEF Retire, IInv
      <4>2. UNCHANGED <<file, torn, failure>>
        BY <3>1, Drained DEF Drain, Retire, history, IInv
      <4> QED BY <4>1, <4>2 DEF Step, Settling
    <3>2. CASE CleanUp
      BY <1>3, <3>2 DEF CleanUp, Step, history, IInv, PInv
    <3> QED BY <1>3, <3>1, <3>2
  <2> QED BY <1>1, <2>1 DEF MInv, Whole, Agreed, Restarts, Switching, Resting, Settling, Removing
<1>4. CASE Save
  <2>1. pc = "save" /\ pc' = "done" /\ file'.active = file.active /\ UNCHANGED torn
    BY <1>4, Written DEF Save, history, IInv, PInv, Settling
  <2> QED BY <1>1, <2>1 DEF MInv, Whole, Agreed, Restarts, Switching, Resting, Settling, Removing
<1>5. CASE Note
  <2>1. pc = "note" /\ pc' = "done" /\ file' = Noted /\ UNCHANGED <<torn, failure>>
    BY <1>5 DEF Note, history, Assumed, IInv, PInv, TypeOK
  <2>2. file'.active = IF failure = "unrestored" THEN rel ELSE file.active
    BY <2>1, NotedFacts
  <2>3. failure = "unrestored" => route = rel /\ ~Restarts
    BY <2>1 DEF IInv, RInv, PInv, TypeOK, Assumed, Restarts
  <2> QED BY <1>1, <2>1, <2>2, <2>3 DEF MInv, Whole, Agreed, Restarts, Switching, Resting, Settling, Removing
<1> QED BY <1>2, <1>3, <1>4, <1>5

LEMMA MatchRemoves ==
  ASSUME IInv, MInv, Assumed, RemoveProxy \/ DownAll \/ Forget
  PROVE  MInv'
<1>1. CASE RemoveProxy \/ DownAll
  BY <1>1 DEF RemoveProxy, DownAll, Step, MInv, Whole, Switching, Resting, Settling, Removing
<1>2. CASE Forget
  <2>1. pc' = "done" /\ file'.active = None
    <3> DEFINE forgotten == [mem EXCEPT !.active = None,
                   !.status = [r \in Release |-> IF @[r] \in {"none", "failed"} THEN @[r] ELSE "retired"]]
    <3>1. forgotten.active = None
      BY DEF IInv, PInv, TypeOK, State
    <3>2. WriteState("forget", "done", forgotten)
      BY <1>2 DEF Forget
    <3> HIDE DEF forgotten
    <3> QED BY <3>1, <3>2, Written DEF IInv
  <2> QED BY <2>1 DEF MInv, Whole, Switching, Resting, Settling, Removing
<1> QED BY <1>1, <1>2

LEMMA MatchStep ==
  ASSUME IInv, MInv, Assumed, Steady, [Next]_vars
  PROVE  MInv'
<1>1. CASE OpStep
  BY <1>1, MatchBegins, MatchSwitches, MatchVerifies, MatchRecords, MatchRemoves DEF OpStep
<1>2. ASSUME NEW p \in Proc, Lock(p) PROVE MInv'
  BY <1>2 DEF Lock, opVars, dockerVars, history, MInv, Whole, Agreed, Restarts
<1>3. ASSUME NEW p \in Proc, Finish(p) PROVE MInv'
  BY <1>3 DEF Finish, NoOperation, dockerVars, history, MInv, Whole, Agreed, Restarts,
              Switching, Resting, Settling, Removing
<1>4. ASSUME NEW p \in Proc, Crash(p) PROVE MInv'
  <2>1. UNCHANGED <<faults, file, proxy, caddyfile, route>>
    BY <1>4 DEF Crash, dockerVars
  <2>2. CASE UNCHANGED <<opVars, torn>>
    BY <2>1, <2>2 DEF opVars, MInv, Whole, Agreed, Restarts
  <2>3. CASE pc' = "idle" /\ torn' = (torn \/ pc \notin {"idle", "done"})
    BY <2>1, <2>3 DEF MInv, Whole, Agreed, Restarts, Switching, Resting, Settling, Removing
  <2> QED BY <1>4, <2>2, <2>3 DEF Crash, NoOperation
<1>5. CASE ProxyRestart
  <2>1. /\ Restarts /\ "docker" \notin faults /\ route' = caddyfile
        /\ UNCHANGED <<faults, opVars, file, proxy, caddyfile, torn>>
    BY <1>5 DEF ProxyRestart, history, Assumed, Restarts, IInv, PInv, TypeOK
  <2> QED BY <2>1 DEF opVars, MInv, Whole, Agreed, Restarts
<1>6. CASE UNCHANGED vars
  BY <1>6 DEF vars, opVars, dockerVars, history, MInv, Whole, Agreed, Restarts
<1> QED BY <1>1, <1>2, <1>3, <1>4, <1>5, <1>6 DEF Next

\* Between two operations the record names what the public address points to,
\* unless a process died and nothing was recorded since.
THEOREM DeployStateMatches == ASSUME Unraced, Assumed, Steady PROVE Spec => []StateMatchesRoute
<1>1. Init => MInv
  BY EmptyFacts DEF Init, MInv, Whole, Switching
<1>2. IInv /\ MInv /\ [Next]_vars => MInv'
  BY MatchStep
<1>3. MInv => StateMatchesRoute
  BY DEF MInv, StateMatchesRoute, Whole, Resting, Removing, Agreed
<1> QED BY <1>1, <1>2, <1>3, SpecIInv, PTL DEF Spec

-----------------------------------------------------------------------------
(* The record and the images.                                              *)

Restorable(state) ==
  /\ \A r \in Release : state.status[r] = "previous" => r \in images
  /\ state.active # None => state.active \in images

\* An operation has the images of the release it works on from here on.
Imaged == pc \in {"up"} \cup Started \/ (pc = "note" /\ failure = "unrestored")

\* A release being built is on no list, so what clears it away takes nothing
\* that the record offers; what is retired leaves the list in memory first,
\* and the file with the save that follows.
QInv ==
  /\ \A r \in Release : file.place[r] # 0 => r <= built
  /\ pc \in Working /\ op = "deploy" => file.place[rel] = 0
  /\ "crash" \notin faults =>
       /\ pc \notin Removing \cup {"save"} => Restorable(file)
       /\ pc \in Settling => Restorable(mem)
       /\ Imaged => rel \in images

LEMMA ListedKeeps ==
  ASSUME NEW state \in State, NEW r \in Release, NEW active \in Release \cup {None}
  PROVE  /\ Listed(state, r, active).active = active
         /\ \A x \in Release : /\ Listed(state, r, active).place[x] # 0 => x = r \/ state.place[x] # 0
                               /\ Listed(state, r, active).status[x] \in {"none", state.status[x]}
<1> DEFINE moved == MovedUp(state.place, r)
           place == Trimmed(moved, active)
<1>1. /\ state.place \in [Release -> Nat] /\ state.status \in [Release -> Status]
      /\ Listed(state, r, active) =
           [active |-> active, place |-> place,
            status |-> [x \in Release |-> IF place[x] = 0 THEN "none" ELSE state.status[x]]]
  BY DEF State, Listed
<1>2. moved \in [Release -> Nat] /\ \A x \in Release : moved[x] = 0 <=> x # r /\ state.place[x] = 0
  BY <1>1, MovedUpFacts
<1>3. \A x \in Release : place[x] # 0 => moved[x] # 0
  BY <1>2, TrimmedFacts
<1> HIDE DEF moved, place
<1> QED
  BY <1>1, <1>2, <1>3

LEMMA ImagesBegin ==
  ASSUME IInv, QInv, Refuse \/ BeginDeploy \/ BeginRollback \/ Build \/ BuildFails \/ Up \/ UpFails
  PROVE  QInv'
<1>1. UNCHANGED <<faults, file>> /\ images \subseteq images'
  BY DEF Refuse, BeginDeploy, BeginRollback, Build, BuildFails, Up, UpFails, Step, Fails, dockerVars
<1>2. "crash" \notin faults => Restorable(file)'
  <2>1. pc \in {"idle", "build", "up"}
    BY DEF Refuse, BeginDeploy, BeginRollback, Build, BuildFails, Up, UpFails, Step, Fails
  <2> QED BY <1>1, <2>1 DEF QInv, Restorable, Removing
<1>3. CASE Refuse
  BY <1>1, <1>2, <1>3 DEF Refuse, Step, dockerVars, QInv, Imaged, Working, Started, Settling
<1>4. CASE BeginDeploy
  <2>1. pc' = "build" /\ rel' = built + 1 /\ built' = built + 1 /\ built \in Nat /\ rel' \in Release
    BY <1>4, ReleasesAssumption DEF BeginDeploy, Step, IInv, PInv, TypeOK, Release
  <2> QED BY <1>1, <1>2, <2>1, ReleasesAssumption DEF QInv, Imaged, Started, Settling, Release
<1>5. CASE BeginRollback
  <2>1. pc' = "up" /\ op' = "rollback" /\ rel' \in images /\ built' = built
    BY <1>5 DEF BeginRollback, Step, dockerVars
  <2> QED BY <1>1, <1>2, <2>1 DEF QInv, Settling
<1>6. CASE Build \/ Up
  <2>1. UNCHANGED <<op, rel, built>>
    BY <1>6 DEF Build, Up
  <2>2. (pc = "build" /\ pc' = "up" /\ rel \in images') \/ (pc = "up" /\ pc' = "proxy")
    BY <1>6 DEF Build, Up, Step
  <2> QED BY <1>1, <1>2, <2>1, <2>2 DEF QInv, Imaged, Working, Started, Settling
<1>7. CASE BuildFails \/ UpFails
  <2>1. UNCHANGED <<op, rel, built>>
    BY <1>7 DEF BuildFails, UpFails
  <2>2. pc \in {"build", "up"} /\ Throws("plain")
    BY <1>7 DEF BuildFails, UpFails, Fails
  <2>3. failure' = "plain" /\ pc' \in {"clean", "note"}
    BY <2>2, ThrowsWorking DEF Working
  <2> QED BY <1>1, <1>2, <2>1, <2>2, <2>3 DEF QInv, Imaged, Working, Started, Settling
<1> QED BY <1>3, <1>4, <1>5, <1>6, <1>7

LEMMA ImagesSwitch ==
  ASSUME IInv, QInv,
         EnsureProxy \/ EnsureProxyFails \/ WriteCaddyfile \/ Reload \/ SwitchFails
           \/ Verify \/ VerifyFails \/ Restore \/ RestoreFails
  PROVE  QInv'
<1>1. UNCHANGED <<faults, op, rel, mem, file, images, built>>
  BY DEF EnsureProxy, EnsureProxyFails, WriteCaddyfile, Reload, SwitchFails, Verify, VerifyFails, Restore, RestoreFails,
         Step, Fails, dockerVars
<1>2. pc \in {"proxy", "caddy", "reload", "verify", "restore"}
  BY DEF EnsureProxy, EnsureProxyFails, WriteCaddyfile, Reload, SwitchFails, Verify, VerifyFails, Restore, RestoreFails,
         Step, Fails
<1>3. pc' \in {"caddy", "reload", "verify", "restore", "record", "clean", "note"}
  <2>1. CASE EnsureProxy \/ WriteCaddyfile \/ Reload \/ Verify
    BY <2>1 DEF EnsureProxy, WriteCaddyfile, Reload, Verify, Step
  <2>2. CASE EnsureProxyFails \/ SwitchFails \/ VerifyFails \/ Restore \/ RestoreFails
    <3>1. Step("verify", "restore") \/ Throws("plain") \/ Throws("unrestored")
      BY <2>2 DEF EnsureProxyFails, SwitchFails, VerifyFails, Restore, RestoreFails, Fails
    <3> QED BY <1>2, <3>1, ThrowsWorking DEF Step, Working
  <2> QED BY <2>1, <2>2
<1>4. pc' # "save" /\ pc' \notin Removing /\ pc' \notin Settling /\ pc \notin Removing \cup {"save"}
  BY <1>2, <1>3 DEF Removing, Settling
<1>5. pc \in Working /\ Imaged
  BY <1>2 DEF Working, Imaged, Started
<1> QED BY <1>1, <1>4, <1>5 DEF QInv, Restorable

LEMMA ImagesRecord == ASSUME IInv, QInv, Assumed, Record PROVE QInv'
<1> DEFINE old == WithStatus(mem, previous, "previous")
           new == WithStatus(old, rel, "active")
           state == Listed(new, rel, rel)
<1>1. /\ pc = "record" /\ pc' \in {"drain", "retire"} /\ mem' = state /\ file' = state
      /\ UNCHANGED <<faults, op, rel, images, built>>
  BY Written DEF Record, dockerVars, IInv
<1>2. mem = file /\ mem \in State /\ rel \in Release /\ rel <= built /\ previous = mem.active
  BY <1>1 DEF IInv, PInv, TypeOK, Working
<1>3. /\ new \in State /\ new.place = mem.place
      /\ \A x \in Release : new.status[x] = IF x = rel THEN "active"
                                            ELSE IF x = previous THEN "previous" ELSE mem.status[x]
  <2>1. /\ old \in State /\ old.place = mem.place
        /\ \A x \in Release : old.status[x] = IF x = previous THEN "previous" ELSE mem.status[x]
    BY <1>2, WithStatusFacts DEF Status
  <2> HIDE DEF old
  <2> QED BY <1>2, <2>1, WithStatusFacts DEF Status
<1> HIDE DEF new
<1>4. /\ state.active = rel
      /\ \A x \in Release : /\ state.place[x] # 0 => x = rel \/ mem.place[x] # 0
                            /\ state.status[x] \in {"none", new.status[x]}
  BY <1>2, <1>3, ListedKeeps
<1> HIDE DEF state
<1>5. "crash" \notin faults => /\ rel \in images
                              /\ \A r \in Release : state.status[r] = "previous" => r \in images
  <2>1. "crash" \notin faults => Restorable(mem) /\ rel \in images
    BY <1>1, <1>2 DEF QInv, Imaged, Started, Removing
  <2> QED BY <1>2, <1>3, <1>4, <2>1 DEF Restorable, Release, None
<1>6. \A r \in Release : state.place[r] # 0 => r <= built
  BY <1>2, <1>4 DEF QInv
<1>7. pc' \notin Working /\ (Imaged' => rel' \in {rel})
  BY <1>1 DEF Working
<1> QED BY <1>1, <1>4, <1>5, <1>6, <1>7 DEF QInv, Restorable

LEMMA ImagesSettle ==
  ASSUME IInv, QInv, Assumed, Drain \/ Retire \/ Save
  PROVE  QInv'
<1>1. CASE Drain
  BY <1>1, Drained DEF Drain, Step, IInv, QInv, Restorable, Imaged, Working, Started, Settling, Removing
<1>2. CASE Retire
  <2>1. /\ pc = "retire" /\ pc' = "save" /\ UNCHANGED <<faults, file, rel, built>>
        /\ images' = ImagesWithout(Retired(mem))
        /\ mem' = [mem EXCEPT !.status = [r \in Release |-> IF r \in Retired(mem) THEN "retired" ELSE @[r]]]
    BY <1>2 DEF Retire, Step
  <2>2. /\ mem \in State /\ mem.active = rel /\ rel \in up
    BY <2>1 DEF IInv, PInv, TypeOK, RInv, Started, Settling
  <2>3. /\ mem'.active = mem.active
        /\ \A r \in Release : mem'.status[r] = IF r \in Retired(mem) THEN "retired" ELSE mem.status[r]
    BY <2>1, <2>2 DEF State
  <2>4. "crash" \notin faults => Restorable(mem) /\ rel \in images
    BY <2>1 DEF QInv, Imaged, Started, Settling
  <2>5. "crash" \notin faults => Restorable(mem)' /\ rel \in images'
    BY <2>1, <2>2, <2>3, <2>4 DEF Restorable, ImagesWithout
  <2> QED BY <2>1, <2>5 DEF QInv, Working, Settling
<1>3. CASE Save
  <2>1. /\ pc = "save" /\ pc' = "done" /\ mem' = mem /\ file' = mem /\ UNCHANGED <<faults, rel, images, built>>
    BY <1>3, Written DEF Save, dockerVars, IInv
  <2>2. mem.place = file.place
    BY <2>1 DEF IInv, PInv, Settling
  <2> QED BY <2>1, <2>2 DEF QInv, Restorable, Imaged, Working, Started, Settling
<1> QED BY <1>1, <1>2, <1>3

LEMMA ImagesClean == ASSUME IInv, QInv, CleanUp PROVE QInv'
<1>1. /\ pc = "clean" /\ pc' = "note" /\ UNCHANGED <<faults, op, rel, failure, mem, file, built>>
      /\ images' = images \ {rel}
  BY DEF CleanUp, Step
<1>2. op = "deploy" /\ failure = "plain" /\ file.active # rel /\ file.status[rel] = "none"
  BY <1>1 DEF IInv, PInv, TypeOK, QInv, Working
<1> QED BY <1>1, <1>2 DEF QInv, Restorable, Imaged, Working, Started, Settling, Removing

LEMMA ImagesNote == ASSUME IInv, QInv, Assumed, Note PROVE QInv'
<1> DEFINE taken == IF failure = "unrestored" THEN WithStatus(mem, mem.active, "previous") ELSE mem
           active == IF failure = "unrestored" THEN rel ELSE mem.active
           failed == WithStatus(taken, rel, "failed")
<1>1. pc = "note" /\ pc' = "done" /\ file' = Noted /\ UNCHANGED <<faults, rel, images, built>>
  BY DEF Note, dockerVars, Assumed, IInv, PInv, TypeOK
<1>2. /\ mem = file /\ mem \in State /\ rel \in Release /\ rel <= built
      /\ mem.active \in Release \cup {None}
  BY <1>1 DEF IInv, PInv, TypeOK, Working, State
<1>3. /\ taken \in State /\ taken.place = mem.place /\ active \in Release \cup {None}
      /\ \A x \in Release : \/ taken.status[x] = mem.status[x]
                            \/ failure = "unrestored" /\ x = mem.active
  BY <1>2, WithStatusFacts DEF Status
<1>4. "crash" \notin faults => Restorable(mem) /\ (failure = "unrestored" => rel \in images)
  BY <1>1, <1>2 DEF QInv, Imaged, Removing
<1>5. "crash" \notin faults => /\ active # None => active \in images
                              /\ \A x \in Release : taken.status[x] = "previous" => x \in images
  BY <1>2, <1>3, <1>4 DEF Restorable, Release, None
<1>6. Noted = IF op = "deploy" THEN Listed(failed, rel, active) ELSE [taken EXCEPT !.active = active]
  BY DEF Noted
<1> HIDE DEF taken, active
<1>7. /\ \A x \in Release : Noted.place[x] # 0 => x <= built
      /\ "crash" \notin faults => /\ Noted.active # None => Noted.active \in images
                                 /\ \A x \in Release : Noted.status[x] = "previous" => x \in images
  <2>1. CASE op = "deploy"
    <3>1. /\ failed \in State /\ failed.place = mem.place
          /\ \A x \in Release : failed.status[x] = IF x = rel THEN "failed" ELSE taken.status[x]
      BY <1>2, <1>3, WithStatusFacts DEF Status
    <3> HIDE DEF failed
    <3>2. /\ Noted.active = active
          /\ \A x \in Release : /\ Noted.place[x] # 0 => x = rel \/ mem.place[x] # 0
                                /\ Noted.status[x] \in {"none", failed.status[x]}
      BY <1>2, <1>3, <1>6, <2>1, <3>1, ListedKeeps
    <3> QED BY <1>2, <1>5, <3>1, <3>2 DEF QInv
  <2>2. CASE op # "deploy"
    <3>1. Noted.active = active /\ Noted.place = mem.place /\ Noted.status = taken.status
      BY <1>3, <1>6, <2>2 DEF State
    <3> QED BY <1>2, <1>5, <3>1 DEF QInv
  <2> QED BY <2>1, <2>2
<1> QED BY <1>1, <1>7 DEF QInv, Restorable, Imaged, Working, Started, Settling

LEMMA ImagesRemove ==
  ASSUME IInv, QInv, Assumed, RemoveProxy \/ DownAll \/ Forget
  PROVE  QInv'
<1>1. CASE RemoveProxy \/ DownAll
  <2>1. pc' \in Removing /\ UNCHANGED <<faults, file, built>>
    BY <1>1 DEF RemoveProxy, DownAll, Step, Removing
  <2> QED BY <2>1 DEF QInv, Imaged, Working, Started, Settling, Removing
<1>2. CASE Forget
  <2> DEFINE forgotten == [mem EXCEPT !.active = None,
               !.status = [r \in Release |-> IF @[r] \in {"none", "failed"} THEN @[r] ELSE "retired"]]
  <2>1. WriteState("forget", "done", forgotten) /\ built' = built
    BY <1>2 DEF Forget, dockerVars
  <2>2. /\ forgotten.active = None /\ forgotten.place = mem.place
        /\ \A r \in Release : forgotten.status[r] # "previous"
    BY DEF IInv, PInv, TypeOK, State
  <2> HIDE DEF forgotten
  <2>3. pc = "forget" /\ pc' = "done" /\ file' = forgotten /\ UNCHANGED <<faults, failure>>
    BY <2>1, Written DEF IInv
  <2>4. mem = file
    BY <2>3 DEF IInv, PInv, Removing
  <2> QED BY <2>1, <2>2, <2>3, <2>4 DEF QInv, Restorable, Imaged, Working, Started, Settling
<1> QED BY <1>1, <1>2

LEMMA ImagesStep == ASSUME IInv, QInv, Assumed, [Next]_vars PROVE QInv'
<1>1. CASE OpStep
  BY <1>1, ImagesBegin, ImagesSwitch, ImagesRecord, ImagesSettle, ImagesClean, ImagesNote, ImagesRemove
  DEF OpStep
<1>2. ASSUME NEW p \in Proc, Lock(p) PROVE QInv'
  BY <1>2 DEF Lock, opVars, dockerVars, QInv, Restorable, Imaged
<1>3. ASSUME NEW p \in Proc, Finish(p) PROVE QInv'
  BY <1>3 DEF Finish, NoOperation, dockerVars, QInv, Restorable, Imaged, Working, Started, Settling, Removing
<1>4. ASSUME NEW p \in Proc, Crash(p) PROVE QInv'
  <2>1. "crash" \in faults /\ UNCHANGED <<faults, file, built>>
    BY <1>4 DEF Crash, dockerVars
  <2>2. pc' = "idle" \/ UNCHANGED opVars
    BY <1>4 DEF Crash, NoOperation
  <2> QED BY <2>1, <2>2 DEF opVars, QInv, Working
<1>5. CASE ProxyRestart
  BY <1>5 DEF ProxyRestart, opVars, QInv, Restorable, Imaged
<1>6. CASE UNCHANGED vars
  BY <1>6 DEF vars, opVars, dockerVars, QInv, Restorable, Imaged
<1> QED BY <1>1, <1>2, <1>3, <1>4, <1>5, <1>6 DEF Next

\* A release that the record offers for a rollback still has its images, as
\* long as no process dies in between.
THEOREM DeployRestorable == ASSUME Unraced, Assumed PROVE Spec => []PreviousIsRestorable
<1>1. Init => QInv
  BY EmptyFacts DEF Init, QInv, Restorable, Imaged, Empty, Working, Started, Settling
<1>2. IInv /\ QInv /\ [Next]_vars => QInv'
  BY ImagesStep
<1>3. IInv /\ QInv => PreviousIsRestorable
  BY DEF IInv, PInv, TypeOK, State, QInv, PreviousIsRestorable, Restorable, Removing
<1> QED BY <1>1, <1>2, <1>3, SpecIInv, PTL DEF Spec
-----------------------------------------------------------------------------
(* Never two at a time, and a request ends after so many steps of its own. *)

\* The most steps that an operation has left, and a request with it: one that
\* takes the longest way goes through every place of #locked and of deploy().
OperationLeft ==
  [idle |-> 14, build |-> 13, up |-> 12, proxy |-> 11, caddy |-> 10, reload |-> 9,
   verify |-> 8, restore |-> 7, record |-> 7, drain |-> 6, retire |-> 5, save |-> 4,
   downAll |-> 6, forget |-> 5, clean |-> 3, note |-> 2, done |-> 1]

LockLeft == [open |-> 19, read |-> 18, unlink |-> 17, reopen |-> 16, write |-> 15]

StepsLeft(p) ==
  CASE at[p] = "out" -> 0
    [] at[p] = "held" -> OperationLeft[pc]
    [] OTHER -> LockLeft[at[p]]

\* A step begins a request, is docker's, or takes one request nearer its end
\* and leaves the others where they are: none is ever sent back by a failure, by
\* the process that has the lock, or by its death.
RequestAdvances ==
  [][\/ ProxyRestart
     \/ \E p \in Proc :
          /\ Ask(p) \/ StepsLeft(p)' < StepsLeft(p)
          /\ \A q \in Proc \ {p} : StepsLeft(q)' = StepsLeft(q)]_vars

\* What the count rests on, whatever may fail.
CountInv == LInv /\ pc \in Places2

LEMMA OneHolder ==
  ASSUME LInv, NEW p \in Proc, NEW q \in Proc, at[p] = "held", at[q] = "held"
  PROVE  p = q
BY DEF LInv

\* A step of the operation brings it nearer its end.
LEMMA OperationAdvances ==
  ASSUME CountInv, OpStep
  PROVE  /\ UNCHANGED lockVars /\ Holding
         /\ pc' \in Places2 /\ pc # "done"
         /\ OperationLeft[pc'] < OperationLeft[pc]
<1> USE DEF CountInv, Places2, OperationLeft
<1>1. CASE Refuse \/ BeginDeploy \/ BeginRollback \/ RemoveProxy
  BY <1>1 DEF Refuse, BeginDeploy, BeginRollback, RemoveProxy, Step
<1>2. CASE Build \/ Up \/ EnsureProxy
  <2>1. Step("build", "up") \/ Step("up", "proxy") \/ Step("proxy", "caddy")
    BY <1>2, Zenon DEF Build, Up, EnsureProxy
  <2> QED
    BY <2>1 DEF Step
<1>7. CASE WriteCaddyfile \/ Reload \/ Verify
  BY <1>7 DEF WriteCaddyfile, Reload, Verify, Step
<1>8. CASE EnsureProxyFails
  BY <1>8 DEF EnsureProxyFails, Fails, Throws
<1>3. CASE BuildFails \/ UpFails \/ SwitchFails \/ VerifyFails
  BY <1>3 DEF BuildFails, UpFails, SwitchFails, VerifyFails, Fails, Throws, Step
<1>4. CASE Restore \/ RestoreFails
  BY <1>4 DEF Restore, RestoreFails, Fails, Throws
<1>5. CASE Record \/ Save \/ Forget
  BY <1>5 DEF Record, Save, Forget, WriteState, Step, Fails, Throws
<1>6. CASE Drain \/ Retire \/ DownAll \/ CleanUp \/ Note
  BY <1>6 DEF Drain, Retire, DownAll, CleanUp, Note, Step, Fails, Throws
<1> QED
  BY <1>1, <1>2, <1>3, <1>4, <1>5, <1>6, <1>7, <1>8 DEF OpStep

\* A step of a request in #locked brings it nearer its end.
LEMMA AcquireAdvances ==
  ASSUME CountInv, NEW p \in Proc, Acquire(p), UNCHANGED pc
  PROVE  StepsLeft(p)' < StepsLeft(p) /\ \A q \in Proc \ {p} : at'[q] = at[q]
<1>1. at \in [Proc -> Places] /\ OperationLeft[pc] \in 1 .. 14
  BY DEF CountInv, LInv, LockTypeOK, OperationLeft, Places2
<1> USE <1>1 DEF Goto, StepsLeft, LockLeft, Places
<1>2. CASE Open(p)
  BY <1>2 DEF Open
<1>3. CASE Exists(p)
  BY <1>3 DEF Exists
<1>4. CASE Read(p)
  BY <1>4 DEF Read
<1>5. CASE Unlink(p)
  BY <1>5 DEF Unlink
<1>6. CASE Write(p)
  BY <1>6 DEF Write
<1> QED
  BY <1>2, <1>3, <1>4, <1>5, <1>6 DEF Acquire

LEMMA CountStep == ASSUME CountInv, Unraced, [Next]_vars PROVE CountInv'
<1>1. CASE OpStep
  BY <1>1, OperationAdvances, LockStutterInv DEF CountInv
<1>2. ASSUME NEW p \in Proc, Lock(p) \/ Finish(p) \/ Crash(p) PROVE CountInv'
  <2>1. LInv'
    BY <1>2, LockStepInv DEF Lock, Finish, Crash, CountInv
  <2>2. pc' \in {pc, "idle"}
    BY <1>2 DEF Lock, Finish, Crash, NoOperation, opVars
  <2> QED
    BY <2>1, <2>2 DEF CountInv, Places2
<1>3. CASE ProxyRestart \/ UNCHANGED vars
  BY <1>3, LockStutterInv DEF ProxyRestart, vars, opVars, CountInv
<1> QED
  BY <1>1, <1>2, <1>3 DEF Next

LEMMA CountForever == ASSUME Unraced PROVE Spec => []CountInv
<1>1. Init => CountInv
  BY LockInitInv DEF Init, CountInv, Places2
<1>2. CountInv /\ [Next]_vars => CountInv'
  BY CountStep
<1> QED
  BY <1>1, <1>2, PTL DEF Spec

\* Of any number of processes that ask for the lock, find it taken, take it over
\* from a dead one and die, all at the same time, never two deploy, whatever else
\* may fail, unless one hits one of the two moments of Races; with either of
\* them two do (MutualExclusion, deploy.ts:480-503).
THEOREM DeployMutualExclusion == ASSUME Unraced PROVE Spec => []MutualExclusion
<1>1. CountInv => MutualExclusion
  BY OneHolder DEF CountInv, MutualExclusion
<1> QED
  BY <1>1, CountForever, PTL

\* Whatever fails and whoever dies, as long as no process hits a moment of Races,
\* every step of a request brings it nearer its end and no step of another one
\* sends it back: a request for a deployment is over after nineteen steps of its
\* own (the safety half of RequestEnds; #locked and deploy(), deploy.ts:170-233,
\* :480-503).
THEOREM DeployRequestAdvances == ASSUME Unraced PROVE Spec => RequestAdvances
<1> DEFINE Advances == \/ ProxyRestart
                       \/ \E p \in Proc : /\ Ask(p) \/ StepsLeft(p)' < StepsLeft(p)
                                          /\ \A q \in Proc \ {p} : StepsLeft(q)' = StepsLeft(q)
<1>1. ASSUME CountInv, Next PROVE Advances
  <2>1. CASE OpStep
    <3>1. PICK p \in Proc : at[p] = "held"
      BY <2>1, OperationAdvances, <1>1 DEF Holding
    <3>2. at' = at /\ OperationLeft[pc'] < OperationLeft[pc]
      BY <2>1, OperationAdvances, <1>1 DEF lockVars
    <3>3. StepsLeft(p)' < StepsLeft(p)
      BY <3>1, <3>2 DEF StepsLeft
    <3>4. \A q \in Proc \ {p} : at[q] # "held" /\ StepsLeft(q)' = StepsLeft(q)
      BY <1>1, <3>1, <3>2, OneHolder DEF CountInv, StepsLeft
    <3> QED
      BY <3>3, <3>4
  <2>2. ASSUME NEW p \in Proc, Lock(p) PROVE Advances
    <3>1. UNCHANGED pc
      BY <2>2 DEF Lock, opVars
    <3>2. Ask(p) \/ StepsLeft(p)' < StepsLeft(p)
      BY <1>1, <2>2, <3>1, AcquireAdvances DEF Lock
    <3>3. \A q \in Proc \ {p} : at'[q] = at[q]
      BY <1>1, <2>2, <3>1, AcquireAdvances DEF Lock, Ask, Goto, CountInv, LInv, LockTypeOK
    <3>4. \A q \in Proc \ {p} : StepsLeft(q)' = StepsLeft(q)
      BY <3>1, <3>3 DEF StepsLeft
    <3> QED
      BY <3>2, <3>4
  <2>3. ASSUME NEW p \in Proc, Finish(p) \/ Crash(p) PROVE Advances
    <3>1. at \in [Proc -> Places] /\ at[p] # "out" /\ at' = [at EXCEPT ![p] = "out"]
      BY <1>1, <2>3 DEF CountInv, LInv, LockTypeOK, Finish, Crash, Unlock, Die, Goto
    <3>2. StepsLeft(p) > 0 /\ StepsLeft(p)' = 0
      BY <1>1, <3>1 DEF StepsLeft, LockLeft, OperationLeft, CountInv, Places, Places2
    <3>3. at[p] # "held" => UNCHANGED pc
      BY <2>3 DEF Finish, Unlock, Crash, opVars
    <3>4. \A q \in Proc \ {p} : StepsLeft(q)' = StepsLeft(q)
      <4> SUFFICES ASSUME NEW q \in Proc \ {p} PROVE StepsLeft(q)' = StepsLeft(q)
        OBVIOUS
      <4>1. at'[q] = at[q] /\ (at[q] = "held" => UNCHANGED pc)
        BY <1>1, <3>1, <3>3, OneHolder DEF CountInv
      <4> QED
        BY <4>1 DEF StepsLeft
    <3> QED
      BY <3>2, <3>4
  <2> QED
    BY <1>1, <2>1, <2>2, <2>3 DEF Next
<1> HIDE DEF Advances
<1>2. CountInv /\ [Next]_vars => [Advances]_vars
  BY <1>1
<1> QED
  BY <1>2, CountForever, PTL DEF Spec, RequestAdvances, Advances
=============================================================================
