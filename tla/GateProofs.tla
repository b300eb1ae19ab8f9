----------------------------- MODULE GateProofs -----------------------------
(***************************************************************************)
(* The gate for every set of files and services, every kind of content and *)
(* every number of writes, on the faults that its passing run has and the  *)
(* load check: what a pass means, and that nothing is forgotten.           *)
(*                                                                         *)
(* The argument follows a file that its service does not run.  Either the  *)
(* tracker has not seen it yet, or the next check looks at it, or its      *)
(* service is due: still to be restarted in this check, or known not to be *)
(* ready.  A pass leaves no room for any of the three.                     *)
(***************************************************************************)
EXTENDS Gate, TLAPS

\* No command puts a file back behind the tracker's mind, and every file
\* reaches the containers (see run agent_revert and the hazard at verify.ts).
Assumed == Faults \cap {"revert", "sync"} = {}

-----------------------------------------------------------------------------
(* The inductive invariant.                                                *)

\* Contents are numbered in the order of their writing, so the next one
\* is unlike any that was tracked; no fingerprint is that of a link.
Written(c) == c.n \in (0 .. writes) \cup {MaxWrites + 1}

Fresh ==
  \A f \in File : /\ Written(disk[f])
                  /\ Written(tracked[f])
                  /\ tracked[f] = None \/ tracked[f].kind # "link"

\* The services that this check has still to restart, or that are known not
\* to be ready.
Due ==
  CASE phase = "scan"    -> wanted
    [] phase = "restart" -> toRestart \cup notReady
    [] phase = "judge"   -> notReady
    [] OTHER             -> failedServices

Stale(f) == loaded[f] # disk[f] /\ disk[f].kind # "link"

NothingForgotten ==
  /\ \A f \in File : Stale(f) => \/ f \in unverified \cup ChangedNow
                                 \/ f \in changed /\ Owner[f] \in Due
  /\ \A f \in changed : ~up[Owner[f]] => f \in unverified \/ Owner[f] \in Due

\* What a check has found so far holds for what the services run.
Found ==
  /\ phase # "idle" => unverified = {}
  /\ phase = "scan" => toRestart = wanted
  /\ phase \in {"judge", "tests", "recheck"} => toRestart = {}
  /\ \A f \in File : tracked[f] # None => f \in changed
  /\ \A f \in File : up[Owner[f]] => loaded[f].kind # "crash"
  /\ phase \in {"tests", "recheck"} =>
       /\ mode = "full" /\ failedServices = {}
       /\ \A f \in File : Owner[f] \in Contracted => loaded[f].kind # "breaks"
  /\ phase = "recheck" /\ testsOk => \A f \in File : loaded[f].kind # "fails"

IInv ==
  /\ TypeOK
  /\ Fresh
  /\ NothingForgotten
  /\ Found
  /\ PassIsWhatRan
  /\ PassedIsSound

-----------------------------------------------------------------------------
(* Contents and synchronisation.                                           *)

LEMMA BaseContent == Base \in Content /\ None \in Content /\ Base # None
BY WritesAssumption DEF Base, None, Content, Kinds

\* What is written next is unlike anything the tracker has seen.
LEMMA NextContent ==
  ASSUME TypeOK, Fresh, writes < MaxWrites, NEW k \in Kinds
  PROVE  /\ [n |-> writes + 1, kind |-> k] \in Content
         /\ [n |-> writes + 1, kind |-> k] # Base
         /\ \A f \in File : tracked[f] # [n |-> writes + 1, kind |-> k]
<1>1. writes \in Nat /\ MaxWrites \in Nat /\ writes + 1 \in 0 .. MaxWrites + 1
  BY WritesAssumption DEF TypeOK
<1>2. [n |-> writes + 1, kind |-> k] \in Content
  BY <1>1 DEF Content
<1>3. [n |-> writes + 1, kind |-> k] # Base
  BY <1>1 DEF Base
<1>4. ASSUME NEW f \in File PROVE tracked[f] # [n |-> writes + 1, kind |-> k]
  <2>1. tracked[f].n # writes + 1
    BY <1>1 DEF Fresh, Written
  <2>2. QED
    BY <2>1
<1>5. QED
  BY <1>2, <1>3, <1>4

\* After a sync of an unchanged folder the tracker holds the folder.
LEMMA SyncFacts ==
  ASSUME TypeOK, Fresh, Sync, UNCHANGED diskVars,
         \A f \in File : tracked[f] # None => f \in changed
  PROVE  /\ tracked' \in [File -> Content]
         /\ changed' \in SUBSET File
         /\ changed \subseteq changed' /\ ChangedNow \subseteq changed'
         /\ changed' \subseteq changed \cup ChangedNow
         /\ Fresh'
         /\ \A f \in File : tracked'[f] # None => f \in changed'
         /\ \A f \in File : disk[f].kind # "link" => Kept(f)' = disk[f]
<1>1. tracked' = SyncedPrints /\ changed' = changed \cup ChangedNow
  BY DEF Sync
<1>2. disk \in [File -> Content] /\ changed \subseteq File /\ ChangedNow \subseteq File
  BY DEF TypeOK, ChangedNow, Pending
<1>3. tracked' \in [File -> Content]
  BY <1>1, <1>2, BaseContent DEF SyncedPrints
<1>4. ASSUME NEW f \in File
      PROVE  tracked'[f] = IF f \in Pending \ Rejected THEN disk[f] ELSE None
  BY <1>1 DEF SyncedPrints
<1>5. ASSUME NEW f \in File, tracked'[f] # None
      PROVE  f \in changed'
  <2>1. f \in Pending \ Rejected /\ disk[f] # None
    BY <1>4, <1>5
  <2>2. CASE tracked[f] = disk[f]
    BY <1>1, <2>1, <2>2
  <2>3. CASE tracked[f] # disk[f]
    BY <1>1, <2>1, <2>3 DEF ChangedNow
  <2>4. QED
    BY <2>2, <2>3
<1>6. ASSUME NEW f \in File
      PROVE  /\ Written(disk[f])' /\ Written(tracked[f])'
             /\ tracked'[f] = None \/ tracked'[f].kind # "link"
  <2>1. writes' = writes /\ disk' = disk /\ Written(disk[f])
    BY DEF diskVars, Fresh
  <2>2. Written(None)
    BY DEF Written, None, TypeOK
  <2>3. f \in Pending \ Rejected => disk[f].kind # "link"
    BY DEF Rejected
  <2>4. QED
    BY <1>4, <2>1, <2>2, <2>3 DEF Written
<1>7. ASSUME NEW f \in File, disk[f].kind # "link"
      PROVE  Kept(f)' = disk[f]
  <2>1. CASE disk[f] = Base
    BY <1>4, <2>1 DEF Kept, Pending
  <2>2. CASE disk[f] # Base
    <3>1. tracked'[f] = disk[f] /\ disk[f] # None
      BY <1>4, <1>7, <2>2 DEF Pending, Rejected, None
    <3>2. QED
      BY <3>1 DEF Kept
  <2>3. QED
    BY <2>1, <2>2
<1>8. QED
  BY <1>1, <1>2, <1>3, <1>5, <1>6, <1>7 DEF Fresh

-----------------------------------------------------------------------------
LEMMA InitIInv == Init => IInv
<1> SUFFICES ASSUME Init PROVE IInv
  OBVIOUS
<1>1. PICK F \in SUBSET File, k \in Kind \ {"link"} :
        /\ disk = [f \in File |-> IF f \in F THEN [n |-> MaxWrites + 1, kind |-> k] ELSE Base]
        /\ tracked = [f \in File |-> IF f \in F THEN disk[f] ELSE None]
        /\ changed = F /\ unverified = F
  BY DEF Init
<1> DEFINE c == [n |-> MaxWrites + 1, kind |-> k]
<1>2. /\ c \in Content /\ c # Base /\ c # None /\ c.n = MaxWrites + 1 /\ c.kind = k
      /\ k # "link" /\ MaxWrites \in Nat
  BY KindAssumption, WritesAssumption DEF Content, Base, None
<1>3. ASSUME NEW f \in File
      PROVE  /\ disk[f] = IF f \in F THEN c ELSE Base
             /\ tracked[f] = IF f \in F THEN c ELSE None
             /\ loaded[f] = Base
  BY <1>1 DEF Init
<1> HIDE DEF c
<1>4. TypeOK
  <2>1. disk \in [File -> Content] /\ tracked \in [File -> Content]
        /\ loaded \in [File -> Content]
    <3>1. disk \in [File -> Content] /\ loaded \in [File -> Content]
      BY <1>1, <1>2, BaseContent DEF Init, c
    <3>2. QED
      BY <1>1, <3>1, BaseContent
  <2>2. up \in [Service -> BOOLEAN] /\ mode \in Modes
    BY DEF Init
  <2>3. changed \subseteq File /\ unverified \subseteq changed /\ writes \in 0 .. MaxWrites
    BY <1>1, <1>2 DEF Init
  <2>4. attempts \in Nat /\ maxAttempts \in Nat
    BY AttemptsAssumption DEF Init
  <2>5. /\ failedServices \subseteq Service /\ lastOutcome \in Outcomes
        /\ phase \in Phases /\ files \subseteq changed
        /\ toRestart \subseteq wanted /\ wanted \subseteq Service /\ notReady \subseteq wanted
        /\ platform \in {"none", "service", "sync", "load"}
    BY DEF Init, Outcomes, Phases
  <2>6. /\ spoiled \in BOOLEAN /\ retried \in BOOLEAN
        /\ recordsOk \in BOOLEAN /\ testsOk \in BOOLEAN
    BY DEF Init
  <2>7. QED
    BY <2>1, <2>2, <2>3, <2>4, <2>5, <2>6 DEF TypeOK
<1>5. Fresh
  <2>1. writes = 0 /\ Base.n = 0 /\ None.n = 0
    BY DEF Init, Base, None
  <2>2. QED
    BY <1>2, <1>3, <2>1 DEF Fresh, Written
<1>6. NothingForgotten
  BY <1>1, <1>3 DEF NothingForgotten, Stale, Init
<1>7. Found
  <2>1. Base.kind = "good"
    BY DEF Base
  <2>2. QED
    BY <1>1, <1>3, <2>1 DEF Found, Init
<1>8. PassIsWhatRan /\ PassedIsSound
  BY DEF PassIsWhatRan, PassedIsSound, Passed, Init
<1>9. QED
  BY <1>4, <1>5, <1>6, <1>7, <1>8 DEF IInv

\* Writes and reverts, of the agent and of commands.
LEMMA ToolWriteIInv ==
  ASSUME IInv, NEW f \in File, NEW k \in Kind, ToolWrite(f, k), UNCHANGED mode
  PROVE  IInv'
<1> DEFINE c == [n |-> writes + 1, kind |-> k]
<1>1. /\ c \in Content /\ c # Base /\ c.n = writes + 1
      /\ writes \in Nat /\ MaxWrites \in Nat /\ writes < MaxWrites
  BY NextContent, KindAssumption, WritesAssumption DEF IInv, TypeOK, ToolWrite, Put
<1>2. /\ disk' = [disk EXCEPT ![f] = c] /\ writes' = writes + 1
      /\ changed' = changed \cup {f} /\ unverified' = unverified \cup {f}
      /\ phase = "idle"
      /\ UNCHANGED <<mode, tracked, boxVars, gateVars, phase, checkVars>>
  BY DEF ToolWrite, Put, Record, c
<1> HIDE DEF c
<1>3. TypeOK'
  BY <1>1, <1>2 DEF IInv, TypeOK, boxVars, gateVars, checkVars
<1>4. Fresh'
  BY <1>1, <1>2 DEF IInv, TypeOK, Fresh, Written
<1>5. ASSUME NEW g \in File, g # f
      PROVE  disk'[g] = disk[g] /\ (g \in ChangedNow => g \in ChangedNow')
  BY <1>2, <1>5 DEF IInv, TypeOK, ChangedNow, Pending, Rejected
<1>6. NothingForgotten'
  BY <1>2, <1>5 DEF IInv, TypeOK, NothingForgotten, Stale, Due, boxVars, gateVars
<1>7. Found'
  BY <1>2 DEF IInv, Found, boxVars, gateVars
<1>8. PassIsWhatRan' /\ PassedIsSound'
  BY <1>2 DEF IInv, PassIsWhatRan, PassedIsSound, Passed, Kept, boxVars, gateVars
<1>9. QED
  BY <1>3, <1>4, <1>6, <1>7, <1>8 DEF IInv

LEMMA ToolRevertIInv ==
  ASSUME IInv, NEW f \in File, ToolRevert(f), UNCHANGED mode
  PROVE  IInv'
<1>1. /\ disk' = [disk EXCEPT ![f] = Base] /\ phase = "idle"
      /\ changed' = changed \cup {f} /\ unverified' = unverified \cup {f}
      /\ UNCHANGED <<mode, writes, tracked, boxVars, gateVars, phase, checkVars>>
  BY DEF ToolRevert, Record
<1>2. TypeOK'
  BY <1>1, BaseContent DEF IInv, TypeOK, boxVars, gateVars, checkVars
<1>3. Fresh'
  <2>1. Base.n = 0 /\ writes \in Nat
    BY DEF Base, IInv, TypeOK
  <2>2. Written(Base)
    BY <2>1 DEF Written
  <2>3. QED
    BY <1>1, <2>2 DEF IInv, TypeOK, Fresh, Written
<1>4. ASSUME NEW g \in File, g # f
      PROVE  disk'[g] = disk[g] /\ (g \in ChangedNow => g \in ChangedNow')
  BY <1>1, <1>4 DEF IInv, TypeOK, ChangedNow, Pending, Rejected
<1>5. NothingForgotten'
  BY <1>1, <1>4 DEF IInv, TypeOK, NothingForgotten, Stale, Due, boxVars, gateVars
<1>6. Found'
  BY <1>1 DEF IInv, Found, boxVars, gateVars
<1>7. PassIsWhatRan' /\ PassedIsSound'
  BY <1>1 DEF IInv, PassIsWhatRan, PassedIsSound, Passed, Kept, boxVars, gateVars
<1>8. QED
  BY <1>2, <1>3, <1>5, <1>6, <1>7 DEF IInv

\* What a command writes, the tracker has not seen: the content is new.
LEMMA OutsideWriteIInv ==
  ASSUME IInv, NEW f \in File, NEW k \in Kind, OutsideWrite(f, k), UNCHANGED mode
  PROVE  IInv'
<1> DEFINE c == [n |-> writes + 1, kind |-> k]
<1>1. /\ c \in Content /\ c # Base /\ tracked[f] # c /\ c.n = writes + 1 /\ c.kind = k
      /\ writes \in Nat /\ MaxWrites \in Nat /\ writes < MaxWrites
  BY NextContent, KindAssumption, WritesAssumption DEF IInv, TypeOK, OutsideWrite, Put
<1>2. /\ disk' = [disk EXCEPT ![f] = c] /\ writes' = writes + 1
      /\ UNCHANGED <<mode, spaceVars, boxVars, gateVars, phase, checkVars>>
  BY DEF OutsideWrite, Put, c
<1> HIDE DEF c
<1>3. TypeOK'
  BY <1>1, <1>2 DEF IInv, TypeOK, spaceVars, boxVars, gateVars, checkVars
<1>4. Fresh'
  BY <1>1, <1>2 DEF IInv, TypeOK, Fresh, Written, spaceVars
<1>5. ASSUME NEW g \in File, g # f
      PROVE  disk'[g] = disk[g] /\ (g \in ChangedNow => g \in ChangedNow')
  BY <1>2, <1>5 DEF IInv, TypeOK, ChangedNow, Pending, Rejected, spaceVars
<1>6. disk'[f] = c /\ (c.kind # "link" => f \in ChangedNow')
  BY <1>1, <1>2 DEF IInv, TypeOK, ChangedNow, Pending, Rejected, spaceVars
<1>7. NothingForgotten'
  BY <1>2, <1>5, <1>6
     DEF IInv, TypeOK, NothingForgotten, Stale, Due, spaceVars, boxVars, gateVars, checkVars
<1>8. Found'
  BY <1>2 DEF IInv, Found, spaceVars, boxVars, gateVars, checkVars
<1>9. PassIsWhatRan' /\ PassedIsSound'
  BY <1>2 DEF IInv, PassIsWhatRan, PassedIsSound, Passed, Kept, spaceVars, boxVars, gateVars
<1>10. QED
  BY <1>3, <1>4, <1>7, <1>8, <1>9 DEF IInv

-----------------------------------------------------------------------------
(* The phases of a check.                                                  *)

LEMMA EndType ==
  ASSUME NEW outcome \in Outcomes, End(outcome), NEW C, C = changed'
  PROVE  /\ lastOutcome' \in Outcomes /\ phase' = "idle" /\ phase' \in Phases
         /\ files' \subseteq C
         /\ toRestart' \subseteq wanted' /\ wanted' \subseteq Service /\ notReady' \subseteq wanted'
         /\ spoiled' \in BOOLEAN /\ retried' \in BOOLEAN
         /\ recordsOk' \in BOOLEAN /\ testsOk' \in BOOLEAN
BY DEF End, Phases

\* A failure is counted, and the last outcome is then not a pass.
LEMMA FailureEnds ==
  ASSUME TypeOK, Failure
  PROVE  \E o \in {"retry", "exhausted"} : End(o) /\ attempts' \in Nat
<1>1. attempts' = attempts + 1 /\ attempts' \in Nat
  BY DEF Failure, TypeOK
<1>2. CASE attempts + 1 >= maxAttempts
  <2>1. End("exhausted")
    BY <1>2 DEF Failure
  <2>2. QED
    BY <1>1, <2>1
<1>3. CASE ~ (attempts + 1 >= maxAttempts)
  <2>1. End("retry")
    BY <1>3 DEF Failure
  <2>2. QED
    BY <1>1, <2>1
<1>4. QED
  BY <1>2, <1>3

\* However a check ends, it is over, and only a pass is noted as one.
LEMMA VerdictEnds ==
  ASSUME TypeOK, Failure \/ GiveUp \/ Pass
  PROVE  /\ lastOutcome' \in Outcomes /\ attempts' \in Nat
         /\ End(lastOutcome')
         /\ Failure => lastOutcome' # "pass"
         /\ GiveUp => lastOutcome' # "pass"
<1>1. Failure => /\ lastOutcome' \in {"retry", "exhausted"} /\ attempts' \in Nat
                 /\ End(lastOutcome')
  <2> SUFFICES ASSUME Failure
               PROVE  /\ lastOutcome' \in {"retry", "exhausted"} /\ attempts' \in Nat
                      /\ End(lastOutcome')
    OBVIOUS
  <2>1. PICK o \in {"retry", "exhausted"} : End(o) /\ attempts' \in Nat
    BY FailureEnds
  <2>2. lastOutcome' = o
    BY <2>1 DEF End
  <2>3. QED
    BY <2>1, <2>2
<1>2. GiveUp => /\ lastOutcome' = "exhausted" /\ attempts' \in Nat /\ End(lastOutcome')
  BY DEF GiveUp, Uncounted, End, TypeOK
<1>3. Pass => /\ lastOutcome' = "pass" /\ attempts' \in Nat /\ End(lastOutcome')
  BY DEF Pass, Uncounted, End, TypeOK
<1>4. {"retry", "exhausted", "pass"} \subseteq Outcomes
  BY DEF Outcomes
<1>5. CASE Failure
  BY <1>1, <1>2, <1>4, <1>5
<1>6. CASE GiveUp
  BY <1>1, <1>2, <1>4, <1>6
<1>7. CASE Pass
  BY <1>1, <1>2, <1>3, <1>4, <1>7
<1>8. QED
  BY <1>5, <1>6, <1>7

LEMMA CheckNothingIInv ==
  ASSUME IInv, CheckNothing, UNCHANGED mode
  PROVE  IInv'
<1>1. /\ phase = "idle" /\ changed = {} /\ ChangedNow = {} /\ Sync
      /\ UNCHANGED <<mode, diskVars, unverified, boxVars, maxAttempts, failedServices, platform>>
  BY DEF CheckNothing
<1>0. (Records /\ Pass) \/ Failure
  BY Zenon DEF CheckNothing
<1>2. TypeOK /\ Fresh /\ NothingForgotten /\ Found
  BY DEF IInv
<1>3. \A f \in File : tracked[f] # None => f \in changed
  BY <1>2 DEF Found
<1>4. /\ tracked' \in [File -> Content] /\ changed' = {} /\ Fresh'
      /\ \A f \in File : tracked'[f] = None
      /\ \A f \in File : disk[f].kind # "link" => Kept(f)' = disk[f]
  BY <1>1, <1>2, <1>3, SyncFacts
<1>5. /\ lastOutcome' \in Outcomes /\ attempts' \in Nat
      /\ End(lastOutcome') /\ (Failure => lastOutcome' # "pass")
  <2>1. TypeOK /\ (Failure \/ GiveUp \/ Pass)
    BY <1>0, <1>2
  <2>2. QED
    BY <2>1, VerdictEnds
<1>6. TypeOK'
  <2>1. unverified' = {} /\ changed' = {}
    BY <1>1, <1>2, <1>4 DEF TypeOK
  <2>2. QED
    BY <1>1, <1>2, <1>4, <1>5, <2>1, EndType DEF TypeOK, diskVars, boxVars
<1>7. \A f \in File : ~Stale(f)
  BY <1>1, <1>2 DEF NothingForgotten, TypeOK
<1>8. NothingForgotten'
  BY <1>1, <1>4, <1>7 DEF NothingForgotten, Stale, diskVars, boxVars
<1>9. Found'
  <2>1. phase' = "idle"
    BY <1>5 DEF End
  <2>2. QED
    BY <1>1, <1>2, <1>4, <2>1 DEF Found, boxVars
<1>10. \A f \in File : Kept(f)' = Base
  BY <1>4 DEF Kept
<1>11. ASSUME Passed' PROVE \A f \in File : loaded'[f] = Kept(f)'
  <2>1. Records
    BY <1>0, <1>5, <1>11 DEF Passed
  <2>3. \A f \in File : disk[f].kind # "link"
    <3>1. Base.kind # "link"
      BY DEF Base
    <3>2. QED
      BY <2>1, <3>1 DEF Records, Rejected, Pending
  <2>4. QED
    BY <1>1, <1>4, <1>7, <2>3 DEF Stale, boxVars
<1>12. PassIsWhatRan'
  BY <1>4, <1>11 DEF PassIsWhatRan
<1>13. PassedIsSound'
  <2>1. Base.kind = "good"
    BY DEF Base
  <2>2. QED
    BY <1>10, <2>1 DEF PassedIsSound
<1>14. QED
  BY <1>4, <1>6, <1>8, <1>9, <1>12, <1>13 DEF IInv

LEMMA StartCheckIInv ==
  ASSUME IInv, StartCheck, UNCHANGED mode
  PROVE  IInv'
<1>1. PICK strays \in SUBSET Service : wanted' = Owners(Owed) \cup strays
  BY DEF StartCheck
<1>2. /\ phase = "idle" /\ Sync
      /\ files' = Owed /\ unverified' = {} /\ recordsOk' = Records
      /\ toRestart' = wanted' /\ notReady' = {} /\ spoiled' = FALSE /\ platform' = "none"
      /\ retried' = FALSE /\ testsOk' = FALSE /\ phase' = "scan"
      /\ UNCHANGED <<mode, diskVars, boxVars, gateVars>>
  BY DEF StartCheck
<1>3. TypeOK /\ Fresh /\ NothingForgotten /\ Found
  BY DEF IInv
<1>4. \A f \in File : tracked[f] # None => f \in changed
  BY <1>3 DEF Found
<1>5. /\ tracked' \in [File -> Content] /\ changed' \in SUBSET File
      /\ changed' = changed \cup ChangedNow /\ Fresh'
      /\ \A f \in File : tracked'[f] # None => f \in changed'
  BY <1>2, <1>3, <1>4, SyncFacts DEF Sync
<1>6. Owed \subseteq changed'
  BY <1>3, <1>5 DEF Owed, TypeOK
<1>7. wanted' \in SUBSET Service
  <2>1. Owners(Owed) \subseteq Service
    BY <1>5, <1>6, OwnerAssumption DEF Owners
  <2>2. QED
    BY <1>1, <2>1
<1>8. TypeOK'
  <2>1. recordsOk' \in BOOLEAN
    BY <1>2 DEF Records
  <2>2. phase' \in Phases /\ platform' \in {"none", "service", "sync", "load"}
    BY <1>2 DEF Phases
  <2>3. QED
    BY <1>2, <1>3, <1>5, <1>6, <1>7, <2>1, <2>2 DEF TypeOK, diskVars, boxVars, gateVars
<1>9. ASSUME NEW f \in File, f \in Owed PROVE Owner[f] \in wanted'
  BY <1>1, <1>9 DEF Owners
<1>10. Due' = wanted'
  BY <1>2 DEF Due
<1>11. Due = failedServices
  BY <1>2 DEF Due
<1>12. ASSUME NEW f \in File, Stale(f)' PROVE f \in changed' /\ Owner[f] \in Due'
  <2>1. Stale(f)
    BY <1>2, <1>12 DEF Stale, diskVars, boxVars
  <2>2. f \in Owed
    BY <1>3, <1>11, <2>1 DEF NothingForgotten, Owed
  <2>3. QED
    BY <1>6, <1>9, <1>10, <2>2
<1>13. ASSUME NEW f \in changed', ~up'[Owner[f]] PROVE Owner[f] \in Due'
  <2>1. f \in File /\ f \in changed \cup ChangedNow /\ ~up[Owner[f]]
    BY <1>2, <1>5, <1>13 DEF boxVars
  <2>2. f \in Owed
    BY <1>3, <1>11, <2>1 DEF NothingForgotten, Owed
  <2>3. QED
    BY <1>9, <1>10, <2>1, <2>2
<1>14. NothingForgotten'
  BY <1>12, <1>13 DEF NothingForgotten
<1>15. Found'
  BY <1>2, <1>3, <1>5 DEF Found, boxVars
<1>16. PassIsWhatRan' /\ PassedIsSound'
  BY <1>2 DEF PassIsWhatRan, PassedIsSound, Passed
<1>17. QED
  BY <1>5, <1>8, <1>14, <1>15, <1>16 DEF IInv

LEMMA ScanIInv ==
  ASSUME Assumed, IInv, Scan, UNCHANGED mode
  PROVE  IInv'
<1>1. /\ phase = "scan" /\ phase' = "restart" /\ spoiled' \in BOOLEAN
      /\ UNCHANGED <<mode, diskVars, spaceVars, boxVars, gateVars, files, wanted, toRestart,
                     notReady, platform, retried, recordsOk, testsOk>>
  BY DEF Scan, Assumed
<1>2. TypeOK'
  BY <1>1 DEF IInv, TypeOK, Phases, diskVars, spaceVars, boxVars, gateVars
<1>3. Fresh'
  BY <1>1 DEF IInv, Fresh, Written, diskVars, spaceVars
<1>4. Due = wanted /\ Due' = wanted \cup notReady
  BY <1>1 DEF Due, IInv, Found
<1>5. ChangedNow' = ChangedNow
  BY <1>1 DEF ChangedNow, Pending, Rejected, diskVars, spaceVars
<1>6. NothingForgotten'
  BY <1>1, <1>4, <1>5
     DEF IInv, NothingForgotten, Stale, diskVars, spaceVars, boxVars
<1>7. Found'
  BY <1>1 DEF IInv, Found, spaceVars, boxVars
<1>8. PassIsWhatRan' /\ PassedIsSound'
  BY <1>1 DEF PassIsWhatRan, PassedIsSound, Passed
<1>9. QED
  BY <1>2, <1>3, <1>6, <1>7, <1>8 DEF IInv

\* A restarted service runs what the folder holds, or is known not to be ready.
LEMMA RestartIInv ==
  ASSUME IInv, NEW s \in Service, Restart(s), UNCHANGED mode
  PROVE  IInv'
<1>1. PICK ready \in {~Crashes(s), ~Crashes(s) /\ "flaky" \notin Faults} :
        /\ up' = [up EXCEPT ![s] = ready]
        /\ notReady' = IF ready THEN notReady ELSE notReady \cup {s}
  BY DEF Restart
<1>2. ready \in BOOLEAN /\ (ready => ~Crashes(s))
  BY <1>1 DEF Crashes
<1>3. /\ phase = "restart" /\ s \in toRestart /\ toRestart' = toRestart \ {s}
      /\ loaded' = [f \in File |-> IF Owner[f] = s THEN disk[f] ELSE loaded[f]]
      /\ UNCHANGED <<mode, diskVars, spaceVars, gateVars, phase, files, wanted, spoiled,
                     platform, retried, recordsOk, testsOk>>
  BY DEF Restart
<1>4. TypeOK /\ Fresh /\ NothingForgotten /\ Found
  BY DEF IInv
<1>5. TypeOK'
  BY <1>1, <1>2, <1>3, <1>4 DEF TypeOK, diskVars, spaceVars, gateVars
<1>6. Fresh'
  BY <1>3, <1>4 DEF Fresh, Written, diskVars, spaceVars
<1>7. Due = toRestart \cup notReady /\ Due' = toRestart' \cup notReady'
  BY <1>3 DEF Due
<1>8. ChangedNow' = ChangedNow
  BY <1>3 DEF ChangedNow, Pending, Rejected, diskVars, spaceVars
<1>9. \A f \in File : Owner[f] \in Service
  BY OwnerAssumption
<1>10. NothingForgotten'
  <2>1. ASSUME NEW f \in File, Stale(f)'
        PROVE  f \in unverified' \cup ChangedNow' \/ (f \in changed' /\ Owner[f] \in Due')
    <3>1. Owner[f] # s /\ Stale(f)
      BY <1>3, <2>1 DEF Stale, diskVars
    <3>2. f \in unverified \cup ChangedNow \/ (f \in changed /\ Owner[f] \in Due)
      BY <1>4, <3>1 DEF NothingForgotten
    <3>3. QED
      BY <1>1, <1>3, <1>7, <1>8, <3>1, <3>2 DEF spaceVars
  <2>2. ASSUME NEW f \in changed', ~up'[Owner[f]]
        PROVE  f \in unverified' \/ Owner[f] \in Due'
    <3>1. f \in changed /\ f \in File /\ unverified' = unverified
      BY <1>3, <1>4 DEF spaceVars, TypeOK
    <3>2. CASE Owner[f] = s
      BY <1>1, <1>4, <1>7, <2>2, <3>2 DEF TypeOK
    <3>3. CASE Owner[f] # s
      <4>1. ~up[Owner[f]]
        BY <1>1, <1>4, <1>9, <2>2, <3>1, <3>3 DEF TypeOK
      <4>2. QED
        BY <1>1, <1>3, <1>4, <1>7, <3>1, <3>3, <4>1 DEF NothingForgotten
    <3>4. QED
      BY <3>2, <3>3
  <2>3. QED
    BY <2>1, <2>2 DEF NothingForgotten
<1>11. ASSUME NEW f \in File, up'[Owner[f]]
       PROVE  loaded'[f].kind # "crash"
  <2>1. CASE Owner[f] = s
    <3>1. ready
      BY <1>1, <1>4, <1>11, <2>1 DEF TypeOK
    <3>2. QED
      BY <1>2, <1>3, <2>1, <3>1 DEF Crashes
  <2>2. CASE Owner[f] # s
    BY <1>1, <1>3, <1>4, <1>9, <1>11, <2>2 DEF TypeOK, Found
  <2>3. QED
    BY <2>1, <2>2
<1>12. Found'
  BY <1>3, <1>4, <1>11 DEF Found, spaceVars
<1>13. PassIsWhatRan' /\ PassedIsSound'
  BY <1>3 DEF PassIsWhatRan, PassedIsSound, Passed
<1>14. QED
  BY <1>5, <1>6, <1>10, <1>12, <1>13 DEF IInv

LEMMA RestartFailsIInv ==
  ASSUME IInv, NEW s \in Service, RestartFails(s), UNCHANGED mode
  PROVE  IInv'
<1>1. /\ phase = "restart" /\ s \in toRestart /\ toRestart' = toRestart \ {s}
      /\ up' = [up EXCEPT ![s] = FALSE] /\ notReady' = notReady \cup {s}
      /\ platform' = "service"
      /\ UNCHANGED <<mode, diskVars, spaceVars, loaded, gateVars, phase, files, wanted,
                     spoiled, retried, recordsOk, testsOk>>
  BY DEF RestartFails
<1>2. TypeOK /\ Fresh /\ NothingForgotten /\ Found
  BY DEF IInv
<1>3. TypeOK'
  BY <1>1, <1>2 DEF TypeOK, diskVars, spaceVars, gateVars
<1>4. Fresh'
  BY <1>1, <1>2 DEF Fresh, Written, diskVars, spaceVars
<1>5. Due = toRestart \cup notReady /\ Due' = toRestart \cup notReady
  BY <1>1 DEF Due
<1>6. ChangedNow' = ChangedNow
  BY <1>1 DEF ChangedNow, Pending, Rejected, diskVars, spaceVars
<1>7. ASSUME NEW f \in File
      PROVE  IF Owner[f] = s THEN ~up'[Owner[f]] ELSE up'[Owner[f]] = up[Owner[f]]
  BY <1>1, <1>2, OwnerAssumption DEF TypeOK
<1>8. NothingForgotten'
  <2>1. ASSUME NEW f \in File, Stale(f)'
        PROVE  f \in unverified' \cup ChangedNow' \/ (f \in changed' /\ Owner[f] \in Due')
    BY <1>1, <1>2, <1>5, <1>6, <2>1 DEF NothingForgotten, Stale, diskVars, spaceVars
  <2>2. ASSUME NEW f \in changed', ~up'[Owner[f]]
        PROVE  f \in unverified' \/ Owner[f] \in Due'
    <3>1. f \in changed /\ f \in File /\ unverified' = unverified
      BY <1>1, <1>2 DEF spaceVars, TypeOK
    <3>2. QED
      BY <1>1, <1>2, <1>5, <1>7, <2>2, <3>1 DEF NothingForgotten
  <2>3. QED
    BY <2>1, <2>2 DEF NothingForgotten
<1>9. Found'
  BY <1>1, <1>2, <1>7 DEF Found, spaceVars
<1>10. PassIsWhatRan' /\ PassedIsSound'
  BY <1>1 DEF PassIsWhatRan, PassedIsSound, Passed
<1>11. QED
  BY <1>3, <1>4, <1>8, <1>9, <1>10 DEF IInv

LEMMA RestartedIInv ==
  ASSUME IInv, Restarted, UNCHANGED mode
  PROVE  IInv'
<1>1. /\ phase = "restart" /\ toRestart = {} /\ phase' = "judge"
      /\ UNCHANGED <<mode, diskVars, spaceVars, boxVars, gateVars, checkVars>>
  BY DEF Restarted
<1>2. TypeOK'
  BY <1>1 DEF IInv, TypeOK, Phases, diskVars, spaceVars, boxVars, gateVars, checkVars
<1>3. Fresh'
  BY <1>1 DEF IInv, Fresh, Written, diskVars, spaceVars
<1>4. Due' = Due /\ ChangedNow' = ChangedNow
  BY <1>1 DEF Due, ChangedNow, Pending, Rejected, diskVars, spaceVars, checkVars
<1>5. NothingForgotten'
  BY <1>1, <1>4 DEF IInv, NothingForgotten, Stale, diskVars, spaceVars, boxVars
<1>6. Found'
  BY <1>1 DEF IInv, Found, spaceVars, boxVars, checkVars
<1>7. PassIsWhatRan' /\ PassedIsSound'
  BY <1>1 DEF PassIsWhatRan, PassedIsSound, Passed
<1>8. QED
  BY <1>2, <1>3, <1>5, <1>6, <1>7 DEF IInv

\* The second attempt restarts all that the first one did.
LEMMA RetryPlatformIInv ==
  ASSUME IInv, RetryPlatform, UNCHANGED mode
  PROVE  IInv'
<1>1. /\ phase = "judge" /\ phase' = "scan" /\ retried' = TRUE /\ platform' = "none"
      /\ notReady' = {} /\ toRestart' = wanted
      /\ UNCHANGED <<mode, diskVars, spaceVars, boxVars, gateVars, files, wanted, spoiled,
                     recordsOk, testsOk>>
  BY DEF RetryPlatform
<1>2. TypeOK'
  BY <1>1 DEF IInv, TypeOK, Phases, diskVars, spaceVars, boxVars, gateVars
<1>3. Fresh'
  BY <1>1 DEF IInv, Fresh, Written, diskVars, spaceVars
<1>4. Due \subseteq Due' /\ ChangedNow' = ChangedNow
  BY <1>1 DEF IInv, TypeOK, Due, ChangedNow, Pending, Rejected, diskVars, spaceVars
<1>5. NothingForgotten'
  BY <1>1, <1>4 DEF IInv, NothingForgotten, Stale, diskVars, spaceVars, boxVars
<1>6. Found'
  BY <1>1 DEF IInv, Found, spaceVars, boxVars
<1>7. PassIsWhatRan' /\ PassedIsSound'
  BY <1>1 DEF PassIsWhatRan, PassedIsSound, Passed
<1>8. QED
  BY <1>2, <1>3, <1>5, <1>6, <1>7 DEF IInv

\* The report of verifyChanges remembers the services that are not ready; only
\* a report without any lets a full check go on.
LEMMA JudgeIInv ==
  ASSUME IInv, Judge, UNCHANGED mode
  PROVE  IInv'
<1>1. /\ phase = "judge" /\ failedServices' = notReady
      /\ UNCHANGED <<mode, diskVars, spaceVars, boxVars, maxAttempts, platform>>
  BY DEF Judge
<1>2. \/ (mode = "full" /\ ReportOk /\ GoOn)
      \/ Failure \/ GiveUp \/ (mode # "full" /\ Pass)
  BY Zenon DEF Judge
<1>3. TypeOK /\ Fresh /\ NothingForgotten /\ Found
  BY DEF IInv
<1>4. Fresh'
  BY <1>1, <1>3 DEF Fresh, Written, diskVars, spaceVars
<1>5. Due = notReady /\ ChangedNow' = ChangedNow
  BY <1>1 DEF Due, ChangedNow, Pending, Rejected, diskVars, spaceVars
<1>6. phase' \in {"idle", "tests"} => NothingForgotten'
  <2>1. phase' \in {"idle", "tests"} => Due' = Due
    BY <1>1, <1>5 DEF Due
  <2>2. QED
    BY <1>1, <1>3, <1>5, <2>1 DEF NothingForgotten, Stale, diskVars, spaceVars, boxVars
<1>7. CASE mode = "full" /\ ReportOk /\ GoOn
  <2>1. /\ mode = "full" /\ notReady = {} /\ phase' = "tests"
        /\ \A f \in File : Owner[f] \in Contracted => loaded[f].kind # "breaks"
        /\ UNCHANGED <<attempts, lastOutcome, files, wanted, toRestart, notReady, spoiled,
                       retried, recordsOk, testsOk>>
    BY <1>7 DEF GoOn, ReportOk
  <2>2. TypeOK'
    BY <1>1, <1>3, <2>1 DEF TypeOK, Phases, diskVars, spaceVars, boxVars
  <2>3. Found'
    BY <1>1, <1>3, <2>1 DEF Found, spaceVars, boxVars
  <2>4. PassIsWhatRan' /\ PassedIsSound'
    BY <2>1 DEF PassIsWhatRan, PassedIsSound, Passed
  <2>5. QED
    BY <1>4, <1>6, <2>1, <2>2, <2>3, <2>4 DEF IInv
<1>8. CASE Failure \/ GiveUp \/ (mode # "full" /\ Pass)
  <2>1. /\ lastOutcome' \in Outcomes /\ attempts' \in Nat /\ End(lastOutcome')
        /\ lastOutcome' = "pass" => mode # "full"
    <3>1. TypeOK /\ (Failure \/ GiveUp \/ Pass)
      BY <1>3, <1>8
    <3>2. QED
      BY <1>8, <3>1, VerdictEnds
  <2>2. TypeOK'
    <3>1. failedServices' \subseteq Service
      BY <1>1, <1>3 DEF TypeOK
    <3>2. QED
      BY <1>1, <1>3, <2>1, <3>1, EndType DEF TypeOK, diskVars, spaceVars, boxVars
  <2>3. phase' = "idle"
    BY <2>1 DEF End
  <2>4. Found'
    BY <1>1, <1>3, <2>3 DEF Found, spaceVars, boxVars
  <2>5. PassIsWhatRan' /\ PassedIsSound'
    BY <1>1, <2>1 DEF PassIsWhatRan, PassedIsSound, Passed
  <2>6. QED
    BY <1>4, <1>6, <2>2, <2>3, <2>4, <2>5 DEF IInv
<1>9. QED
  BY <1>2, <1>7, <1>8

LEMMA TestsIInv ==
  ASSUME IInv, Tests, UNCHANGED mode
  PROVE  IInv'
<1>1. /\ phase = "tests" /\ phase' = "recheck"
      /\ testsOk' = \A f \in File : disk[f].kind # "fails" /\ loaded[f].kind # "fails"
      /\ platform' \in {"none"} \cup (Faults \cap {"load"})
      /\ UNCHANGED <<mode, diskVars, spaceVars, boxVars, gateVars, files, wanted, toRestart,
                     notReady, spoiled, retried, recordsOk>>
  BY DEF Tests
<1>2. testsOk' \in BOOLEAN /\ (testsOk' => \A f \in File : loaded[f].kind # "fails")
  BY <1>1
<1>3. TypeOK'
  BY <1>1, <1>2 DEF IInv, TypeOK, Phases, diskVars, spaceVars, boxVars, gateVars
<1>4. Fresh'
  BY <1>1 DEF IInv, Fresh, Written, diskVars, spaceVars
<1>5. Due' = Due /\ ChangedNow' = ChangedNow
  BY <1>1 DEF Due, ChangedNow, Pending, Rejected, diskVars, spaceVars, gateVars
<1>6. NothingForgotten'
  BY <1>1, <1>5 DEF IInv, NothingForgotten, Stale, diskVars, spaceVars, boxVars
<1>7. Found'
  BY <1>1, <1>2 DEF IInv, Found, spaceVars, boxVars, gateVars
<1>8. PassIsWhatRan' /\ PassedIsSound'
  BY <1>1 DEF PassIsWhatRan, PassedIsSound, Passed
<1>9. QED
  BY <1>3, <1>4, <1>6, <1>7, <1>8 DEF IInv

\* The verdict of a full check.  A pass is one after which the folder still
\* holds what the tracker saw, every record is as it was and no service is
\* known not to be ready: nothing is left that a service could not run.
LEMMA RecheckIInv ==
  ASSUME IInv, Recheck, UNCHANGED mode
  PROVE  IInv'
<1>1. /\ phase = "recheck" /\ Sync /\ unverified' = unverified \cup ChangedNow
      /\ UNCHANGED <<mode, diskVars, boxVars, maxAttempts, failedServices, platform>>
  BY DEF Recheck
<1>2. \/ Failure \/ GiveUp
      \/ (testsOk /\ Records /\ Unchanged /\ Pass)
  BY Zenon DEF Recheck
<1>3. TypeOK /\ Fresh /\ NothingForgotten /\ Found
  BY DEF IInv
<1>4. /\ unverified = {} /\ failedServices = {}
      /\ \A f \in File : tracked[f] # None => f \in changed
      /\ \A f \in File : up[Owner[f]] => loaded[f].kind # "crash"
      /\ \A f \in File : Owner[f] \in Contracted => loaded[f].kind # "breaks"
      /\ testsOk => \A f \in File : loaded[f].kind # "fails"
  BY <1>1, <1>3 DEF Found
<1>5. /\ tracked' \in [File -> Content] /\ changed' \in SUBSET File
      /\ changed' = changed \cup ChangedNow /\ Fresh'
      /\ \A f \in File : tracked'[f] # None => f \in changed'
      /\ \A f \in File : disk[f].kind # "link" => Kept(f)' = disk[f]
  BY <1>1, <1>3, <1>4, SyncFacts DEF Sync
<1>6. /\ lastOutcome' \in Outcomes /\ attempts' \in Nat /\ End(lastOutcome')
      /\ lastOutcome' = "pass" => testsOk /\ Records /\ Unchanged
  <2>1. TypeOK /\ (Failure \/ GiveUp \/ Pass)
    BY <1>2, <1>3
  <2>2. QED
    BY <1>2, <2>1, VerdictEnds
<1>7. TypeOK'
  BY <1>1, <1>3, <1>4, <1>5, <1>6, EndType DEF TypeOK, diskVars, boxVars
<1>8. /\ \A f \in File : Stale(f) => f \in ChangedNow
      /\ \A f \in changed : up[Owner[f]]
  <2>1. Due = {}
    BY <1>1, <1>4 DEF Due
  <2>2. QED
    BY <1>3, <1>4, <2>1 DEF NothingForgotten
<1>9. NothingForgotten'
  BY <1>1, <1>5, <1>8 DEF NothingForgotten, Stale, diskVars, boxVars
<1>10. Found'
  <2>1. phase' = "idle"
    BY <1>6 DEF End
  <2>2. QED
    BY <1>1, <1>4, <1>5, <2>1 DEF Found, boxVars
<1>11. ASSUME Passed'
       PROVE  /\ testsOk
              /\ \A f \in File : /\ disk[f].kind \notin {"link", "weak"}
                                 /\ loaded[f] = disk[f] /\ Kept(f)' = disk[f]
                                 /\ tracked'[f] # None => up[Owner[f]]
  <2>1. testsOk /\ Records /\ Unchanged
    BY <1>6, <1>11 DEF Passed
  <2>2. Base.kind = "good"
    BY DEF Base
  <2>3. \A f \in File : disk[f].kind \notin {"link", "weak"}
    BY <2>1, <2>2 DEF Records, Rejected, Pending
  <2>4. ChangedNow = {}
    BY <2>1 DEF Unchanged
  <2>5. QED
    BY <1>5, <1>8, <2>1, <2>3, <2>4 DEF Stale
<1>12. PassIsWhatRan'
  BY <1>1, <1>11 DEF PassIsWhatRan, boxVars
<1>13. PassedIsSound'
  <2>1. ASSUME Passed', NEW f \in File
        PROVE  /\ Kept(f)'.kind \notin {"crash", "fails", "weak", "link"}
               /\ Owner[f] \in Contracted => Kept(f)'.kind # "breaks"
    <3>1. CASE tracked'[f] = None
      BY <3>1 DEF Kept, Base
    <3>2. CASE tracked'[f] # None
      BY <1>4, <1>11, <2>1, <3>2
    <3>3. QED
      BY <3>1, <3>2
  <2>2. QED
    BY <2>1 DEF PassedIsSound
<1>14. QED
  BY <1>5, <1>7, <1>9, <1>10, <1>12, <1>13 DEF IInv

-----------------------------------------------------------------------------
LEMMA StutterIInv ==
  ASSUME IInv, UNCHANGED vars
  PROVE  IInv'
<1>1. UNCHANGED <<mode, diskVars, spaceVars, boxVars, gateVars, phase, checkVars>>
  BY DEF vars
<1>2. TypeOK'
  BY <1>1 DEF IInv, TypeOK, diskVars, spaceVars, boxVars, gateVars, checkVars
<1>3. Fresh'
  BY <1>1 DEF IInv, Fresh, Written, diskVars, spaceVars
<1>4. Due' = Due /\ ChangedNow' = ChangedNow
  BY <1>1 DEF Due, ChangedNow, Pending, Rejected, diskVars, spaceVars, gateVars, checkVars
<1>5. NothingForgotten'
  BY <1>1, <1>4 DEF IInv, NothingForgotten, Stale, diskVars, spaceVars, boxVars
<1>6. Found'
  BY <1>1 DEF IInv, Found, spaceVars, boxVars, gateVars, checkVars
<1>7. PassIsWhatRan' /\ PassedIsSound'
  BY <1>1 DEF IInv, PassIsWhatRan, PassedIsSound, Passed, Kept, spaceVars, boxVars, gateVars
<1>8. QED
  BY <1>2, <1>3, <1>5, <1>6, <1>7 DEF IInv

LEMMA StepIInv ==
  ASSUME Assumed, IInv, [Next]_vars
  PROVE  IInv'
<1>1. CASE UNCHANGED vars
  BY <1>1, StutterIInv
<1>2. CASE Next
  <2>1. UNCHANGED mode
    BY <1>2 DEF Next
  <2>2. CASE Tool
    BY <2>1, <2>2, ToolRevertIInv, ToolWriteIInv DEF Tool
  <2>3. CASE Outside
    <3>1. ASSUME NEW f \in File PROVE ~OutsideRevert(f)
      BY DEF Assumed, OutsideRevert
    <3>2. QED
      BY <2>1, <2>3, <3>1, OutsideWriteIInv DEF Outside
  <2>4. CASE CheckStep
    <3>1. CASE Scan
      BY <2>1, <3>1, ScanIInv
    <3>2. CASE Restarted
      BY <2>1, <3>2, RestartedIInv
    <3>3. CASE RetryPlatform
      BY <2>1, <3>3, RetryPlatformIInv
    <3>4. CASE Judge
      BY <2>1, <3>4, JudgeIInv
    <3>5. CASE Tests
      BY <2>1, <3>5, TestsIInv
    <3>6. CASE Recheck
      BY <2>1, <3>6, RecheckIInv
    <3>7. CASE \E s \in Service : Restart(s) \/ RestartFails(s)
      BY <2>1, <3>7, RestartIInv, RestartFailsIInv
    <3>8. QED
      BY <2>4, <3>1, <3>2, <3>3, <3>4, <3>5, <3>6, <3>7 DEF CheckStep
  <2>5. CASE CheckNothing \/ StartCheck
    BY <2>1, <2>5, CheckNothingIInv, StartCheckIInv
  <2>6. QED
    BY <1>1, <1>2, <2>2, <2>3, <2>4, <2>5 DEF Next
<1>3. QED
  BY <1>1, <1>2

LEMMA SpecIInv == ASSUME Assumed PROVE Spec => []IInv
<1>1. IInv /\ [Next]_vars => IInv'
  BY StepIInv
<1>2. QED
  BY <1>1, InitIInv, PTL DEF Spec

-----------------------------------------------------------------------------
(* The theorems.                                                           *)

\* Every variable of the gate, the workspace, the tracker and the sandbox
\* keeps its type, whatever is written while a check goes on (gate.ts).
THEOREM GateTypeOK == ASSUME Assumed PROVE Spec => []TypeOK
<1>1. IInv => TypeOK
  BY DEF IInv
<1>2. QED
  BY <1>1, SpecIInv, PTL

\* Between two checks every file whose service runs on other content is one
\* the next check restarts that service for (gate.ts #filesToVerify), however
\* many checks there were and whichever way they ended.
THEOREM GateStaleIsOwed == ASSUME Assumed PROVE Spec => []StaleIsOwed
<1>1. IInv => StaleIsOwed
  <2> SUFFICES ASSUME IInv, phase = "idle", NEW f \in File, Stale(f)
               PROVE  Owner[f] \in Owners(Owed)
    BY DEF StaleIsOwed, Stale
  <2>1. Due = failedServices
    BY DEF Due
  <2>2. f \in Owed
    BY <2>1 DEF IInv, NothingForgotten, Owed
  <2>3. QED
    BY <2>2 DEF Owners
<1>2. QED
  BY <1>1, SpecIInv, PTL

\* A full check that passes has run every service on exactly the contents it
\* reports as verified (gate.ts #recheckOutsideChanges, ADR-132): what a command
\* writes at any moment of the check makes it fail.
THEOREM GatePassIsWhatRan == ASSUME Assumed PROVE Spec => []PassIsWhatRan
<1>1. IInv => PassIsWhatRan
  BY DEF IInv
<1>2. QED
  BY <1>1, SpecIInv, PTL

\* What a full check reports as verified holds nothing that the restarts, the
\* contracts, the declared checks or the records reject (gate.ts check).
THEOREM GatePassedIsSound == ASSUME Assumed PROVE Spec => []PassedIsSound
<1>1. IInv => PassedIsSound
  BY DEF IInv
<1>2. QED
  BY <1>1, SpecIInv, PTL

=============================================================================
