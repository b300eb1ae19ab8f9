-------------------------------- MODULE Fleet --------------------------------
(***************************************************************************)
(* One fleet of apps/studio/lib/server/fleets.ts: the same request sent to *)
(* several candidates, each in a session of its own, for a person to pick  *)
(* the winner among those that passed.                                     *)
(*                                                                         *)
(* A session reports to its listeners within the code that changes it, so  *)
(* a step of a session and what the fleet makes of it are one action.  The *)
(* fleet saves itself in the same step (persist).  After a restart of the  *)
(* server it is read back by the first call of the fleets' interface,      *)
(* whatever has become of its sessions by then (ensureLoaded).             *)
(***************************************************************************)
EXTENDS Naturals, FiniteSets

CONSTANTS
  Members,     \* how many candidates the request names
  MaxAsks,     \* bound: requests of a person to these sessions
  MaxCrashes,  \* bound: restarts of the server
  Faults       \* "early": the fleet is deleted while it is being created;
               \* "kill": a killed server has not yet saved the run begun last

ASSUME MembersAssumption == Members \in 2 .. 4   \* MAX_MEMBERS
ASSUME BoundsAssumption == MaxAsks \in Nat /\ MaxCrashes \in Nat
ASSUME FaultsAssumption == Faults \subseteq {"early", "kill"}

Candidate == 1 .. Members
None == 0
Gone == [gone |-> TRUE]

VARIABLES
  \* the fleet in the server's memory, and its file
  member, winner, listed, loaded, making,
  watched,    \* members whose session has the fleet as a listener
  leaving,    \* where deleteFleet is with each session
  file,
  \* the sessions
  box, busy,
  count,      \* runs begun so far: their ids
  ends,       \* the ends of runs in the session's history
  fell,       \* a failed boot is in the history
  own,        \* ids of the runs that carry the fleet's request
  crashes

fleetVars == <<member, winner, listed, loaded, making, watched, leaving, file>>
boxVars == <<box, busy, count, ends, fell, own>>
vars == <<fleetVars, boxVars, crashes>>

Terminal == {"done", "over"}   \* failed, error and cancelled are one
Live == {"booting", "running"}
InPlay == file # Gone   \* bound: the sessions of a deleted fleet are only cleaned up
Member == [status : {"none"} \cup Live \cup Terminal, run : Nat]
Ended(m) == [m EXCEPT !.status = "over"]

TypeOK ==
  /\ member \in [Candidate -> Member] /\ winner \in Candidate \cup {None}
  /\ listed \in BOOLEAN /\ loaded \in BOOLEAN /\ making \in BOOLEAN
  /\ watched \subseteq Candidate
  /\ leaving \in [Candidate -> {"no", "stop", "remove"}]
  /\ file = Gone \/ file \in [member : [Candidate -> Member], winner : Candidate \cup {None}]
  /\ box \in [Candidate -> {"none", "starting", "ready", "failed", "stopped", "gone"}]
  /\ busy \in [Candidate -> Nat] /\ count \in [Candidate -> Nat]
  /\ ends \in [Candidate -> SUBSET (Nat \X Terminal)]
  /\ fell \subseteq Candidate
  /\ own \in [Candidate -> SUBSET Nat]
  /\ crashes \in 0 .. MaxCrashes

\* createFleet has put the fleet into the list and on disk.
Init ==
  /\ member = [c \in Candidate |-> [status |-> "none", run |-> None]]
  /\ winner = None /\ listed = TRUE /\ loaded = TRUE /\ making = TRUE
  /\ watched = {} /\ leaving = [c \in Candidate |-> "no"]
  /\ file = [member |-> member, winner |-> None]
  /\ box = [c \in Candidate |-> "none"]
  /\ busy = [c \in Candidate |-> None] /\ count = busy
  /\ ends = [c \in Candidate |-> {}] /\ own = ends
  /\ fell = {} /\ crashes = 0

-----------------------------------------------------------------------------
(* What the fleet makes of the events of a session.                        *)

Saved == [member |-> member', winner |-> winner']

\* updateMember and the end of the subscription, if there is one.
Told(c, m) ==
  /\ UNCHANGED <<winner, listed, loaded, making, leaving>>
  /\ IF c \in watched
     THEN /\ member' = [member EXCEPT ![c] = m]
          /\ watched' = IF m.status \in Terminal THEN watched \ {c} ELSE watched
          /\ file' = Saved
     ELSE UNCHANGED <<member, watched, file>>

\* Mutant of Begins: only members that ended are left alone.
BeginsAgain(m) == m.status \notin Terminal

\* A member the request has not been sent for: booting, and without a run.
Begins(m) == m.status = "booting" /\ m.run = None

\* Mutant of Mine: any run of the session.
AnyRun(m, r) == m.status # "none"

\* The run is the one the member waits for.
Mine(m, r) == m.run = r

\* sendMessage takes the request, as run r.
Sent(c) == [status |-> "running", run |-> count[c] + 1]

-----------------------------------------------------------------------------
(* createFleet, member after member.                                       *)

Upcoming(c) == making /\ member[c].status = "none" /\ \A d \in 1 .. c - 1 : member[d].status # "none"

Pushed(c, m) ==
  /\ member' = [member EXCEPT ![c] = m]
  /\ making' = (c < Members)
  /\ UNCHANGED <<winner, listed, loaded, leaving, busy, count, ends, fell, own, crashes>>
  /\ file' = Saved

CreateMember(c) ==
  /\ Upcoming(c)
  /\ Pushed(c, [status |-> "booting", run |-> None])
  /\ box' = [box EXCEPT ![c] = "starting"]
  /\ watched' = watched \cup {c}

\* createSession throws: the member stands for a session that never was.
CreateFails(c) ==
  /\ Upcoming(c)
  /\ Pushed(c, [status |-> "over", run |-> None])
  /\ UNCHANGED <<box, watched>>

-----------------------------------------------------------------------------
(* The sessions.                                                           *)

\* The sandbox is ready: the request is sent, or refused.
Boots(c) ==
  /\ box[c] = "starting"
  /\ box' = [box EXCEPT ![c] = "ready"]
  /\ \/ /\ c \in watched /\ Begins(member[c])
        /\ Told(c, Sent(c))
        /\ busy' = [busy EXCEPT ![c] = count[c] + 1]
        /\ count' = [count EXCEPT ![c] = @ + 1]
        /\ own' = [own EXCEPT ![c] = @ \cup {count[c] + 1}]
     \/ /\ c \in watched /\ Begins(member[c])
        /\ Told(c, Ended(member[c]))
        /\ UNCHANGED <<busy, count, own>>
     \/ /\ ~(c \in watched /\ Begins(member[c]))
        /\ UNCHANGED <<fleetVars, busy, count, own>>
  /\ UNCHANGED <<ends, fell, crashes>>

BootFails(c) ==
  /\ box[c] = "starting"
  /\ box' = [box EXCEPT ![c] = "failed"]
  /\ fell' = fell \cup {c}
  /\ Told(c, Ended(member[c]))
  /\ UNCHANGED <<busy, count, ends, own, crashes>>

\* The run under way ends; `done` means that its gate passed.
RunEnds(c, e) ==
  /\ busy[c] # None
  /\ busy' = [busy EXCEPT ![c] = None]
  /\ ends' = [ends EXCEPT ![c] = @ \cup {<<busy[c], e>>}]
  /\ IF Mine(member[c], busy[c])
     THEN Told(c, [member[c] EXCEPT !.status = e])
     ELSE UNCHANGED fleetVars
  /\ UNCHANGED <<box, count, fell, own, crashes>>

\* A stopped session keeps its record, in which its run did not end well.
Closed(c) == IF busy[c] = None THEN ends[c] ELSE ends[c] \cup {<<busy[c], "over">>}

\* Mutant of Halt: the fleet does not hear of a stop.
HaltUnheard(c) ==
  /\ box[c] \in {"starting", "ready", "failed"}
  /\ box' = [box EXCEPT ![c] = "stopped"]
  /\ busy' = [busy EXCEPT ![c] = None]
  /\ ends' = [ends EXCEPT ![c] = Closed(c)]
  /\ UNCHANGED fleetVars

\* stopSession, whoever calls it.
Halt(c) ==
  /\ box[c] \in {"starting", "ready", "failed"}
  /\ box' = [box EXCEPT ![c] = "stopped"]
  /\ busy' = [busy EXCEPT ![c] = None]
  /\ ends' = [ends EXCEPT ![c] = Closed(c)]
  /\ Told(c, Ended(member[c]))

Stop(c) == Halt(c) /\ UNCHANGED <<count, fell, own, crashes>>

\* A person starts the sandbox once more, or resumes the session from its
\* record, which does not hold the statuses it went through.
StartAgain(c) ==
  /\ InPlay /\ box[c] \in {"failed", "stopped"}
  /\ box' = [box EXCEPT ![c] = "starting"]
  /\ fell' = IF box[c] = "stopped" THEN fell \ {c} ELSE fell
  /\ UNCHANGED <<fleetVars, busy, count, ends, own, crashes>>

Asked == UNION {{c} \X ((1 .. count[c]) \ own[c]) : c \in Candidate}

Ask(c) ==
  /\ InPlay /\ Cardinality(Asked) < MaxAsks
  /\ box[c] = "ready" /\ busy[c] = None
  /\ busy' = [busy EXCEPT ![c] = count[c] + 1]
  /\ count' = [count EXCEPT ![c] = @ + 1]
  /\ UNCHANGED <<fleetVars, box, ends, fell, own, crashes>>

Remove(c) ==
  /\ box[c] \in {"stopped", "failed"}
  /\ box' = [box EXCEPT ![c] = "gone"]
  /\ Told(c, Ended(member[c]))
  /\ UNCHANGED <<busy, count, ends, fell, own, crashes>>

-----------------------------------------------------------------------------
(* The winner, and the end of the fleet.                                   *)

chooseFleetWinner(c) ==
  /\ listed /\ member[c].status = "done"
  /\ winner' = c
  /\ UNCHANGED member
  /\ file' = Saved
  /\ UNCHANGED <<listed, loaded, making, watched, leaving, boxVars, crashes>>

\* Mutant of Deletable: one member that ended is enough.
DeletableOnceDecided == \E c \in Candidate : member[c].status \in Terminal

\* No member is still at work, of those there are.
Deletable == \A c \in Candidate : member[c].status \notin Live

deleteFleet ==
  /\ listed /\ Deletable
  /\ making => "early" \in Faults
  /\ listed' = FALSE /\ file' = Gone
  /\ leaving' = [c \in Candidate |-> IF box[c] = "none" THEN "no" ELSE "stop"]
  /\ UNCHANGED <<member, winner, loaded, making, watched, boxVars, crashes>>

\* stopAndDeleteSession: neither half minds that the other failed.
LeaveStops(c) ==
  /\ leaving[c] = "stop"
  /\ leaving' = [leaving EXCEPT ![c] = "remove"]
  /\ IF box[c] \in {"starting", "ready", "failed"}
     THEN /\ box' = [box EXCEPT ![c] = "stopped"]
          /\ busy' = [busy EXCEPT ![c] = None]
          /\ ends' = [ends EXCEPT ![c] = Closed(c)]
     ELSE UNCHANGED <<box, busy, ends>>
  /\ UNCHANGED <<member, winner, listed, loaded, making, watched, file, count, fell, own, crashes>>

LeaveRemoves(c) ==
  /\ leaving[c] = "remove"
  /\ leaving' = [leaving EXCEPT ![c] = "no"]
  /\ box' = IF box[c] \in {"stopped", "failed"} THEN [box EXCEPT ![c] = "gone"] ELSE box
  /\ UNCHANGED <<member, winner, listed, loaded, making, watched, file, busy, count, ends, fell, own, crashes>>

-----------------------------------------------------------------------------
(* A restart of the server.                                                *)

\* `lost`: sessions whose record on disk does not have their last run.
Restart(lost) ==
  /\ InPlay /\ crashes < MaxCrashes /\ crashes' = crashes + 1
  /\ listed' = FALSE /\ loaded' = FALSE /\ making' = FALSE
  /\ watched' = {} /\ leaving' = [c \in Candidate |-> "no"]
  /\ box' = [c \in Candidate |-> IF box[c] \in {"starting", "ready", "failed"} THEN "stopped" ELSE box[c]]
  /\ busy' = [c \in Candidate |-> None]
  /\ lost # {} => "kill" \in Faults
  /\ ends' = [c \in Candidate |-> IF c \in lost THEN ends[c] ELSE Closed(c)]
  /\ fell' = {}
  /\ UNCHANGED <<member, winner, file, count, own>>

\* A live member of a session that is ready is watched again: the session's
\* state and history are replayed to it.
Revived(c) == file.member[c].status \in Live /\ box[c] = "ready"

\* Mutant of Replayed: the session is listened to, its history is not read.
ReplayedNothing(c, sent) == IF c \in sent THEN Sent(c) ELSE file.member[c]

Replayed(c, sent) ==
  LET m == IF c \in sent THEN Sent(c) ELSE file.member[c]
      heard == {x \in ends[c] : Mine(m, x[1])}
  IN IF heard # {} THEN [m EXCEPT !.status = (CHOOSE x \in heard : TRUE)[2]]
     ELSE IF c \in fell \/ Begins(m) THEN Ended(m)
     ELSE m

\* What a member is once it is read back.  The end of one that cannot be
\* taken up again is not saved, unless a later member is.
ReadBack(c, sent) ==
  IF Revived(c) THEN Replayed(c, sent)
  ELSE IF file.member[c].status \in Live THEN Ended(file.member[c])
  ELSE file.member[c]

ensureLoaded(sent) ==
  /\ ~loaded /\ loaded' = TRUE
  /\ file # Gone /\ listed' = TRUE
  /\ sent \subseteq {c \in Candidate : Revived(c) /\ Begins(file.member[c]) /\ busy[c] = None}
  /\ member' = [c \in Candidate |-> ReadBack(c, sent)]
  /\ winner' = file.winner
  /\ watched' = {c \in Candidate : Revived(c) /\ member'[c].status \in Live}
  /\ LET wrote == {c \in Candidate : Revived(c) /\ member'[c] # file.member[c]}
     IN file' = [file EXCEPT !.member =
                   [c \in Candidate |-> IF \E w \in wrote : c <= w THEN member'[c] ELSE @[c]]]
  /\ busy' = [c \in Candidate |-> IF c \in sent THEN count[c] + 1 ELSE busy[c]]
  /\ count' = [c \in Candidate |-> IF c \in sent THEN count[c] + 1 ELSE count[c]]
  /\ own' = [c \in Candidate |-> IF c \in sent THEN own[c] \cup {count[c] + 1} ELSE own[c]]
  /\ UNCHANGED <<making, leaving, box, ends, fell, crashes>>

-----------------------------------------------------------------------------
Create == \E c \in Candidate : CreateMember(c) \/ CreateFails(c)
BootEnds(c) == Boots(c) \/ BootFails(c)
RunOver(c) == \E e \in Terminal : RunEnds(c, e)
Leave(c) == LeaveStops(c) \/ LeaveRemoves(c)

Person ==
  \/ \E c \in Candidate : Stop(c) \/ StartAgain(c) \/ Ask(c) \/ Remove(c) \/ chooseFleetWinner(c)
  \/ deleteFleet
  \/ \E sent \in SUBSET Candidate : ensureLoaded(sent)

Next ==
  \/ Create \/ Person
  \/ \E c \in Candidate : BootEnds(c) \/ RunOver(c) \/ Leave(c)
  \/ \E lost \in SUBSET {c \in Candidate : busy[c] # None} : Restart(lost)

Spec == Init /\ [][Next]_vars

\* Sessions are created, boots and runs end: docker and the model answer or
\* run into a limit of their own.
FairSpec ==
  /\ Spec
  /\ WF_vars(Create)
  /\ \A c \in Candidate : WF_vars(BootEnds(c)) /\ WF_vars(RunOver(c)) /\ WF_vars(Leave(c))

-----------------------------------------------------------------------------
(* Properties.                                                             *)

\* startMember: the request reaches a session at most once, however often the
\* session reports that it is ready, is resumed, or is replayed after a restart.
SentOnce == \A c \in Candidate : Cardinality(own[c]) <= 1

\* chooseFleetWinner: a member that counts as done, in memory or on disk, has
\* had a run of this fleet's request that passed the gate, whatever else the
\* session was asked; and the winner is one of them.
Passed(c) == \E r \in own[c] : <<r, "done">> \in ends[c]

WinnerPassed ==
  /\ \A c \in Candidate : member[c].status = "done" => Passed(c)
  /\ file # Gone => /\ \A c \in Candidate : file.member[c].status = "done" => Passed(c)
                    /\ file.winner # None => file.member[file.winner].status = "done"

\* What a member at work waits for: the boot its session is in, or the run
\* that carries the request; and the fleet will hear how it ends.
UnderWay(c) ==
  /\ c \in watched
  /\ \/ Begins(member[c]) /\ box[c] = "starting"
     \/ busy[c] # None /\ member[c] = [status |-> "running", run |-> busy[c]]

\* A fleet never waits for nothing: whatever people did with the sessions and
\* whatever came before a restart, a member it shows at work has a boot or a
\* run under way to which the fleet listens (updateMember, ensureLoaded).
WorkIsUnderWay ==
  listed => \A c \in Candidate : member[c].status \in Live => UnderWay(c)

\* As long as the server runs, every member of a listed fleet ends, and with
\* it what keeps the fleet from being deleted.
MembersEnd ==
  \A c \in Candidate :
    listed /\ member[c].status \in Live ~> ~listed \/ member[c].status \in Terminal

\* deleteFleet: a fleet that was deleted is not saved again, and so does not
\* come back with the next start of the server.
DeletedForGood == [][file = Gone => file' = Gone]_vars
=============================================================================
