---------------------------- MODULE FleetProofs ----------------------------
(***************************************************************************)
(* Fleets of any size, with any number of restarts, with or without the    *)
(* faults: the request is sent to a session at most once, and a winner is  *)
(* a member whose own run passed.  A fleet that is complete when it is     *)
(* deleted stays deleted.                                                  *)
(*                                                                         *)
(* What a member remembers must agree with what became of its session, in  *)
(* the server's memory and in the file, since a restart goes back to the   *)
(* file (Sound).                                                           *)
(***************************************************************************)
EXTENDS Fleet, TLAPS, FiniteSetTheorems

\* A member m agrees with the runs `o` of the request and the ends `e`.
SoundIn(o, e, m) ==
  /\ m.run # None => o = {m.run}
  /\ m.status = "done" => \E r \in o : <<r, "done">> \in e
  /\ Begins(m) \/ m.status = "none" => o = {}

Sound(c, m) == SoundIn(own[c], ends[c], m)

Remembered == \A c \in Candidate : Sound(c, member[c])
Stored == file # Gone => \A c \in Candidate : Sound(c, file.member[c])
OneRun == \A c \in Candidate : own[c] = {} \/ \E r \in Nat : own[c] = {r}
Crowned == winner # None => member[winner].status = "done"
CrownStored == file # Gone => (file.winner # None => file.member[file.winner].status = "done")
Attentive == \A c \in watched : member[c].status \in Live
Identified == \A c \in Candidate : \A x \in ends[c] : x[1] # None

IInv == TypeOK /\ Remembered /\ Stored /\ OneRun /\ Crowned /\ CrownStored /\ Attentive /\ Identified

-----------------------------------------------------------------------------
(* Type correctness.                                                       *)

LEMMA ConstantFacts ==
  /\ None \in Nat /\ None \notin Candidate
  /\ Candidate \subseteq Nat
  /\ Terminal \cap Live = {} /\ "none" \notin Terminal \cup Live
BY MembersAssumption DEF None, Candidate, Terminal, Live

LEMMA MemberType ==
  ASSUME TypeOK, NEW c \in Candidate
  PROVE  /\ member[c] \in Member /\ Ended(member[c]) \in Member /\ Sent(c) \in Member
         /\ \A e \in Terminal : [member[c] EXCEPT !.status = e] \in Member
BY DEF TypeOK, Member, Ended, Sent, Terminal, Live

LEMMA ToldType ==
  ASSUME TypeOK, NEW c \in Candidate, NEW m \in Member, Told(c, m)
  PROVE  /\ member' \in [Candidate -> Member] /\ winner' \in Candidate \cup {None}
         /\ listed' \in BOOLEAN /\ loaded' \in BOOLEAN /\ making' \in BOOLEAN
         /\ watched' \subseteq Candidate
         /\ leaving' \in [Candidate -> {"no", "stop", "remove"}]
         /\ file' = Gone \/ file' \in [member : [Candidate -> Member], winner : Candidate \cup {None}]
BY DEF TypeOK, Told, Saved

LEMMA PushedType ==
  ASSUME TypeOK, NEW c \in Candidate, NEW m \in Member, Pushed(c, m)
  PROVE  /\ member' \in [Candidate -> Member] /\ winner' \in Candidate \cup {None}
         /\ listed' \in BOOLEAN /\ loaded' \in BOOLEAN /\ making' \in BOOLEAN
         /\ leaving' \in [Candidate -> {"no", "stop", "remove"}]
         /\ file' = Gone \/ file' \in [member : [Candidate -> Member], winner : Candidate \cup {None}]
BY DEF TypeOK, Pushed, Saved

LEMMA ClosedType ==
  ASSUME TypeOK, NEW c \in Candidate
  PROVE  Closed(c) \in SUBSET (Nat \X Terminal)
BY DEF TypeOK, Closed, Terminal

\* What a member is once it is read back, and where it comes from.
LEMMA ReadBackType ==
  ASSUME TypeOK, file # Gone, NEW c \in Candidate, NEW sent
  PROVE  ReadBack(c, sent) \in Member
<1> DEFINE m == IF c \in sent THEN Sent(c) ELSE file.member[c]
           heard == {x \in ends[c] : Mine(m, x[1])}
<1>1. file.member[c] \in Member /\ Sent(c) \in Member
  BY MemberType DEF TypeOK
<1>2. \A n \in Member : Ended(n) \in Member /\ \A e \in Terminal : [n EXCEPT !.status = e] \in Member
  BY DEF Ended, Member, Terminal, Live
<1>3. ASSUME heard # {} PROVE (CHOOSE x \in heard : TRUE)[2] \in Terminal
  <2>1. (CHOOSE x \in heard : TRUE) \in heard
    BY <1>3
  <2>2. (CHOOSE x \in heard : TRUE) \in Nat \X Terminal
    BY <2>1 DEF TypeOK
  <2> QED BY <2>2
<1>4. m \in Member
  BY <1>1
<1>5. Replayed(c, sent) \in Member
  <2>1. CASE heard # {}
    BY <2>1, <1>2, <1>3, <1>4 DEF Replayed
  <2>2. CASE heard = {}
    BY <2>2, <1>2, <1>4 DEF Replayed
  <2> QED BY <2>1, <2>2
<1> QED BY <1>1, <1>2, <1>5 DEF ReadBack

LEMMA InitType == Init => TypeOK
BY ConstantFacts, BoundsAssumption DEF Init, TypeOK, Member, None, Live, Terminal

LEMMA ReadType ==
  ASSUME TypeOK, NEW sent, ensureLoaded(sent)
  PROVE  TypeOK'
<1>1. member' \in [Candidate -> Member]
  BY ReadBackType DEF ensureLoaded
<1>2. file \in [member : [Candidate -> Member], winner : Candidate \cup {None}]
  BY DEF ensureLoaded, TypeOK
<1>3. file' \in [member : [Candidate -> Member], winner : Candidate \cup {None}]
  BY <1>1, <1>2 DEF ensureLoaded
<1>4. winner' \in Candidate \cup {None} /\ watched' \subseteq Candidate
  BY <1>2 DEF ensureLoaded
<1>5. /\ busy' \in [Candidate -> Nat] /\ count' \in [Candidate -> Nat]
      /\ own' \in [Candidate -> SUBSET Nat]
  BY DEF ensureLoaded, TypeOK
<1> QED BY <1>1, <1>3, <1>4, <1>5 DEF ensureLoaded, TypeOK

\* The steps in which a session tells the fleet how it does.
LEMMA SessionType ==
  ASSUME TypeOK, NEW c \in Candidate,
         Boots(c) \/ BootFails(c) \/ RunOver(c) \/ Stop(c) \/ Remove(c)
  PROVE  TypeOK'
<1>1. Ended(member[c]) \in Member /\ Sent(c) \in Member
  BY MemberType
<1>2. CASE Boots(c)
  <2>1. CASE UNCHANGED fleetVars
    BY <1>2, <2>1 DEF Boots, TypeOK, fleetVars
  <2>2. CASE \E m \in Member : Told(c, m)
    BY <1>2, <2>2, ToldType DEF Boots, TypeOK
  <2> QED BY <1>1, <1>2, <2>1, <2>2 DEF Boots
<1>3. CASE BootFails(c)
  BY <1>1, <1>3, ToldType DEF BootFails, TypeOK
<1>4. CASE RunOver(c)
  <2> PICK e \in Terminal : RunEnds(c, e)
    BY <1>4 DEF RunOver
  <2>1. ends' \in [Candidate -> SUBSET (Nat \X Terminal)]
    BY DEF RunEnds, TypeOK
  <2>2. CASE UNCHANGED fleetVars
    BY <2>1, <2>2, ConstantFacts DEF RunEnds, TypeOK, fleetVars
  <2>3. CASE \E m \in Member : Told(c, m)
    BY <2>1, <2>3, ToldType, ConstantFacts DEF RunEnds, TypeOK
  <2> QED BY <2>2, <2>3, MemberType DEF RunEnds
<1>5. CASE Stop(c)
  BY <1>1, <1>5, ToldType, ClosedType, ConstantFacts DEF Stop, Halt, TypeOK
<1>6. CASE Remove(c)
  BY <1>1, <1>6, ToldType DEF Remove, TypeOK
<1> QED BY <1>2, <1>3, <1>4, <1>5, <1>6

LEMMA StepType == TypeOK /\ [Next]_vars => TypeOK'
<1> SUFFICES ASSUME TypeOK, [Next]_vars PROVE TypeOK'
  OBVIOUS
<1>1. ASSUME NEW c \in Candidate, CreateMember(c) \/ CreateFails(c) PROVE TypeOK'
  <2>1. \E m \in Member : Pushed(c, m)
    BY <1>1, ConstantFacts DEF CreateMember, CreateFails, Member, Live, Terminal
  <2> QED BY <1>1, <2>1, PushedType DEF CreateMember, CreateFails, Pushed, TypeOK
<1>2. ASSUME NEW c \in Candidate, BootEnds(c) \/ RunOver(c) \/ Stop(c) \/ Remove(c) PROVE TypeOK'
  BY <1>2, SessionType DEF BootEnds
<1>3. ASSUME NEW c \in Candidate, StartAgain(c) \/ Ask(c) PROVE TypeOK'
  BY <1>3 DEF StartAgain, Ask, TypeOK, fleetVars
<1>4. ASSUME NEW c \in Candidate, chooseFleetWinner(c) PROVE TypeOK'
  BY <1>4 DEF chooseFleetWinner, Saved, TypeOK, boxVars
<1>5. CASE deleteFleet
  BY <1>5 DEF deleteFleet, TypeOK, boxVars
<1>6. ASSUME NEW sent, ensureLoaded(sent) PROVE TypeOK'
  BY <1>6, ReadType
<1>7. ASSUME NEW c \in Candidate, Leave(c) PROVE TypeOK'
  <2>1. CASE LeaveStops(c)
    <3>1. /\ leaving' \in [Candidate -> {"no", "stop", "remove"}]
          /\ ends' \in [Candidate -> SUBSET (Nat \X Terminal)]
          /\ busy' \in [Candidate -> Nat]
      BY <2>1, ClosedType, ConstantFacts DEF LeaveStops, TypeOK
    <3> QED BY <2>1, <3>1 DEF LeaveStops, TypeOK
  <2>2. CASE LeaveRemoves(c)
    BY <2>2 DEF LeaveRemoves, TypeOK
  <2> QED BY <1>7, <2>1, <2>2 DEF Leave
<1>8. ASSUME NEW lost, Restart(lost) PROVE TypeOK'
  <2>1. ends' \in [Candidate -> SUBSET (Nat \X Terminal)]
    BY <1>8, ClosedType DEF Restart, TypeOK
  <2>2. crashes' \in 0 .. MaxCrashes
    BY <1>8, BoundsAssumption DEF Restart, TypeOK
  <2> QED BY <1>8, <2>1, <2>2, ConstantFacts DEF Restart, TypeOK
<1>9. CASE UNCHANGED vars
  BY <1>9 DEF vars, fleetVars, boxVars, TypeOK
<1> QED BY <1>1, <1>2, <1>3, <1>4, <1>5, <1>6, <1>7, <1>8, <1>9 DEF Next, Create, Person

\* The type invariant.
THEOREM TypeCorrect == Spec => []TypeOK
BY InitType, StepType, PTL DEF Spec

-----------------------------------------------------------------------------
(* A member agrees with its session.                                       *)

\* Nothing that is remembered is contradicted by another end of a run.
LEMMA SoundGrows ==
  ASSUME NEW o, NEW e, NEW f, NEW m, e \subseteq f, SoundIn(o, e, m)
  PROVE  SoundIn(o, f, m)
BY DEF SoundIn

\* A member that ended for want of a session claims nothing.
LEMMA EndedSound ==
  ASSUME NEW o, NEW e, NEW m \in Member, SoundIn(o, e, m)
  PROVE  SoundIn(o, e, Ended(m))
BY DEF SoundIn, Ended, Begins, Member

LEMMA SentSound ==
  ASSUME TypeOK, NEW c \in Candidate, NEW e
  PROVE  SoundIn({count[c] + 1}, e, Sent(c))
<1>1. count[c] + 1 # None
  BY DEF TypeOK, None
<1> QED BY <1>1 DEF SoundIn, Sent, Begins

\* What was told is saved with the rest of the fleet.
LEMMA SavedSound ==
  ASSUME Remembered', Crowned', file' = Saved
  PROVE  Stored' /\ CrownStored'
BY DEF Remembered, Crowned, Stored, CrownStored, Saved, Sound

\* A member is told something that agrees with its session: the others are not
\* concerned, and the winner is not among those that are told anything.
LEMMA ToldSound ==
  ASSUME IInv, TypeOK', NEW c \in Candidate, NEW m \in Member, Told(c, m),
         SoundIn(own'[c], ends'[c], m),
         c \notin watched => own'[c] = own[c],
         m.status \in Live \cup Terminal,
         \A d \in Candidate : ends[d] \subseteq ends'[d],
         \A d \in Candidate \ {c} : own'[d] = own[d]
  PROVE  Remembered' /\ Stored' /\ Crowned' /\ CrownStored' /\ Attentive'
<1>1. \A d \in Candidate \ {c} : SoundIn(own'[d], ends'[d], member[d])
  BY SoundGrows DEF IInv, Remembered, Sound
<1>2. \A d \in Candidate \ {c} : file # Gone => SoundIn(own'[d], ends'[d], file.member[d])
  BY SoundGrows DEF IInv, Stored, Sound
<1>3. CASE c \in watched
  <2>1. Remembered'
    BY <1>1, <1>3 DEF Told, Remembered, Sound, IInv, TypeOK
  <2>2. member[c].status \in Live
    BY <1>3 DEF IInv, Attentive
  <2>3. Crowned'
    BY <2>2, <1>3, ConstantFacts DEF Told, Crowned, IInv, TypeOK, Live
  <2>4. Attentive'
    BY <1>3 DEF Told, Attentive, IInv, TypeOK
  <2> QED BY <1>3, <2>1, <2>3, <2>4, SavedSound DEF Told
<1>4. CASE c \notin watched
  <2>1. SoundIn(own'[c], ends'[c], member[c])
    BY <1>4, SoundGrows DEF IInv, Remembered, Sound
  <2>2. file # Gone => SoundIn(own'[c], ends'[c], file.member[c])
    BY <1>4, SoundGrows DEF IInv, Stored, Sound
  <2>3. UNCHANGED <<member, watched, file, winner>>
    BY <1>4 DEF Told
  <2> QED BY <1>1, <1>2, <2>1, <2>2, <2>3
          DEF IInv, Remembered, Stored, Crowned, CrownStored, Attentive, Sound
<1> QED BY <1>3, <1>4

\* A step that leaves the fleet alone, and at most adds ends of runs.
LEMMA ApartSound ==
  ASSUME IInv, UNCHANGED <<member, winner, own>>,
         file' = file \/ file' = Gone,
         watched' \subseteq watched,
         \A d \in Candidate : ends[d] \subseteq ends'[d]
  PROVE  Remembered' /\ Stored' /\ OneRun' /\ Crowned' /\ CrownStored' /\ Attentive'
<1>1. Remembered' /\ Stored'
  BY SoundGrows DEF IInv, Remembered, Stored, Sound
<1> QED BY <1>1 DEF IInv, OneRun, Crowned, CrownStored, Attentive

-----------------------------------------------------------------------------
(* The invariant is kept.                                                  *)

LEMMA InitInv == Init => IInv
<1> SUFFICES ASSUME Init PROVE IInv
  OBVIOUS
<1>1. TypeOK
  BY InitType
<1> QED BY <1>1 DEF Init, IInv, Remembered, Stored, OneRun, Crowned, CrownStored, Attentive,
                    Identified, Sound, SoundIn, Begins, None

LEMMA CreateInv ==
  ASSUME IInv, TypeOK', NEW c \in Candidate, CreateMember(c) \/ CreateFails(c)
  PROVE  IInv'
<1> USE DEF IInv
<1> PICK s \in {"booting", "over"} : Pushed(c, [status |-> s, run |-> None])
  BY DEF CreateMember, CreateFails
<1>1. /\ member[c].status = "none" /\ own[c] = {}
      /\ UNCHANGED <<winner, ends, own>>
  BY DEF CreateMember, CreateFails, Upcoming, Remembered, Sound, SoundIn, Pushed
<1>2. /\ member'[c] = [status |-> s, run |-> None]
      /\ \A d \in Candidate \ {c} : member'[d] = member[d]
  BY DEF Pushed, TypeOK
<1>3. Remembered'
  BY <1>1, <1>2 DEF Remembered, Sound, SoundIn, None
<1>4. Crowned'
  BY <1>1, <1>2 DEF Crowned, TypeOK
<1>5. Attentive'
  BY <1>1, <1>2 DEF Attentive, Live, Pushed, CreateMember, CreateFails, TypeOK
<1>6. OneRun' /\ Identified'
  BY <1>1 DEF OneRun, Identified
<1> QED BY <1>3, <1>4, <1>5, <1>6, SavedSound DEF Pushed

LEMMA BootInv ==
  ASSUME IInv, TypeOK', NEW c \in Candidate, BootEnds(c)
  PROVE  IInv'
<1> USE DEF IInv
<1>1. Sound(c, member[c]) /\ member[c] \in Member /\ Ended(member[c]) \in Member /\ Sent(c) \in Member
  BY MemberType DEF Remembered
<1>2. /\ Ended(member[c]).status \in Live \cup Terminal
      /\ Sent(c).status \in Live \cup Terminal
  BY <1>1 DEF Ended, Sent, Live, Terminal, Member
<1>3. UNCHANGED ends
  BY DEF BootEnds, Boots, BootFails
<1>4. Identified'
  BY <1>3 DEF Identified
<1>5. CASE BootFails(c)
  <2>1. UNCHANGED own /\ Told(c, Ended(member[c]))
    BY <1>5 DEF BootFails
  <2>2. SoundIn(own'[c], ends'[c], Ended(member[c]))
    BY <1>1, <1>3, <2>1, EndedSound DEF Sound
  <2> QED BY <1>1, <1>2, <1>3, <1>4, <2>1, <2>2, ToldSound DEF OneRun
<1>6. CASE Boots(c) /\ c \in watched /\ Begins(member[c]) /\ Told(c, Sent(c)) /\ own' = [own EXCEPT ![c] = @ \cup {count[c] + 1}]
  <2>1. own[c] = {} /\ own'[c] = {count[c] + 1}
    BY <1>1, <1>6 DEF Sound, SoundIn, TypeOK
  <2>2. \A d \in Candidate \ {c} : own'[d] = own[d]
    BY <1>6 DEF TypeOK
  <2>3. SoundIn(own'[c], ends'[c], Sent(c))
    BY <2>1, SentSound
  <2>4. OneRun'
    BY <2>1, <2>2 DEF OneRun, TypeOK
  <2> QED BY <1>1, <1>2, <1>3, <1>4, <1>6, <2>2, <2>3, <2>4, ToldSound
<1>7. CASE Told(c, Ended(member[c])) /\ UNCHANGED own
  <2>1. SoundIn(own'[c], ends'[c], Ended(member[c]))
    BY <1>1, <1>3, <1>7, EndedSound DEF Sound
  <2> QED BY <1>1, <1>2, <1>3, <1>4, <1>7, <2>1, ToldSound DEF OneRun
<1>8. CASE UNCHANGED <<fleetVars, own>>
  BY <1>3, <1>4, <1>8, ApartSound DEF fleetVars
<1> QED BY <1>5, <1>6, <1>7, <1>8 DEF BootEnds, Boots

LEMMA RunInv ==
  ASSUME IInv, TypeOK', NEW c \in Candidate, RunOver(c)
  PROVE  IInv'
<1> USE DEF IInv
<1> PICK e \in Terminal : RunEnds(c, e)
  BY DEF RunOver
<1>1. /\ UNCHANGED own /\ busy[c] # None
      /\ ends'[c] = ends[c] \cup {<<busy[c], e>>}
      /\ \A d \in Candidate : ends[d] \subseteq ends'[d]
      /\ \A d \in Candidate \ {c} : ends'[d] = ends[d]
  BY DEF RunEnds, TypeOK
<1>2. Identified' /\ OneRun'
  BY <1>1 DEF Identified, OneRun
<1>3. CASE Mine(member[c], busy[c])
  <2> DEFINE m == [member[c] EXCEPT !.status = e]
  <2>1. Sound(c, member[c]) /\ member[c] \in Member /\ m \in Member
    BY MemberType DEF Remembered
  <2>2. m.run = busy[c] /\ m.status = e /\ own[c] = {busy[c]}
    BY <1>1, <1>3, <2>1 DEF Mine, Sound, SoundIn, Member
  <2>3. SoundIn(own'[c], ends'[c], m)
    BY <1>1, <2>2 DEF SoundIn, Begins, Terminal
  <2>4. Told(c, m)
    BY <1>3 DEF RunEnds
  <2> HIDE DEF m
  <2> QED BY <1>1, <1>2, <2>1, <2>2, <2>3, <2>4, ToldSound
<1>4. CASE ~Mine(member[c], busy[c])
  <2>1. UNCHANGED fleetVars
    BY <1>4 DEF RunEnds
  <2> QED BY <1>1, <1>2, <2>1, ApartSound DEF fleetVars
<1> QED BY <1>3, <1>4

\* A session that stops closes its run, if it has one.
LEMMA ClosedGrows ==
  ASSUME NEW c \in Candidate
  PROVE  /\ ends[c] \subseteq Closed(c)
         /\ \A x \in Closed(c) \ ends[c] : x[1] # None
BY DEF Closed

LEMMA HaltInv ==
  ASSUME IInv, TypeOK', NEW c \in Candidate, Stop(c) \/ Remove(c)
  PROVE  IInv'
<1> USE DEF IInv
<1>1. Sound(c, member[c]) /\ member[c] \in Member /\ Ended(member[c]) \in Member
  BY MemberType DEF Remembered
<1>2. /\ Told(c, Ended(member[c])) /\ UNCHANGED own
      /\ \A d \in Candidate : ends[d] \subseteq ends'[d]
      /\ \A d \in Candidate : ends'[d] = ends[d] \/ ends'[d] = Closed(d)
  BY ClosedGrows DEF Stop, Halt, Remove, TypeOK
<1>3. Ended(member[c]).status \in Live \cup Terminal
  BY <1>1 DEF Ended, Terminal, Member
<1>4. SoundIn(own'[c], ends'[c], Ended(member[c]))
  BY <1>1, <1>2, EndedSound, SoundGrows DEF Sound
<1>5. Identified' /\ OneRun'
  BY <1>2, ClosedGrows DEF Identified, OneRun
<1> QED BY <1>1, <1>2, <1>3, <1>4, <1>5, ToldSound

LEMMA WinnerInv ==
  ASSUME IInv, TypeOK', NEW c \in Candidate, chooseFleetWinner(c)
  PROVE  IInv'
<1>1. UNCHANGED <<member, own, ends, watched>> /\ file' = Saved /\ Crowned'
  BY DEF chooseFleetWinner, boxVars, Crowned
<1>2. Remembered' /\ OneRun' /\ Attentive' /\ Identified'
  BY <1>1 DEF IInv, Remembered, Sound, OneRun, Attentive, Identified
<1> QED BY <1>1, <1>2, SavedSound DEF IInv

LEMMA LeaveInv ==
  ASSUME IInv, TypeOK', NEW c \in Candidate, Leave(c)
  PROVE  IInv'
<1>1. /\ UNCHANGED <<member, winner, own, watched, file>>
      /\ \A d \in Candidate : ends[d] \subseteq ends'[d]
      /\ \A d \in Candidate : ends'[d] = ends[d] \/ ends'[d] = Closed(d)
  BY ClosedGrows DEF Leave, LeaveStops, LeaveRemoves, IInv, TypeOK
<1>2. Identified'
  BY <1>1, ClosedGrows DEF IInv, Identified
<1> QED BY <1>1, <1>2, ApartSound DEF IInv

LEMMA RestartInv ==
  ASSUME IInv, TypeOK', NEW lost, Restart(lost)
  PROVE  IInv'
<1>1. /\ UNCHANGED <<member, winner, own, file>> /\ watched' = {}
      /\ \A d \in Candidate : ends[d] \subseteq ends'[d]
      /\ \A d \in Candidate : ends'[d] = ends[d] \/ ends'[d] = Closed(d)
  BY ClosedGrows DEF Restart
<1>2. Identified'
  BY <1>1, ClosedGrows DEF IInv, Identified
<1> QED BY <1>1, <1>2, ApartSound DEF IInv

\* A member that is read back agrees with its session, whatever was replayed.
LEMMA ReadSound ==
  ASSUME IInv, file # Gone, NEW sent, NEW c \in Candidate,
         c \in sent => Revived(c) /\ Begins(file.member[c]),
         NEW o, o = IF c \in sent THEN own[c] \cup {count[c] + 1} ELSE own[c]
  PROVE  SoundIn(o, ends[c], ReadBack(c, sent))
<1> DEFINE m == IF c \in sent THEN Sent(c) ELSE file.member[c]
           heard == {x \in ends[c] : Mine(m, x[1])}
<1>1. file.member[c] \in Member /\ SoundIn(own[c], ends[c], file.member[c])
  BY DEF IInv, TypeOK, Stored, Sound
<1>2. m \in Member /\ SoundIn(o, ends[c], m)
  <2>1. CASE c \in sent
    <3>1. own[c] = {}
      BY <1>1, <2>1 DEF SoundIn
    <3>2. o = {count[c] + 1}
      BY <2>1, <3>1
    <3> QED BY <2>1, <3>2, SentSound, MemberType DEF IInv
  <2>2. CASE c \notin sent
    BY <1>1, <2>2
  <2> QED BY <2>1, <2>2
<1> HIDE DEF m
<1>3. CASE heard # {}
  <2> DEFINE x == CHOOSE y \in heard : TRUE
             n == [m EXCEPT !.status = x[2]]
  <2>1. x \in ends[c] /\ m.run = x[1]
    BY <1>3 DEF Mine
  <2>2. x = <<x[1], x[2]>> /\ x[2] \in Terminal /\ x[1] # None
    BY <2>1 DEF IInv, TypeOK, Identified
  <2> HIDE DEF x
  <2>3. o = {m.run} /\ n.run = m.run /\ n.status = x[2]
    BY <1>2, <2>1, <2>2 DEF SoundIn, Member
  <2>4. SoundIn(o, ends[c], n)
    BY <2>1, <2>2, <2>3 DEF SoundIn, Begins, Terminal
  <2>5. Replayed(c, sent) = n
    BY <1>3 DEF Replayed, m, x
  <2>6. ~Revived(c) => o = own[c]
    OBVIOUS
  <2> QED BY <1>1, <2>4, <2>5, <2>6, EndedSound DEF ReadBack
<1>4. CASE heard = {}
  <2>1. Replayed(c, sent) \in {m, Ended(m)}
    BY <1>4 DEF Replayed, m
  <2>2. SoundIn(o, ends[c], Replayed(c, sent))
    BY <1>2, <2>1, EndedSound
  <2>3. ~Revived(c) => o = own[c]
    OBVIOUS
  <2> QED BY <1>1, <2>2, <2>3, EndedSound DEF ReadBack
<1> QED BY <1>3, <1>4

LEMMA ReadInv ==
  ASSUME IInv, TypeOK', NEW sent, ensureLoaded(sent)
  PROVE  IInv'
<1> USE DEF IInv
<1>1. /\ file # Gone /\ UNCHANGED ends
      /\ sent \subseteq {c \in Candidate : Revived(c) /\ Begins(file.member[c])}
      /\ \A c \in Candidate : member'[c] = ReadBack(c, sent)
      /\ winner' = file.winner
  BY DEF ensureLoaded
<1>2. \A c \in Candidate :
        own'[c] = IF c \in sent THEN own[c] \cup {count[c] + 1} ELSE own[c]
  BY DEF ensureLoaded
<1>3. \A c \in Candidate : SoundIn(own'[c], ends'[c], member'[c])
  BY <1>1, <1>2, ReadSound
<1>4. Remembered'
  BY <1>3 DEF Remembered, Sound
<1>5. file \in [member : [Candidate -> Member], winner : Candidate \cup {None}]
  BY <1>1 DEF TypeOK
<1>6. \A c \in Candidate :
        \/ file'.member[c] = member'[c]
        \/ file'.member[c] = file.member[c] /\ c \notin sent
  <2> SUFFICES ASSUME NEW c \in Candidate, c \in sent
               PROVE  file'.member[c] = member'[c]
    BY <1>5 DEF ensureLoaded
  <2>1. Revived(c) /\ Begins(file.member[c])
    BY <1>1
  <2>2. member'[c] = Replayed(c, sent)
    BY <1>1, <2>1 DEF ReadBack
  <2>3. member'[c].run = count[c] + 1
    <3>1. Sent(c) \in Member /\ Sent(c).run = count[c] + 1
      BY MemberType DEF Sent
    <3> QED BY <2>2, <3>1 DEF Replayed, Ended, Member
  <2>4. member'[c] # file.member[c]
    BY <2>1, <2>3 DEF Begins, None, TypeOK
  <2> QED BY <1>5, <2>1, <2>4, ConstantFacts DEF ensureLoaded
<1>7. file'.winner = file.winner
  BY <1>5 DEF ensureLoaded
<1>8. Stored'
  <2> SUFFICES ASSUME NEW c \in Candidate PROVE SoundIn(own'[c], ends'[c], file'.member[c])
    BY DEF Stored, Sound
  <2>1. CASE file'.member[c] = member'[c]
    BY <1>3, <2>1
  <2>2. CASE file'.member[c] = file.member[c] /\ c \notin sent
    BY <1>1, <1>2, <2>2 DEF Stored, Sound
  <2> QED BY <1>6, <2>1, <2>2
<1>9. winner' # None => /\ member'[winner'].status = "done"
                        /\ file'.member[winner'].status = "done"
  <2> SUFFICES ASSUME winner' # None
               PROVE  member'[winner'].status = "done" /\ file'.member[winner'].status = "done"
    OBVIOUS
  <2>1. winner' \in Candidate /\ file.member[winner'].status = "done"
    BY <1>1, <1>5 DEF CrownStored
  <2>2. member'[winner'] = file.member[winner']
    BY <1>1, <2>1 DEF ReadBack, Revived, Live
  <2> QED BY <1>6, <2>1, <2>2
<1>10. Attentive'
  BY DEF ensureLoaded, Attentive
<1>11. OneRun'
  <2> SUFFICES ASSUME NEW c \in Candidate PROVE own'[c] = {} \/ \E r \in Nat : own'[c] = {r}
    BY DEF OneRun
  <2>1. CASE c \in sent
    <3>1. own[c] = {}
      BY <1>1, <2>1 DEF Stored, Sound, SoundIn
    <3>2. own'[c] = {count[c] + 1} /\ count[c] + 1 \in Nat
      BY <1>2, <2>1, <3>1 DEF TypeOK
    <3> QED BY <3>2
  <2>2. CASE c \notin sent
    BY <1>2, <2>2 DEF OneRun
  <2> QED BY <2>1, <2>2
<1>12. Identified' /\ Crowned' /\ CrownStored'
  BY <1>1, <1>7, <1>9 DEF Identified, Crowned, CrownStored
<1> QED BY <1>4, <1>8, <1>10, <1>11, <1>12

LEMMA StepInv == IInv /\ [Next]_vars => IInv'
<1> SUFFICES ASSUME IInv, [Next]_vars PROVE IInv'
  OBVIOUS
<1>1. TypeOK'
  BY StepType DEF IInv
<1>2. ASSUME NEW c \in Candidate, CreateMember(c) \/ CreateFails(c) PROVE IInv'
  BY <1>1, <1>2, CreateInv
<1>3. ASSUME NEW c \in Candidate, BootEnds(c) PROVE IInv'
  BY <1>1, <1>3, BootInv
<1>4. ASSUME NEW c \in Candidate, RunOver(c) PROVE IInv'
  BY <1>1, <1>4, RunInv
<1>5. ASSUME NEW c \in Candidate, Stop(c) \/ Remove(c) PROVE IInv'
  BY <1>1, <1>5, HaltInv
<1>6. ASSUME NEW c \in Candidate, chooseFleetWinner(c) PROVE IInv'
  BY <1>1, <1>6, WinnerInv
<1>7. ASSUME NEW c \in Candidate, Leave(c) PROVE IInv'
  BY <1>1, <1>7, LeaveInv
<1>8. ASSUME NEW lost, Restart(lost) PROVE IInv'
  BY <1>1, <1>8, RestartInv
<1>9. ASSUME NEW sent, ensureLoaded(sent) PROVE IInv'
  BY <1>1, <1>9, ReadInv
<1>10. CASE \/ \E c \in Candidate : StartAgain(c) \/ Ask(c)
            \/ deleteFleet
            \/ UNCHANGED vars
  <2>1. UNCHANGED <<member, winner, watched, own, ends>> /\ (file' = file \/ file' = Gone)
    BY <1>10 DEF StartAgain, Ask, deleteFleet, vars, fleetVars, boxVars
  <2>2. Identified'
    BY <2>1 DEF IInv, Identified
  <2> QED BY <1>1, <2>1, <2>2, ApartSound DEF IInv
<1> QED BY <1>2, <1>3, <1>4, <1>5, <1>6, <1>7, <1>8, <1>9, <1>10 DEF Next, Create, Person

LEMMA Invariance == Spec => []IInv
BY InitInv, StepInv, PTL DEF Spec

-----------------------------------------------------------------------------
(* What the fleet promises.                                                *)

\* The request reaches a session at most once, over reports that repeat,
\* sessions that are resumed, and restarts (startMember, ensureLoaded).
THEOREM RequestedOnce == Spec => []SentOnce
<1>1. IInv => SentOnce
  <2> SUFFICES ASSUME IInv, NEW c \in Candidate PROVE Cardinality(own[c]) <= 1
    BY DEF SentOnce
  <2>1. CASE own[c] = {}
    <3>1. Cardinality(own[c]) = 0
      BY <2>1, FS_EmptySet
    <3> QED BY <3>1
  <2>2. CASE \E r \in Nat : own[c] = {r}
    <3>1. Cardinality(own[c]) = 1
      BY <2>2, FS_Singleton
    <3> QED BY <3>1
  <2> QED BY <2>1, <2>2 DEF IInv, OneRun
<1> QED BY <1>1, Invariance, PTL

\* A member counts as done, and can win, only by the run of the fleet's own
\* request (updateMember, chooseFleetWinner).
THEOREM WinnersPassed == Spec => []WinnerPassed
<1>1. IInv => WinnerPassed
  BY DEF IInv, Remembered, Stored, CrownStored, Sound, SoundIn, Passed, WinnerPassed
<1> QED BY <1>1, Invariance, PTL

-----------------------------------------------------------------------------
(* A deleted fleet.                                                        *)

\* Nobody is left who would save it.
Departed == file = Gone => ~making /\ ~listed /\ watched = {}

LEMMA SavedNotGone ==
  ASSUME NEW f, f = [member |-> f.member, winner |-> f.winner]
  PROVE  f # Gone
<1>1. DOMAIN f = {"member", "winner"}
  OBVIOUS
<1>2. DOMAIN Gone = {"gone"}
  BY DEF Gone
<1> QED BY <1>1, <1>2

\* A step of a fleet that is not deleted keeps its file, unless deleteFleet
\* takes it; a step of a deleted one leaves it alone.
LEMMA DepartedStep ==
  ASSUME "early" \notin Faults, IInv, TypeOK', Departed, [Next]_vars
  PROVE  Departed' /\ (file = Gone => file' = Gone)
<1> USE DEF Departed
<1>1. ASSUME NEW c \in Candidate, NEW m, Told(c, m) PROVE Departed' /\ (file = Gone => file' = Gone)
  <2>1. Saved # Gone
    BY SavedNotGone DEF Saved
  <2> QED BY <1>1, <2>1 DEF Told
<1>2. ASSUME NEW c \in Candidate, CreateMember(c) \/ CreateFails(c)
      PROVE  Departed' /\ (file = Gone => file' = Gone)
  <2>1. Saved # Gone
    BY SavedNotGone DEF Saved
  <2> QED BY <1>2, <2>1 DEF CreateMember, CreateFails, Upcoming, Pushed
<1>3. ASSUME NEW c \in Candidate, chooseFleetWinner(c)
      PROVE  Departed' /\ (file = Gone => file' = Gone)
  <2>1. Saved # Gone
    BY SavedNotGone DEF Saved
  <2> QED BY <1>3, <2>1 DEF chooseFleetWinner
<1>4. ASSUME NEW sent, ensureLoaded(sent) PROVE Departed' /\ (file = Gone => file' = Gone)
  <2>1. file # Gone
    BY <1>4 DEF ensureLoaded
  <2>2. file' = [member |-> file'.member, winner |-> file'.winner]
    BY <1>4, <2>1 DEF ensureLoaded, IInv, TypeOK
  <2>3. file' # Gone
    BY <2>2, SavedNotGone
  <2> QED BY <2>1, <2>3
<1>5. CASE deleteFleet
  <2>1. watched = {}
    BY <1>5, ConstantFacts DEF deleteFleet, Deletable, IInv, TypeOK, Attentive
  <2> QED BY <1>5, <2>1 DEF deleteFleet
<1>6. ASSUME UNCHANGED <<file, making, listed, watched>> PROVE Departed' /\ (file = Gone => file' = Gone)
  BY <1>6
<1>7. ASSUME NEW lost, Restart(lost) PROVE Departed' /\ (file = Gone => file' = Gone)
  BY <1>7 DEF Restart, InPlay
<1>8. ASSUME NEW c \in Candidate, StartAgain(c) \/ Ask(c) \/ Leave(c)
      PROVE  Departed' /\ (file = Gone => file' = Gone)
  BY <1>6, <1>8 DEF StartAgain, Ask, Leave, LeaveStops, LeaveRemoves, fleetVars
<1>9. ASSUME NEW c \in Candidate, Boots(c) PROVE Departed' /\ (file = Gone => file' = Gone)
  BY <1>1, <1>6, <1>9 DEF Boots, fleetVars
<1>10. ASSUME NEW c \in Candidate, RunOver(c) PROVE Departed' /\ (file = Gone => file' = Gone)
  BY <1>1, <1>6, <1>10 DEF RunOver, RunEnds, fleetVars
<1>11. ASSUME NEW c \in Candidate, BootFails(c) \/ Stop(c) \/ Remove(c)
       PROVE  Departed' /\ (file = Gone => file' = Gone)
  BY <1>1, <1>11 DEF BootFails, Stop, Halt, Remove
<1>12. CASE UNCHANGED vars
  BY <1>6, <1>12 DEF vars, fleetVars
<1> QED BY <1>2, <1>3, <1>4, <1>5, <1>7, <1>8, <1>9, <1>10, <1>11, <1>12 DEF Next, Create, Person, BootEnds

\* A fleet that is only deleted once it is complete stays deleted: no event of
\* a session and no late step of createFleet saves it again (deleteFleet).
THEOREM DeletedStays ==
  ASSUME "early" \notin Faults
  PROVE  Spec => DeletedForGood
<1>1. Init => Departed
  <2> SUFFICES ASSUME Init PROVE file # Gone
    BY DEF Departed
  <2> QED BY SavedNotGone DEF Init
<1>2. IInv /\ IInv' /\ Departed /\ [Next]_vars => Departed' /\ (file = Gone => file' = Gone)
  BY DepartedStep DEF IInv
<1>3. IInv /\ IInv' /\ Departed /\ [Next]_vars => [file = Gone => file' = Gone]_vars
  BY <1>2
<1> QED BY <1>1, <1>2, <1>3, Invariance, PTL DEF Spec, DeletedForGood

-----------------------------------------------------------------------------
(* A fleet never waits for nothing.                                        *)

\* Every run that was begun is under way or has its end in the history: what
\* ensureLoaded needs to tell a run that ended from one that goes on.
Recorded ==
  \A c \in Candidate :
    /\ busy[c] # None => box[c] = "ready"
    /\ own[c] \subseteq 1 .. count[c]
    /\ \A r \in 1 .. count[c] : busy[c] = r \/ \E e \in Terminal : <<r, e>> \in ends[c]

\* A member that is booting has no run yet, one that is running has.
Shaped(m) ==
  /\ m.status = "booting" => m.run = None
  /\ m.status = "running" => m.run # None

AllShaped ==
  /\ \A c \in Candidate : Shaped(member[c])
  /\ file # Gone => \A c \in Candidate : Shaped(file.member[c])

\* Sessions are taken away only from a fleet that is not listed, and a fleet
\* that has to be read back is not.
Unlisted ==
  /\ ~loaded => ~listed
  /\ listed \/ ~loaded => \A c \in Candidate : leaving[c] = "no"

\* A member that was not created has no session.
Absent ==
  \A c \in Candidate :
    /\ member[c].status = "none" => box[c] = "none"
    /\ file # Gone => (file.member[c].status = "none" => box[c] = "none")

WInv == Recorded /\ AllShaped /\ Absent /\ Unlisted /\ WorkIsUnderWay

LEMMA WorkInit == Init => WInv
BY DEF Init, WInv, Recorded, AllShaped, Shaped, Absent, Unlisted, WorkIsUnderWay, Live, None

\* What is told to a member changes that member alone, and one that is still
\* at work keeps being listened to.
LEMMA ToldWork ==
  ASSUME TypeOK, AllShaped, Absent, Unlisted, WorkIsUnderWay,
         NEW c \in Candidate, NEW m \in Member, Told(c, m), Shaped(m), m.status # "none",
         m.status \in Live =>
           busy'[c] # None /\ m = [status |-> "running", run |-> busy'[c]],
         m.status \in Live => m.status \notin Terminal,
         \A d \in Candidate \ {c} : busy'[d] = busy[d] /\ box'[d] = box[d],
         box[c] = "none" => box'[c] = "none"
  PROVE  AllShaped' /\ Absent' /\ Unlisted' /\ WorkIsUnderWay'
<1>1. CASE c \in watched
  <2>1. member' = [member EXCEPT ![c] = m]
    BY <1>1 DEF Told
  <2>2. member'[c] = m /\ \A d \in Candidate \ {c} : member'[d] = member[d]
    BY <2>1 DEF TypeOK
  <2>3. file' = [member |-> member', winner |-> winner']
    BY <1>1 DEF Told, Saved
  <2>4. AllShaped' /\ Absent'
    BY <2>2, <2>3 DEF AllShaped, Absent
  <2>5. Unlisted'
    BY DEF Told, Unlisted
  <2>6. ASSUME listed', NEW d \in Candidate, member'[d].status \in Live PROVE UnderWay(d)'
    <3>1. CASE d = c
      BY <1>1, <2>2, <2>6, <3>1 DEF Told, UnderWay
    <3>2. CASE d # c
      <4>1. UnderWay(d)
        BY <2>2, <2>6, <3>2 DEF WorkIsUnderWay, Told
      <4> QED BY <1>1, <2>2, <3>2, <4>1 DEF Told, UnderWay, Begins
    <3> QED BY <3>1, <3>2
  <2> QED BY <2>4, <2>5, <2>6 DEF WorkIsUnderWay
<1>2. CASE c \notin watched
  <2>1. UNCHANGED <<member, watched, file, listed, loaded, leaving>>
    BY <1>2 DEF Told
  <2>2. ASSUME listed', NEW d \in Candidate, member'[d].status \in Live PROVE UnderWay(d)'
    <3>1. UnderWay(d) /\ d # c
      BY <1>2, <2>1, <2>2 DEF WorkIsUnderWay, UnderWay
    <3> QED BY <2>1, <3>1 DEF UnderWay, Begins
  <2> QED BY <2>1, <2>2 DEF AllShaped, Absent, Unlisted, WorkIsUnderWay
<1> QED BY <1>1, <1>2

LEMMA EndedShaped ==
  ASSUME TypeOK, NEW c \in Candidate
  PROVE  /\ Ended(member[c]) \in Member /\ Ended(member[c]).status \notin Live \cup {"none"}
         /\ Shaped(Ended(member[c]))
BY DEF TypeOK, Member, Ended, Shaped, Live, Terminal

\* The end of the run under way goes into the history.
LEMMA ClosedRecorded ==
  ASSUME TypeOK, Recorded, NEW c \in Candidate
  PROVE  \A r \in 1 .. count[c] : \E e \in Terminal : <<r, e>> \in Closed(c)
<1> SUFFICES ASSUME NEW r \in 1 .. count[c] PROVE \E e \in Terminal : <<r, e>> \in Closed(c)
  OBVIOUS
<1>1. CASE busy[c] = r
  <2>1. busy[c] # None
    BY <1>1 DEF None, TypeOK
  <2> QED BY <1>1, <2>1 DEF Closed, Terminal
<1>2. CASE busy[c] # r
  BY <1>2 DEF Recorded, Closed
<1> QED BY <1>1, <1>2

LEMMA CreateWork ==
  ASSUME TypeOK, TypeOK', WInv, NEW c \in Candidate, CreateMember(c) \/ CreateFails(c)
  PROVE  WInv'
<1> USE DEF WInv
<1> PICK s \in {"booting", "over"} : Pushed(c, [status |-> s, run |-> None])
  BY DEF CreateMember, CreateFails
<1>1. /\ member'[c] = [status |-> s, run |-> None]
      /\ \A d \in Candidate \ {c} : member'[d] = member[d]
      /\ file' = [member |-> member', winner |-> winner']
      /\ UNCHANGED <<listed, loaded, leaving, busy, count, ends, own>>
  BY DEF Pushed, Saved, TypeOK
<1>2. /\ \A d \in Candidate \ {c} : box'[d] = box[d]
      /\ watched \subseteq watched'
      /\ s = "booting" => box'[c] = "starting" /\ c \in watched'
  <2>1. CASE CreateMember(c)
    BY <2>1 DEF CreateMember, TypeOK
  <2>2. CASE CreateFails(c)
    <3>1. member'[c].status = "over"
      BY <2>2 DEF CreateFails, Pushed, TypeOK
    <3> QED BY <1>1, <2>2, <3>1 DEF CreateFails
  <2> QED BY <2>1, <2>2
<1>3. busy[c] # None => box'[c] = "ready"
  BY DEF CreateMember, CreateFails, Upcoming, Absent, Recorded
<1>4. Recorded'
  BY <1>1, <1>2, <1>3 DEF Recorded
<1>5. AllShaped' /\ Absent'
  BY <1>1, <1>2 DEF AllShaped, Shaped, Absent
<1>6. WorkIsUnderWay'
  <2> SUFFICES ASSUME listed', NEW d \in Candidate, member'[d].status \in Live PROVE UnderWay(d)'
    BY DEF WorkIsUnderWay
  <2>1. CASE d = c
    BY <1>1, <1>2, <2>1 DEF UnderWay, Begins, Live
  <2>2. CASE d # c
    <3>1. UnderWay(d)
      BY <1>1, <2>2 DEF WorkIsUnderWay
    <3> QED BY <1>1, <1>2, <2>2, <3>1 DEF UnderWay, Begins
  <2> QED BY <2>1, <2>2
<1> QED BY <1>1, <1>4, <1>5, <1>6 DEF Unlisted

\* The steps in which a session tells the fleet how it does.
LEMMA BootWork ==
  ASSUME TypeOK, TypeOK', WInv, NEW c \in Candidate, BootEnds(c)
  PROVE  WInv'
<1> USE DEF WInv
<1>1. /\ box[c] = "starting" /\ busy[c] = None /\ ends' = ends
      /\ \A d \in Candidate \ {c} : /\ box'[d] = box[d] /\ busy'[d] = busy[d]
                                    /\ count'[d] = count[d] /\ own'[d] = own[d]
      /\ box'[c] # "none"
  BY DEF BootEnds, Boots, BootFails, Recorded, TypeOK
<1>2. Ended(member[c]) \in Member /\ Ended(member[c]).status \notin Live \cup {"none"}
      /\ Shaped(Ended(member[c]))
  BY EndedShaped
<1>3. CASE Told(c, Ended(member[c])) /\ UNCHANGED <<busy, count, own>>
  <2>1. AllShaped' /\ Absent' /\ Unlisted' /\ WorkIsUnderWay'
    BY <1>1, <1>2, <1>3, ToldWork
  <2>2. Recorded'
    BY <1>1, <1>3 DEF Recorded
  <2> QED BY <2>1, <2>2
<1>4. CASE /\ Boots(c) /\ Told(c, Sent(c))
           /\ busy' = [busy EXCEPT ![c] = count[c] + 1]
           /\ count' = [count EXCEPT ![c] = @ + 1]
           /\ own' = [own EXCEPT ![c] = @ \cup {count[c] + 1}]
  <2>1. /\ busy'[c] = count[c] + 1 /\ count'[c] = count[c] + 1 /\ count[c] \in Nat
        /\ own'[c] = own[c] \cup {count[c] + 1} /\ box'[c] = "ready"
    BY <1>4 DEF TypeOK, Boots
  <2>2. busy'[c] # None
    BY <2>1 DEF None
  <2>3. Sent(c) \in Member /\ Shaped(Sent(c)) /\ Sent(c).status \notin Terminal \cup {"none"}
    <3>1. Sent(c).status = "running" /\ Sent(c).run # None
      BY <2>1 DEF Sent, None
    <3> QED BY <3>1, MemberType DEF Shaped, Terminal
  <2>4. Sent(c) = [status |-> "running", run |-> busy'[c]]
    BY <2>1 DEF Sent
  <2>5. AllShaped' /\ Absent' /\ Unlisted' /\ WorkIsUnderWay'
    BY <1>1, <1>4, <2>2, <2>3, <2>4, ToldWork
  <2>6. \A r \in 1 .. count'[c] : r = busy'[c] \/ r \in 1 .. count[c]
    BY <2>1
  <2>7. own'[c] \subseteq 1 .. count'[c]
    BY <2>1 DEF Recorded
  <2>8. \A r \in 1 .. count'[c] : busy'[c] = r \/ \E e \in Terminal : <<r, e>> \in ends'[c]
    BY <1>1, <2>1, <2>6 DEF Recorded, None
  <2>9. \A d \in Candidate \ {c} :
          /\ busy'[d] # None => box'[d] = "ready"
          /\ own'[d] \subseteq 1 .. count'[d]
          /\ \A r \in 1 .. count'[d] : busy'[d] = r \/ \E e \in Terminal : <<r, e>> \in ends'[d]
    BY <1>1 DEF Recorded
  <2>10. Recorded'
    BY <2>1, <2>7, <2>8, <2>9 DEF Recorded
  <2> QED BY <2>5, <2>10
<1>5. CASE Boots(c) /\ ~(c \in watched /\ Begins(member[c])) /\ UNCHANGED <<fleetVars, busy, count, own>>
  <2>1. ASSUME listed, NEW d \in Candidate, member[d].status \in Live PROVE UnderWay(d)'
    <3>1. UnderWay(d)
      BY <2>1 DEF WorkIsUnderWay
    <3>2. d # c
      BY <1>1, <1>5, <3>1 DEF UnderWay
    <3> QED BY <1>1, <1>5, <3>1, <3>2 DEF UnderWay, Begins, fleetVars
  <2>2. Recorded'
    BY <1>1, <1>5 DEF Recorded, fleetVars
  <2>3. Absent'
    BY <1>1, <1>5 DEF Absent, fleetVars
  <2> QED BY <1>5, <2>1, <2>2, <2>3 DEF AllShaped, Unlisted, WorkIsUnderWay, fleetVars
<1> QED BY <1>3, <1>4, <1>5 DEF BootEnds, Boots, BootFails

LEMMA RunWork ==
  ASSUME TypeOK, TypeOK', WInv, NEW c \in Candidate, RunOver(c)
  PROVE  WInv'
<1> USE DEF WInv
<1> PICK e \in Terminal : RunEnds(c, e)
  BY DEF RunOver
<1>1. /\ busy[c] # None /\ busy'[c] = None /\ UNCHANGED <<box, count, own>>
      /\ ends'[c] = ends[c] \cup {<<busy[c], e>>}
      /\ \A d \in Candidate \ {c} : busy'[d] = busy[d] /\ ends'[d] = ends[d]
  BY DEF RunEnds, TypeOK
<1>2. Recorded'
  BY <1>1 DEF Recorded
<1>3. CASE Mine(member[c], busy[c]) /\ Told(c, [member[c] EXCEPT !.status = e])
  <2>1. /\ [member[c] EXCEPT !.status = e] \in Member
        /\ [member[c] EXCEPT !.status = e].status \notin Live \cup {"none"}
        /\ Shaped([member[c] EXCEPT !.status = e])
    BY MemberType DEF TypeOK, Member, Terminal, Live, Shaped
  <2> QED BY <1>1, <1>2, <1>3, <2>1, ToldWork
<1>4. CASE ~Mine(member[c], busy[c]) /\ UNCHANGED fleetVars
  <2>1. ASSUME listed, NEW d \in Candidate, member[d].status \in Live PROVE UnderWay(d)'
    <3>1. UnderWay(d)
      BY <2>1 DEF WorkIsUnderWay
    <3>2. CASE d # c
      BY <1>1, <1>4, <3>1, <3>2 DEF UnderWay, Begins, fleetVars
    <3>3. CASE d = c
      BY <1>1, <1>4, <3>1, <3>3 DEF UnderWay, Mine, Begins, Recorded, fleetVars
    <3> QED BY <3>2, <3>3
  <2> QED BY <1>1, <1>2, <1>4, <2>1 DEF AllShaped, Absent, Unlisted, WorkIsUnderWay, fleetVars
<1> QED BY <1>3, <1>4 DEF RunEnds

LEMMA HaltWork ==
  ASSUME TypeOK, TypeOK', WInv, NEW c \in Candidate, Stop(c) \/ Remove(c)
  PROVE  WInv'
<1> USE DEF WInv
<1>1. Ended(member[c]) \in Member /\ Ended(member[c]).status \notin Live \cup {"none"}
      /\ Shaped(Ended(member[c]))
  BY EndedShaped
<1>2. /\ Told(c, Ended(member[c])) /\ UNCHANGED <<count, own>>
      /\ box[c] # "none" /\ busy'[c] = None
      /\ \A d \in Candidate \ {c} : box'[d] = box[d] /\ busy'[d] = busy[d] /\ ends'[d] = ends[d]
  BY DEF Stop, Halt, Remove, Recorded, TypeOK
<1>3. \A r \in 1 .. count[c] : \E e \in Terminal : <<r, e>> \in ends'[c]
  <2>1. CASE Stop(c)
    BY <2>1, ClosedRecorded DEF Stop, Halt, TypeOK
  <2>2. CASE Remove(c)
    <3>1. busy[c] = None /\ ends' = ends
      BY <2>2 DEF Remove, Recorded
    <3>2. Closed(c) = ends[c]
      BY <3>1 DEF Closed
    <3> QED BY <3>1, <3>2, ClosedRecorded
  <2> QED BY <2>1, <2>2
<1>4. Recorded'
  BY <1>2, <1>3 DEF Recorded
<1> QED BY <1>1, <1>2, <1>4, ToldWork

\* A step that leaves the fleet and what it waits for alone.
LEMMA ApartWork ==
  ASSUME AllShaped, Absent, Unlisted, WorkIsUnderWay,
         UNCHANGED <<member, watched, loaded>>, file' = file \/ file' = Gone,
         listed' => listed /\ UNCHANGED leaving, ~loaded => UNCHANGED leaving,
         \A d \in Candidate : box[d] = "none" => box'[d] = "none",
         listed' => \A d \in Candidate : UnderWay(d) => box'[d] = box[d] /\ busy'[d] = busy[d]
  PROVE  AllShaped' /\ Absent' /\ Unlisted' /\ WorkIsUnderWay'
<1>1. ASSUME listed', NEW d \in Candidate, member'[d].status \in Live PROVE UnderWay(d)'
  BY <1>1 DEF WorkIsUnderWay, UnderWay, Begins
<1> QED BY <1>1 DEF AllShaped, Absent, Unlisted, WorkIsUnderWay

\* What people do with a session by themselves.
LEMMA PersonWork ==
  ASSUME TypeOK, TypeOK', WInv, NEW c \in Candidate, StartAgain(c) \/ Ask(c)
  PROVE  WInv'
<1> USE DEF WInv
<1>1. /\ UNCHANGED <<fleetVars, ends, own>>
      /\ \A d \in Candidate \ {c} : box'[d] = box[d] /\ busy'[d] = busy[d] /\ count'[d] = count[d]
      /\ box[c] # "none" /\ busy[c] = None /\ box[c] # "starting"
  BY DEF StartAgain, Ask, Recorded, TypeOK
<1>2. ~UnderWay(c)
  BY <1>1 DEF UnderWay
<1>3. Recorded'
  <2>1. CASE StartAgain(c)
    BY <1>1, <2>1 DEF StartAgain, Recorded
  <2>2. CASE Ask(c)
    <3>1. /\ busy'[c] = count[c] + 1 /\ count'[c] = count[c] + 1 /\ count[c] \in Nat
          /\ box'[c] = "ready"
      BY <2>2 DEF Ask, TypeOK
    <3>2. \A r \in 1 .. count'[c] : r = busy'[c] \/ r \in 1 .. count[c]
      BY <3>1
    <3>3. own'[c] \subseteq 1 .. count'[c]
      BY <1>1, <3>1 DEF Recorded
    <3>4. \A r \in 1 .. count'[c] : busy'[c] = r \/ \E e \in Terminal : <<r, e>> \in ends'[c]
      BY <1>1, <3>1, <3>2 DEF Recorded, None
    <3>5. \A d \in Candidate \ {c} :
            /\ busy'[d] # None => box'[d] = "ready"
            /\ own'[d] \subseteq 1 .. count'[d]
            /\ \A r \in 1 .. count'[d] : busy'[d] = r \/ \E e \in Terminal : <<r, e>> \in ends'[d]
      BY <1>1, <2>2 DEF Recorded, Ask
    <3> QED BY <3>1, <3>3, <3>4, <3>5 DEF Recorded
  <2> QED BY <2>1, <2>2
<1>4. AllShaped' /\ Absent' /\ Unlisted' /\ WorkIsUnderWay'
  BY <1>1, <1>2, ApartWork DEF fleetVars
<1> QED BY <1>3, <1>4

\* Once the fleet is deleted its sessions are taken away.
LEMMA LeaveWork ==
  ASSUME TypeOK, TypeOK', WInv, NEW c \in Candidate, Leave(c)
  PROVE  WInv'
<1> USE DEF WInv
<1>1. /\ UNCHANGED <<member, watched, listed, loaded, file, count, own>>
      /\ \A d \in Candidate \ {c} : box'[d] = box[d] /\ busy'[d] = busy[d] /\ ends'[d] = ends[d]
      /\ leaving[c] # "no"
      /\ box[c] = "none" => box'[c] = "none"
  BY DEF Leave, LeaveStops, LeaveRemoves, TypeOK
<1>2. ~listed /\ loaded
  BY <1>1 DEF Unlisted
<1>3. CASE LeaveStops(c) /\ box[c] \in {"starting", "ready", "failed"}
  <2>1. busy'[c] = None /\ ends'[c] = Closed(c)
    BY <1>3 DEF LeaveStops, TypeOK
  <2>2. Recorded'
    BY <1>1, <2>1, ClosedRecorded DEF Recorded
  <2> QED BY <1>1, <1>2, <2>2, ApartWork
<1>4. CASE UNCHANGED <<busy, ends>> /\ (box' = box \/ box[c] \in {"stopped", "failed"})
  <2>1. box' = box \/ busy[c] = None
    BY <1>4 DEF Recorded
  <2>2. Recorded'
    BY <1>1, <1>4, <2>1 DEF Recorded
  <2> QED BY <1>1, <1>2, <2>2, ApartWork
<1> QED BY <1>3, <1>4 DEF Leave, LeaveStops, LeaveRemoves

\* A server that is not killed leaves the end of every run in the records.
LEMMA RestartWork ==
  ASSUME "kill" \notin Faults, TypeOK, TypeOK', WInv, NEW lost, Restart(lost)
  PROVE  WInv'
<1> USE DEF WInv
<1>1. \A c \in Candidate : busy'[c] = None /\ ends'[c] = Closed(c)
  BY DEF Restart
<1>2. Recorded'
  BY <1>1, ClosedRecorded DEF Recorded, Restart
<1>3. AllShaped' /\ Unlisted' /\ WorkIsUnderWay'
  BY DEF Restart, AllShaped, Unlisted, WorkIsUnderWay
<1>4. Absent'
  BY DEF Restart, Absent
<1> QED BY <1>2, <1>3, <1>4

\* A member that is read back at work is listened to, and is the request just
\* sent or a run whose end is not in the history.
LEMMA ReadWork ==
  ASSUME TypeOK, IInv, WInv, file # Gone, NEW sent, NEW c \in Candidate
  PROVE  /\ Shaped(ReadBack(c, sent))
         /\ ReadBack(c, sent).status = "none" => file.member[c].status = "none"
         /\ ReadBack(c, sent).status \in Live =>
              /\ Revived(c)
              /\ \/ c \in sent /\ ReadBack(c, sent) = Sent(c)
                 \/ /\ c \notin sent
                    /\ busy[c] # None
                    /\ ReadBack(c, sent) = [status |-> "running", run |-> busy[c]]
<1> USE DEF WInv
<1> DEFINE old == file.member[c]
           m == IF c \in sent THEN Sent(c) ELSE old
           heard == {x \in ends[c] : Mine(m, x[1])}
<1>1. old \in Member /\ Sent(c) \in Member /\ Shaped(old) /\ Shaped(Sent(c)) /\ m \in Member
  <2>1. count[c] + 1 # None
    BY DEF TypeOK, None
  <2> QED BY <2>1, MemberType DEF AllShaped, TypeOK, Sent, Shaped
<1>2. \A n \in Member : Shaped(Ended(n)) /\ Ended(n).status = "over"
  BY DEF Shaped, Ended, Member
<1>3. CASE ~Revived(c)
  BY <1>1, <1>2, <1>3, ConstantFacts DEF ReadBack, Live
<1>4. CASE Revived(c) /\ heard # {}
  <2>1. (CHOOSE x \in heard : TRUE) \in heard
    BY <1>4
  <2>2. (CHOOSE x \in heard : TRUE)[2] \in Terminal
    BY <2>1 DEF TypeOK
  <2>3. ReadBack(c, sent) = [m EXCEPT !.status = (CHOOSE x \in heard : TRUE)[2]]
    BY <1>4 DEF ReadBack, Replayed
  <2> QED BY <1>1, <2>2, <2>3 DEF Shaped, Member, Terminal, Live
<1>5. CASE Revived(c) /\ heard = {} /\ (c \in fell \/ Begins(m))
  <2>1. ReadBack(c, sent) = Ended(m)
    BY <1>5 DEF ReadBack, Replayed
  <2> QED BY <1>1, <1>2, <2>1, ConstantFacts DEF Live
<1>6. CASE Revived(c) /\ heard = {} /\ c \notin fell /\ ~Begins(m)
  <2>1. ReadBack(c, sent) = m
    BY <1>6 DEF ReadBack, Replayed
  <2>2. CASE c \in sent
    BY <1>1, <1>6, <2>1, <2>2 DEF Sent
  <2>3. CASE c \notin sent
    <3>1. old.status = "running" /\ old.run # None
      BY <1>1, <1>6, <2>3 DEF Revived, Live, Begins, Shaped
    <3>2. own[c] = {old.run}
      BY <1>6, <3>1 DEF IInv, Stored, Sound, SoundIn
    <3>3. old.run \in 1 .. count[c]
      BY <3>2 DEF Recorded
    <3>4. ASSUME NEW e \in Terminal PROVE <<old.run, e>> \notin ends[c]
      <4>1. \A x \in ends[c] : ~Mine(old, x[1])
        BY <1>6, <2>3
      <4> QED BY <4>1 DEF Mine
    <3>5. busy[c] = old.run
      BY <3>3, <3>4 DEF Recorded
    <3>6. old = [status |-> "running", run |-> busy[c]]
      BY <1>1, <3>1, <3>5 DEF Member
    <3> QED BY <1>1, <1>6, <2>1, <2>3, <3>1, <3>5, <3>6
  <2> QED BY <2>2, <2>3
<1> QED BY <1>3, <1>4, <1>5, <1>6

LEMMA LoadWork ==
  ASSUME TypeOK, TypeOK', IInv, WInv, NEW sent, ensureLoaded(sent)
  PROVE  WInv'
<1> USE DEF WInv
<1>1. /\ file # Gone /\ ~loaded /\ UNCHANGED <<leaving, box, ends>>
      /\ \A c \in Candidate : member'[c] = ReadBack(c, sent)
      /\ \A c \in Candidate : file'.member[c] = member'[c] \/ file'.member[c] = file.member[c]
      /\ sent \subseteq {c \in Candidate : Revived(c) /\ busy[c] = None}
  BY DEF ensureLoaded, TypeOK
<1>2. AllShaped'
  BY <1>1, ReadWork DEF AllShaped
<1>3. Absent'
  BY <1>1, ReadWork DEF Absent
<1>4. Unlisted'
  BY <1>1 DEF Unlisted, ensureLoaded
<1>5. \A c \in Candidate :
        IF c \in sent
        THEN busy'[c] = count[c] + 1 /\ count'[c] = count[c] + 1 /\ own'[c] = own[c] \cup {count[c] + 1}
        ELSE busy'[c] = busy[c] /\ count'[c] = count[c] /\ own'[c] = own[c]
  BY DEF ensureLoaded
<1>6. Recorded'
  <2> SUFFICES ASSUME NEW c \in Candidate
               PROVE  /\ busy'[c] # None => box'[c] = "ready"
                      /\ own'[c] \subseteq 1 .. count'[c]
                      /\ \A r \in 1 .. count'[c] : busy'[c] = r \/ \E e \in Terminal : <<r, e>> \in ends'[c]
    BY DEF Recorded
  <2>1. CASE c \notin sent
    BY <1>1, <1>5, <2>1 DEF Recorded
  <2>2. CASE c \in sent
    <3>1. /\ busy'[c] = count[c] + 1 /\ count'[c] = count[c] + 1 /\ own'[c] = own[c] \cup {count[c] + 1}
          /\ count[c] \in Nat /\ box'[c] = "ready" /\ busy[c] = None
      BY <1>1, <1>5, <2>2 DEF TypeOK, Revived
    <3>2. \A r \in 1 .. count'[c] : r = busy'[c] \/ r \in 1 .. count[c]
      BY <3>1
    <3>3. own'[c] \subseteq 1 .. count'[c]
      BY <3>1 DEF Recorded
    <3>4. \A r \in 1 .. count'[c] : busy'[c] = r \/ \E e \in Terminal : <<r, e>> \in ends'[c]
      BY <1>1, <3>1, <3>2 DEF Recorded, None
    <3> QED BY <3>1, <3>3, <3>4
  <2> QED BY <2>1, <2>2
<1>7. ASSUME NEW c \in Candidate, member'[c].status \in Live PROVE UnderWay(c)'
  <2>1. Revived(c) /\ c \in watched'
    BY <1>1, <1>7, ReadWork DEF ensureLoaded
  <2>2. CASE c \in sent /\ ReadBack(c, sent) = Sent(c)
    <3>1. count[c] + 1 # None
      BY DEF TypeOK, None
    <3> QED BY <1>1, <1>5, <2>1, <2>2, <3>1 DEF UnderWay, Sent
  <2>3. CASE c \notin sent /\ busy[c] # None /\ ReadBack(c, sent) = [status |-> "running", run |-> busy[c]]
    BY <1>1, <1>5, <2>1, <2>3 DEF UnderWay
  <2> QED BY <1>1, <1>7, <2>2, <2>3, ReadWork
<1> QED BY <1>2, <1>3, <1>4, <1>6, <1>7 DEF WorkIsUnderWay

LEMMA WorkStep ==
  ASSUME "kill" \notin Faults, IInv, IInv', WInv, [Next]_vars
  PROVE  WInv'
<1>1. TypeOK /\ TypeOK'
  BY DEF IInv
<1>2. ASSUME NEW c \in Candidate, CreateMember(c) \/ CreateFails(c) PROVE WInv'
  BY <1>1, <1>2, CreateWork
<1>3. ASSUME NEW c \in Candidate, BootEnds(c) PROVE WInv'
  BY <1>1, <1>3, BootWork
<1>4. ASSUME NEW c \in Candidate, RunOver(c) PROVE WInv'
  BY <1>1, <1>4, RunWork
<1>5. ASSUME NEW c \in Candidate, Stop(c) \/ Remove(c) PROVE WInv'
  BY <1>1, <1>5, HaltWork
<1>6. ASSUME NEW c \in Candidate, StartAgain(c) \/ Ask(c) PROVE WInv'
  BY <1>1, <1>6, PersonWork
<1>7. ASSUME NEW c \in Candidate, Leave(c) PROVE WInv'
  BY <1>1, <1>7, LeaveWork
<1>8. ASSUME NEW lost, Restart(lost) PROVE WInv'
  BY <1>1, <1>8, RestartWork
<1>9. ASSUME NEW sent, ensureLoaded(sent) PROVE WInv'
  BY <1>1, <1>9, LoadWork
<1>10. ASSUME NEW c \in Candidate, chooseFleetWinner(c) PROVE WInv'
  <2>1. UNCHANGED <<member, watched, listed, loaded, leaving, boxVars>> /\ file'.member = member
    BY <1>10 DEF chooseFleetWinner, Saved
  <2> QED BY <2>1 DEF WInv, Recorded, AllShaped, Absent, Unlisted, WorkIsUnderWay, UnderWay, Begins, boxVars
<1>11. CASE deleteFleet
  <2>1. /\ ~listed' /\ loaded' /\ file' = Gone
        /\ UNCHANGED <<member, watched, loaded, boxVars>>
    BY <1>11 DEF deleteFleet, WInv, Unlisted
  <2> QED BY <2>1 DEF WInv, Recorded, AllShaped, Absent, Unlisted, WorkIsUnderWay, boxVars
<1>12. CASE UNCHANGED vars
  BY <1>12 DEF vars, fleetVars, boxVars, WInv, Recorded, AllShaped, Absent, Unlisted,
               WorkIsUnderWay, UnderWay, Begins
<1> QED BY <1>2, <1>3, <1>4, <1>5, <1>6, <1>7, <1>8, <1>9, <1>10, <1>11, <1>12
        DEF Next, Create, Person

\* A fleet never waits for nothing: as long as a killed server has saved the
\* runs it began, every member that is shown at work has a boot or a run under
\* way whose end the fleet will hear (updateMember, ensureLoaded).
THEOREM NeverWaitsForNothing ==
  ASSUME "kill" \notin Faults
  PROVE  Spec => []WorkIsUnderWay
<1>1. IInv /\ IInv' /\ WInv /\ [Next]_vars => WInv'
  BY WorkStep
<1>2. WInv => WorkIsUnderWay
  BY DEF WInv
<1> QED BY <1>1, <1>2, WorkInit, Invariance, PTL DEF Spec

=============================================================================
