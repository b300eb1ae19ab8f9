-------------------------- MODULE CheckpointHistory --------------------------
(***************************************************************************)
(* What a session promises its user of checkpoints: one is always made on  *)
(* top of the place where the work stands and stays as it was made, the    *)
(* work goes back only to a checkpoint the user was shown, and a database  *)
(* kept for a checkpoint is neither replaced nor dropped.                  *)
(***************************************************************************)
EXTENDS Naturals, Sequences

CONSTANTS
  Code,       \* what the files of a checkpoint may be
  Data        \* what a database may be

VARIABLES
  history,    \* every checkpoint ever made: its files and what it was made on
  place,      \* the checkpoint the work stands on
  shown,      \* the checkpoints the user may go back to
  kept        \* checkpoint -> the database kept for it

historyVars == <<history, place, shown, kept>>

\* The checkpoint c and those below it.
Below(c) == {history[c].log[i] : i \in DOMAIN history[c].log}

Init ==
  /\ \E code \in Code : history = <<[code |-> code, log |-> <<1>>]>>
  /\ place = 1 /\ shown = {1}
  /\ DOMAIN kept = {}

\* A checkpoint of these files is made; it is shown at once or later.
Make(code) ==
  /\ place' = Len(history) + 1
  /\ history' = Append(history, [code |-> code, log |-> <<place'>> \o history[place].log])
  /\ shown' \in {shown, {place'} \cup shown, Below(place)'}
  /\ UNCHANGED kept

\* What the user sees is brought up to where the work stands, or stood when it
\* was looked up.
Show ==
  /\ shown' \in {{c} \cup shown : c \in Below(place)} \cup {Below(c) : c \in Below(place)}
  /\ UNCHANGED <<history, place, kept>>

GoBack(c) ==
  /\ c \in shown
  /\ place' = c
  /\ UNCHANGED <<history, shown, kept>>

\* The database is kept for a checkpoint that has none yet.
Keep(c, data) ==
  /\ c \in Below(place) \ DOMAIN kept
  /\ kept' = [x \in DOMAIN kept \cup {c} |-> IF x = c THEN data ELSE kept[x]]
  /\ shown' \in {shown, {c} \cup shown}
  /\ UNCHANGED <<history, place>>

Next ==
  \/ \E code \in Code : Make(code)
  \/ Show
  \/ \E c \in shown : GoBack(c)
  \/ \E c \in Below(place), data \in Data : Keep(c, data)

Spec == Init /\ [][Next]_historyVars
=============================================================================
