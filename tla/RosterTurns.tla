----------------------------- MODULE RosterTurns -----------------------------
(***************************************************************************)
(* One game with a memory of who has drawn while whom was waiting, to say  *)
(* how fair the rotation of get_next_drawing_fd is.                        *)
(***************************************************************************)
EXTENDS GameRoster

\* waiting[p]: those who stayed and have drawn since p last drew or was away, in rounds
\* that followed each other without a pause or an unlinked drawing node.
VARIABLE waiting

\* The next round starts in this step: it moves the drawing pointer and leaves the
\* list alone.
NewRound ==
  /\ playing /\ playing' /\ ~stopped'
  /\ roster'.list = roster.list
  /\ Rotation(roster') # Rotation(roster)

TurnsInit == Init /\ waiting = [p \in Names |-> {}]

Remember ==
  waiting' =
    [p \in Names |->
      IF \/ ~Stays(p)' \/ ~playing' \/ roster'.dead # <<>>
         \/ NewRound /\ p = Drawer(roster')
      THEN {}
      ELSE {q \in waiting[p] \cup {d \in Names : NewRound /\ d = Drawer(roster')} :
              Stays(q)'}]

TurnsNext ==
  \/ EndRound /\ Remember
  \/ \E p \in Names : Enter(p) /\ Remember
  \/ \E p \in Names : Depart(p) /\ Remember
  \/ Leave /\ Remember

TurnsSpec == TurnsInit /\ [][TurnsNext]_<<vars, waiting>> /\ WF_vars(EndRound)

\* Of two players who stay online neither draws twice while the other waits, however
\* many others come and go, as long as rounds follow each other and reassignments
\* unlink no drawing node.
TakesTurns ==
  [][NewRound /\ roster.dead = <<>> =>
       \A p \in Names :
         Stays(p) /\ Stays(p)' => Drawer(roster') \notin waiting[p]]_<<vars, waiting>>
=============================================================================
