----------------------------- MODULE GameRoster -----------------------------
(***************************************************************************)
(* What one game promises: the players in its list come and go, rounds     *)
(* start and end, and at the start of each round the drawing pointer moves *)
(* to the next player online.  Nothing is said of descriptors, seats or    *)
(* other games: whoever is online and not in this list may come and go at  *)
(* any time, and any number of players may be lost within any handler.     *)
(*                                                                         *)
(* Every game of GameServer behaves like this until a login is answered    *)
(* SERVER_FULL (module ServerRotation).                                    *)
(***************************************************************************)
EXTENDS PlayerList

CONSTANT Names

ASSUME NamesAreFinite == IsFiniteSet(Names)

VARIABLES
  roster,   \* the list of the game and its drawing pointer, a roster of Names
  online,   \* the players with is_online, of any game
  playing,  \* in_progress
  stopped   \* the process has ended

vars == <<roster, online, playing, stopped>>

MIN_PLAYERS == 2

Init ==
  /\ roster = new_players
  /\ online = {}
  /\ playing = FALSE
  /\ stopped = FALSE

\* The players of list r that are online afterwards were so before: some may be lost.
OnlyLost(r, before) ==
  /\ online' \in SUBSET Names
  /\ online' \cap Members(r) \subseteq before

\* start_round: the search for the next drawing player succeeds, or the process exits.
StartRound(r, on) ==
  /\ playing' = TRUE
  /\ OnlyLost(r, on)
  /\ IF HasNextDrawer(r, on)
     THEN roster' = get_next_drawing(r, on) /\ stopped' = FALSE
     ELSE roster' = r /\ stopped' = TRUE

\* validate_round, with the players on online when they are counted.
ValidateRound(r, on) ==
  IF Cardinality(on \cap Members(r)) < MIN_PLAYERS
  THEN /\ roster' = r
       /\ playing' = FALSE
       /\ stopped' = FALSE
       /\ OnlyLost(r, on)
  ELSE StartRound(r, on)

\* Those who may be online when a handler comes to validate_round: of list r, no more
\* than before.
Counted(r, before) == {on \in SUBSET Names : on \cap Members(r) \subseteq before}

\* end_round.
EndRound ==
  /\ ~stopped
  /\ playing
  /\ \E on \in Counted(roster, online) : ValidateRound(roster, on)

\* A login that puts p in this game: it keeps its place, or gets one at the head.
Enter(p) ==
  /\ ~stopped
  /\ p \notin online
  /\ \E r \in {add_player(remove_player(roster, p), p)}
              \cup {old \in {roster} : playing /\ p \in Members(old)} :
       IF playing
       THEN /\ roster' = r
            /\ playing' = TRUE
            /\ stopped' = FALSE
            /\ OnlyLost(r, online \cup {p})
       ELSE \E on \in Counted(r, online \cup {p}) : ValidateRound(r, on)

\* A login that takes p out of this game, and may end the process elsewhere.
Depart(p) ==
  /\ ~stopped
  /\ p \in Members(roster) \ online
  /\ roster' = remove_player(roster, p)
  /\ playing' = playing
  /\ stopped' \in BOOLEAN
  /\ OnlyLost(roster', online)

\* Players are lost, and whatever happens in other games.
Leave ==
  /\ ~stopped
  /\ OnlyLost(roster, online)
  /\ stopped' \in BOOLEAN
  /\ UNCHANGED <<roster, playing>>

Next ==
  \/ EndRound
  \/ \E p \in Names : Enter(p)
  \/ \E p \in Names : Depart(p)
  \/ Leave

Spec == Init /\ [][Next]_vars

\* Rounds end: the poll loop looks at end_sec whenever poll returns, and poll returns
\* in time as long as no pass of the loop blocks for long (RoundsEnd of RoundClock).
FairSpec == Spec /\ WF_vars(EndRound)

-----------------------------------------------------------------------------
\* p is in the list and online.
Stays(p) == p \in Members(roster) \cap online /\ ~stopped

\* Whoever stays in the game and online gets to draw again and again, whatever the
\* others do, as long as one of them stays too.
EveryoneDraws ==
  \A p, q \in Names :
    p # q /\ <>[](Stays(p) /\ Stays(q))
      => []<>(Rotation(roster) # <<>> /\ Drawer(roster) = p)
=============================================================================
