-------------------------- MODULE GameServer_proofs --------------------------
(***************************************************************************)
(* What holds of the server for every number of clients, games and seats,  *)
(* and, in the last part, that every game of the server implements         *)
(* GameRoster, whichever game is watched.                                  *)
(***************************************************************************)
EXTENDS ServerRotation, PlayerList_proofs

(* The parts of the inductive invariant, of any lobby a handler passes on. *)

\* OneGameEach, of a lobby.
Placed(s) ==
  \A g \in Games :
    /\ IsInjective(s.roster[g].list)
    /\ \A p \in Names : p \in Members(s.roster[g]) <=> s.game[p] = g

\* RotationIsSound, of a lobby.
Rotating(s) ==
  \A g \in Games :
    /\ IsTail(s.roster[g].live, s.roster[g].list)
    /\ s.in_progress[g] /\ s.status = "running" => Rotation(s.roster[g]) # <<>>

\* ExitNeedsUnlinkedNodes, of a lobby.
Excused(s) == s.status = "exited" => \E g \in Games : Len(s.roster[g].dead) >= 2

Good(s) == IsLobby(s) /\ s.pfds = s.open /\ Placed(s) /\ Rotating(s) /\ Excused(s)

\* The lobby after a step that touches no list, no rotation and no round, and after
\* which nobody is online who was not before.
Calm(s, t) ==
  /\ t.all_players = s.all_players
  /\ t.game = s.game
  /\ t.roster = s.roster
  /\ t.in_progress = s.in_progress
  /\ t.phase = s.phase
  /\ t.status = s.status
  /\ t.history = s.history
  /\ s.pfds = s.open => t.pfds = t.open
  /\ \A p \in Names : t.is_online[p] => s.is_online[p]

-----------------------------------------------------------------------------
(* Descriptors and removals *)

\* Only the lists and the players' games matter to their agreement.
LEMMA PlacedByFields ==
  ASSUME NEW s, Placed(s), NEW t, t.roster = s.roster, t.game = s.game
  PROVE  Placed(t)
<1>. SUFFICES ASSUME NEW g \in Games
              PROVE  /\ IsInjective(s.roster[g].list)
                     /\ \A p \in Names : p \in Members(s.roster[g]) <=> s.game[p] = g
  BY DEF Placed
<1>. QED  BY Zenon DEF Placed

\* Calm steps compose and keep the invariant.
LEMMA CalmKeepsGood ==
  ASSUME NEW s, NEW t, IsLobby(t), Calm(s, t), Good(s)
  PROVE  Good(t)
<1>1. /\ t.game = s.game /\ t.roster = s.roster /\ t.in_progress = s.in_progress
      /\ t.status = s.status /\ t.pfds = t.open
  BY DEF Calm, Good
<1>2. Placed(t)
  <2>1. Placed(s)
    BY Zenon DEF Good
  <2>. QED  BY <1>1, <2>1, PlacedByFields, Zenon
<1>3. Rotating(t)
  BY <1>1, Zenon DEF Good, Rotating
<1>4. Excused(t)
  BY <1>1, Zenon DEF Good, Excused
<1>. QED  BY <1>1, <1>2, <1>3, <1>4 DEF Good

\* Two calm steps are one.
LEMMA CalmTwice ==
  ASSUME NEW s, NEW t, NEW u, Calm(s, t), Calm(t, u)
  PROVE  Calm(s, u)
BY Zenon DEF Calm

\* The members of a game and the players online in it are names.
LEMMA OnlineAreNames ==
  ASSUME NEW s, IsLobby(s), NEW g \in Games
  PROVE  /\ Members(s.roster[g]) \in SUBSET Names
         /\ Online(s, g) \in SUBSET Names
         /\ IsFiniteSet(Online(s, g))
<1>1. s.roster[g].list \in Seq(Names)
  BY SMT DEF IsLobby, IsRoster
<1>2. PICK list \in Seq(Names) : list = s.roster[g].list
  BY <1>1
<1>3. ToSet(list) \in SUBSET Names
  BY ToSetOfSeq
<1>4. Members(s.roster[g]) \in SUBSET Names
  BY <1>2, <1>3, Zenon DEF Members
<1>5. Online(s, g) \in SUBSET Names
  BY <1>4, Zenon DEF Online
<1>. QED  BY <1>4, <1>5, FS_Subset, ConstantsAssumption

\* Closing descriptors keeps the type of the lobby, and is calm.
LEMMA DisconnectIsCalm ==
  ASSUME NEW s, IsLobby(s), NEW F
  PROVE  /\ IsLobby(disconnect_fds(s, F))
         /\ Calm(s, disconnect_fds(s, F))
BY SMT DEF IsLobby, Calm, disconnect_fds, Roles

\* Removing players is calm.
LEMMA RemovalIsCalm ==
  ASSUME NEW s, IsLobby(s), NEW S \in SUBSET Names
  PROVE  /\ IsLobby(Removal(s, S))
         /\ Calm(s, Removal(s, S))
<1> DEFINE t == disconnect_fds(s, {s.fd[p] : p \in S})
           fewer == [g \in Games |->
                       s.cur_capacity[g] - Cardinality({p \in S : s.game[p] = g})]
<1>1. IsLobby(t) /\ Calm(s, t)
  BY DisconnectIsCalm
<1>2. \A g \in Games : Cardinality({p \in S : s.game[p] = g}) \in Nat
  <2>1. \A g \in Games : {p \in S : s.game[p] = g} \in SUBSET Names
    OBVIOUS
  <2>. QED  BY <2>1, FS_Subset, FS_CardinalityType, ConstantsAssumption
<1>3. fewer \in [Games -> Int] /\ \A g \in Games : fewer[g] <= GameSize
  <2>1. \A g \in Games : s.cur_capacity[g] \in Int /\ s.cur_capacity[g] <= GameSize
    BY DEF IsLobby
  <2>. QED  BY <1>2, <2>1, ConstantsAssumption
<1>4. Removal(s, S) =
        [t EXCEPT !.is_online = [p \in Names |-> p \notin S /\ s.is_online[p]],
                  !.fd = [p \in Names |-> IF p \in S THEN NoFd ELSE s.fd[p]],
                  !.cur_capacity = fewer]
  BY Zenon DEF Removal
<1>5. s.fd \in [Names -> Fds \cup {NoFd}]
  BY DEF IsLobby
<1>. HIDE DEF t, fewer
<1>6. IsLobby(Removal(s, S))
  BY <1>1, <1>3, <1>4, <1>5, SMT DEF IsLobby
<1>7. Calm(s, Removal(s, S))
  BY <1>1, <1>4, SMT DEF IsLobby, Calm
<1>. QED  BY <1>6, <1>7

\* A broadcast, with all the removals in it, is calm.
LEMMA BroadcastIsCalm ==
  ASSUME NEW s, IsLobby(s), NEW g \in Games, NEW sender_fd,
         NEW t \in broadcast_buffer(s, g, sender_fd)
  PROVE  IsLobby(t) /\ Calm(s, t)
<1>1. PICK S \in SUBSET Online(s, g) : t = Removal(s, S)
  BY Zenon DEF broadcast_buffer, Casualties
<1>2. S \in SUBSET Names
  BY <1>1, OnlineAreNames
<1>. QED  BY <1>1, <1>2, RemovalIsCalm

\* So is one that hands out roles.
LEMMA BroadcastRoleIsCalm ==
  ASSUME NEW s, IsLobby(s), NEW g \in Games, NEW sender_fd, NEW role \in Roles,
         NEW t \in broadcast_role(s, g, sender_fd, role)
  PROVE  IsLobby(t) /\ Calm(s, t)
<1>1. PICK u \in broadcast_buffer(s, g, sender_fd) :
        t = [u EXCEPT !.told =
              [f \in Fds |-> IF f # sender_fd /\ \E p \in Online(u, g) : u.fd[p] = f
                             THEN role ELSE u.told[f]]]
  BY Zenon DEF broadcast_role
<1>2. IsLobby(u) /\ Calm(s, u)
  BY BroadcastIsCalm
<1> DEFINE told == [f \in Fds |-> IF f # sender_fd /\ \E p \in Online(u, g) : u.fd[p] = f
                                  THEN role ELSE u.told[f]]
<1>3. told \in [Fds -> Roles]
  <2>1. \A f \in Fds : u.told[f] \in Roles
    BY <1>2 DEF IsLobby
  <2>. QED  BY <2>1
<1>4. t = [u EXCEPT !.told = told]
  BY <1>1
<1>. HIDE DEF told
<1>. QED  BY <1>2, <1>3, <1>4, SMT DEF IsLobby, Calm

\* So is remove_player_from_server.
LEMMA RemoveFromServerIsCalm ==
  ASSUME NEW s, IsLobby(s), NEW p \in Names,
         NEW t \in remove_player_from_server(s, p)
  PROVE  IsLobby(t) /\ Calm(s, t)
<1> DEFINE u == Removal(s, {p})
<1>1. IsLobby(u) /\ Calm(s, u)
  BY RemovalIsCalm
<1>2. CASE s.game[p] = NoGame
  BY <1>1, <1>2, Zenon DEF remove_player_from_server
<1>3. CASE s.game[p] # NoGame
  <2>1. s.game[p] \in Games
    BY <1>3 DEF IsLobby
  <2>2. t \in broadcast_buffer(u, s.game[p], NoFd)
    BY <1>3, Zenon DEF remove_player_from_server
  <2>3. IsLobby(t) /\ Calm(u, t)
    BY <1>1, <2>1, <2>2, BroadcastIsCalm
  <2>. QED  BY <1>1, <2>3, CalmTwice
<1>. QED  BY <1>2, <1>3

-----------------------------------------------------------------------------
(* Rounds *)

\* The round of g starts: it finds a drawing player, and everything but that game's
\* rotation stays; or the process exits, over two unlinked nodes at least.
LEMMA StartRoundIsGood ==
  ASSUME NEW s, Good(s), s.status = "running", NEW g \in Games,
         Cardinality(Online(s, g)) >= MIN_PLAYERS,
         NEW t \in start_round(s, g)
  PROVE  Good(t)
<1> DEFINE online == {p \in Names : s.is_online[p]}
           r == s.roster[g]
           next == get_next_drawing(r, online)
<1>1. IsLobby(s) /\ s.pfds = s.open /\ Placed(s) /\ Rotating(s)
  BY DEF Good
<1>2. IsRoster(r, Names) /\ IsSound(r)
  BY <1>1 DEF IsLobby, Placed, Rotating, IsSound
<1>3. CASE ~HasNextDrawer(r, online)
  <2>1. t = [s EXCEPT !.in_progress = [@ EXCEPT ![g] = TRUE], !.status = "exited"]
    BY <1>3, Zenon DEF start_round
  <2>2. IsLobby(t)
    BY <1>1, <2>1, SMT DEF IsLobby, Statuses
  <2>3. /\ t.game = s.game /\ t.roster = s.roster /\ t.status = "exited"
        /\ t.pfds = s.pfds /\ t.open = s.open
    BY <1>1, <2>1, SMT DEF IsLobby
  <2>4. Placed(t)
    BY <1>1, <2>3, Zenon DEF Placed
  <2>5. Rotating(t)
    BY <1>1, <2>3 DEF Rotating
  <2>6. Excused(t)
    <3>1. PICK p \in Online(s, g), q \in Online(s, g) : p # q
      <4>1. IsFiniteSet(Online(s, g))
        BY <1>1, OnlineAreNames
      <4>2. Online(s, g) # {}
        BY <4>1, FS_EmptySet DEF MIN_PLAYERS
      <4>3. PICK p \in Online(s, g) : TRUE
        BY <4>2
      <4>4. Online(s, g) # {p}
        BY <4>1, FS_Singleton DEF MIN_PLAYERS
      <4>. QED  BY <4>3, <4>4
    <3>2. p \in Members(r) \cap online /\ q \in Members(r) \cap online
      BY <1>1, OnlineAreNames, Zenon DEF Online
    <3>3. ~(Len(r.dead) <= 1)
      BY <1>2, <1>3, <3>1, <3>2, NextDrawerExists, Zenon
    <3>4. Len(r.dead) \in Nat
      BY <1>2, LenProperties DEF IsRoster
    <3>5. Len(t.roster[g].dead) >= 2
      BY <2>3, <3>3, <3>4
    <3>. QED  BY <3>5 DEF Excused
  <2>. QED  BY <1>1, <2>2, <2>3, <2>4, <2>5, <2>6 DEF Good
<1>4. CASE HasNextDrawer(r, online)
  <2> DEFINE u == [s EXCEPT !.in_progress = [@ EXCEPT ![g] = TRUE],
                            !.roster = [@ EXCEPT ![g] = next]]
             drawing_fd == u.fd[Drawer(next)]
             sent == IF drawing_fd \in u.open
                     THEN {[u EXCEPT !.told = [@ EXCEPT ![drawing_fd] = "draw"]]}
                     ELSE {}
  <2>1. /\ IsRoster(next, Names) /\ IsSound(next) /\ next.list = r.list
        /\ Rotation(next) # <<>> /\ Drawer(next) \in online
    BY <1>2, <1>4, NextKeepsSound
  <2>2. Drawer(next) \in Names
    BY <2>1
  <2>3. PICK v \in sent \cup remove_player_from_server(u, Drawer(next)) :
          t \in broadcast_role(v, g, drawing_fd, "guess")
    BY <1>4, Zenon DEF start_round
  <2>. HIDE DEF next, r, online
  <2>4. IsLobby(u)
    BY <1>1, <2>1, SMT DEF IsLobby
  <2>5. /\ u.game = s.game /\ u.status = s.status /\ u.pfds = s.pfds /\ u.open = s.open
        /\ u.roster = [s.roster EXCEPT ![g] = next]
        /\ u.in_progress = [s.in_progress EXCEPT ![g] = TRUE]
    BY <1>1, SMT DEF IsLobby
  <2>. HIDE DEF u
  <2>6. Good(u)
    <3>1. /\ u.roster[g] = next
          /\ \A h \in Games \ {g} :
               u.roster[h] = s.roster[h] /\ u.in_progress[h] = s.in_progress[h]
      BY <1>1, <2>5 DEF IsLobby
    <3>2. Members(next) = Members(s.roster[g])
      BY <2>1, Zenon DEF Members, r
    <3>3. Placed(u)
      <4>1. IsInjective(next.list)
        BY <2>1, Zenon DEF IsSound
      <4>2. ASSUME NEW h \in Games
            PROVE  /\ IsInjective(u.roster[h].list)
                   /\ \A p \in Names : p \in Members(u.roster[h]) <=> u.game[p] = h
        <5>1. /\ IsInjective(s.roster[h].list)
              /\ \A p \in Names : p \in Members(s.roster[h]) <=> s.game[p] = h
          BY <1>1, Zenon DEF Placed
        <5>2. Members(u.roster[h]) = Members(s.roster[h])
          BY <3>1, <3>2, Zenon
        <5>3. IsInjective(u.roster[h].list)
          BY <3>1, <4>1, <5>1, Zenon
        <5>. QED  BY <2>5, <5>1, <5>2, <5>3, Zenon
      <4>. QED  BY <4>2, Zenon DEF Placed
    <3>4. Rotating(u)
      <4>1. IsTail(next.live, next.list)
        BY <2>1, Zenon DEF IsSound
      <4>. QED  BY <1>1, <2>1, <2>5, <3>1, <4>1, Zenon DEF Rotating
    <3>5. Excused(u)
      BY <2>5 DEF Excused
    <3>. QED  BY <1>1, <2>4, <2>5, <3>3, <3>4, <3>5 DEF Good
  <2>7. IsLobby(v) /\ Calm(u, v)
    <3>1. CASE v \in sent
      <4>1. /\ drawing_fd \in u.open
            /\ v = [u EXCEPT !.told = [@ EXCEPT ![drawing_fd] = "draw"]]
        BY <3>1, Zenon
      <4>2. drawing_fd \in Fds
        BY <2>4, <4>1 DEF IsLobby
      <4>. HIDE DEF drawing_fd
      <4>. QED  BY <2>4, <4>1, <4>2, SMT DEF IsLobby, Calm, Roles
    <3>2. CASE v \in remove_player_from_server(u, Drawer(next))
      BY <2>2, <2>4, <3>2, RemoveFromServerIsCalm
    <3>. QED  BY <2>3, <3>1, <3>2
  <2>8. IsLobby(t) /\ Calm(v, t)
    <3>1. "guess" \in Roles
      BY DEF Roles
    <3>. QED  BY <2>3, <2>7, <3>1, BroadcastRoleIsCalm
  <2>. QED  BY <2>6, <2>7, <2>8, CalmKeepsGood
<1>. QED  BY <1>3, <1>4

\* A calm step of a running server keeps it good and running.
LEMMA GoodBroadcast ==
  ASSUME NEW s, Good(s), NEW g \in Games, NEW sender_fd,
         NEW t \in broadcast_buffer(s, g, sender_fd)
  PROVE  Good(t) /\ t.status = s.status
<1>1. IsLobby(t) /\ Calm(s, t)
  BY BroadcastIsCalm DEF Good
<1>. QED  BY <1>1, CalmKeepsGood DEF Calm

\* So does a removal.
LEMMA GoodRemoveFromServer ==
  ASSUME NEW s, Good(s), NEW p \in Names,
         NEW t \in remove_player_from_server(s, p)
  PROVE  Good(t) /\ t.status = s.status
<1>1. IsLobby(t) /\ Calm(s, t)
  BY RemoveFromServerIsCalm DEF Good
<1>. QED  BY <1>1, CalmKeepsGood DEF Calm

\* Nor does more than lists, rounds and the status matter to the rotations.
LEMMA RotatingByFields ==
  ASSUME NEW s, Rotating(s), NEW t, t.roster = s.roster,
         t.in_progress = s.in_progress, t.status = s.status
  PROVE  Rotating(t)
<1>. SUFFICES ASSUME NEW g \in Games
              PROVE  /\ IsTail(s.roster[g].live, s.roster[g].list)
                     /\ s.in_progress[g] /\ s.status = "running" =>
                          Rotation(s.roster[g]) # <<>>
  BY DEF Rotating
<1>. QED  BY Zenon DEF Rotating

\* The other fields do not matter to the invariant.
LEMMA GoodByFields ==
  ASSUME NEW s, Good(s), NEW t, IsLobby(t),
         t.roster = s.roster, t.game = s.game, t.in_progress = s.in_progress,
         t.status = s.status, t.pfds = t.open
  PROVE  Good(t)
<1>1. Placed(t)
  <2>1. Placed(s)
    BY Zenon DEF Good
  <2>. QED  BY <2>1, PlacedByFields, Zenon
<1>2. Rotating(t)
  <2>1. Rotating(s)
    BY Zenon DEF Good
  <2>. QED  BY <2>1, RotatingByFields, Zenon
<1>3. Excused(t)
  BY Zenon DEF Good, Excused
<1>. QED  BY <1>1, <1>2, <1>3 DEF Good

\* A validation, whether it waits for players or starts a round.
LEMMA ValidateRoundIsGood ==
  ASSUME NEW s, Good(s), s.status = "running", NEW g \in Games,
         NEW t \in validate_round(s, g)
  PROVE  Good(t)
<1>1. CASE Cardinality(Online(s, g)) < MIN_PLAYERS
  <2>1. t \in broadcast_buffer(s, g, Listener)
    BY <1>1, Zenon DEF validate_round
  <2>. QED  BY <2>1, GoodBroadcast
<1>2. CASE ~(Cardinality(Online(s, g)) < MIN_PLAYERS)
  <2> DEFINE u == [s EXCEPT !.phase = [@ EXCEPT ![g] = "countdown"]]
  <2>1. t \in start_round(u, g)
    BY <1>2, Zenon DEF validate_round
  <2>2. IsLobby(s) /\ s.pfds = s.open
    BY DEF Good
  <2>3. IsLobby(u)
    BY <2>2, SMT DEF IsLobby, Phases
  <2>4. /\ u.roster = s.roster /\ u.game = s.game /\ u.in_progress = s.in_progress
        /\ u.status = s.status /\ u.pfds = u.open /\ u.is_online = s.is_online
    BY <2>2, SMT DEF IsLobby
  <2>. HIDE DEF u
  <2>5. Good(u)
    BY <2>3, <2>4, GoodByFields
  <2>6. Online(u, g) = Online(s, g)
    BY <2>4, Zenon DEF Online
  <2>7. Cardinality(Online(u, g)) >= MIN_PLAYERS
    <3>1. Cardinality(Online(s, g)) \in Nat
      BY <2>2, OnlineAreNames, FS_CardinalityType
    <3>. QED  BY <1>2, <2>6, <3>1 DEF MIN_PLAYERS
  <2>. QED  BY <2>1, <2>4, <2>5, <2>7, StartRoundIsGood
<1>. QED  BY <1>1, <1>2

\* The end of a round.
LEMMA EndRoundIsGood ==
  ASSUME NEW s, Good(s), s.status = "running", NEW g \in Games,
         NEW t \in end_round(s, g)
  PROVE  Good(t)
<1> DEFINE stopped == [s EXCEPT !.in_progress = [@ EXCEPT ![g] = FALSE]]
<1>1. PICK u \in broadcast_heartbeat(stopped, g) :
        \E v \in broadcast_role(u, g, Listener, "idle") : t \in validate_round(v, g)
  BY Zenon DEF end_round
<1>0. PICK v \in broadcast_role(u, g, Listener, "idle") : t \in validate_round(v, g)
  BY <1>1
<1>2. IsLobby(s) /\ s.pfds = s.open /\ Placed(s) /\ Rotating(s)
  BY DEF Good
<1>3. IsLobby(stopped)
  BY <1>2, SMT DEF IsLobby
<1>4. /\ stopped.roster = s.roster /\ stopped.game = s.game
      /\ stopped.status = s.status /\ stopped.pfds = stopped.open
  BY <1>2, SMT DEF IsLobby
<1>9. \A h \in Games : stopped.in_progress[h] => s.in_progress[h]
  BY <1>2, SMT DEF IsLobby
<1>. HIDE DEF stopped
<1>5. Good(stopped)
  <2>1. Placed(stopped)
    BY <1>2, <1>4, PlacedByFields
  <2>2. Rotating(stopped)
    BY <1>2, <1>4, <1>9, Zenon DEF Rotating
  <2>3. Excused(stopped)
    BY <1>4, Zenon DEF Excused, Good
  <2>. QED  BY <1>3, <1>4, <2>1, <2>2, <2>3 DEF Good
<1>6. Good(u) /\ u.status = "running"
  BY <1>1, <1>4, <1>5, GoodBroadcast DEF broadcast_heartbeat
<1>7. IsLobby(v) /\ Calm(u, v)
  <2>1. "idle" \in Roles
    BY DEF Roles
  <2>. QED  BY <1>0, <1>6, <2>1, BroadcastRoleIsCalm DEF Good
<1>8. Good(v) /\ v.status = "running"
  BY <1>6, <1>7, CalmKeepsGood DEF Calm
<1>. QED  BY <1>0, <1>8, ValidateRoundIsGood

-----------------------------------------------------------------------------
(* Logins *)

\* The player leaves the list of its game, if it has one.
LEMMA UnlinkIsGood ==
  ASSUME NEW s, IsLobby(s), Placed(s), Rotating(s), s.status = "running",
         NEW p \in Names
  PROVE  /\ IsLobby(unlink(s, p)) /\ Placed(unlink(s, p)) /\ Rotating(unlink(s, p))
         /\ unlink(s, p).game[p] = NoGame
         /\ unlink(s, p).status = "running"
         /\ unlink(s, p).pfds = s.pfds /\ unlink(s, p).open = s.open
         /\ unlink(s, p).cur_capacity = s.cur_capacity
<1>1. CASE s.game[p] = NoGame
  <2>1. unlink(s, p) = s
    BY <1>1, Zenon DEF unlink
  <2>. QED  BY <1>1, <2>1
<1>2. CASE s.game[p] # NoGame
  <2> DEFINE g == s.game[p]
             r == s.roster[g]
             t == unlink(s, p)
             left == remove_player(r, p)
  <2>1. g \in Games
    BY <1>2 DEF IsLobby
  <2>2. IsRoster(r, Names) /\ IsSound(r)
    BY <2>1 DEF IsLobby, Placed, Rotating, IsSound
  <2>3. /\ IsRoster(left, Names) /\ IsSound(left)
        /\ Members(left) = Members(r) \ {p}
        /\ Rotation(r) # <<>> => Rotation(left) # <<>>
    BY <2>2, RosterTypes, RemoveKeepsSound, RemoveKeepsDrawer
  <2>4. t = [s EXCEPT !.roster = [@ EXCEPT ![g] = left], !.game = [@ EXCEPT ![p] = NoGame]]
    BY <1>2, Zenon DEF unlink
  <2>. HIDE DEF left
  <2>5. IsLobby(t)
    BY <2>1, <2>3, <2>4, SMT DEF IsLobby
  <2>6. /\ t.roster[g] = left
        /\ \A h \in Games \ {g} : t.roster[h] = s.roster[h]
        /\ t.game[p] = NoGame
        /\ \A q \in Names \ {p} : t.game[q] = s.game[q]
        /\ t.in_progress = s.in_progress /\ t.status = s.status
        /\ t.pfds = s.pfds /\ t.open = s.open /\ t.cur_capacity = s.cur_capacity
    BY <2>1, <2>4, SMT DEF IsLobby
  <2>. HIDE DEF t
  <2>7. NoGame \notin Games
    BY DEF Games, NoGame
  <2>8. ASSUME NEW h \in Games
        PROVE  /\ IsInjective(t.roster[h].list)
               /\ \A q \in Names : q \in Members(t.roster[h]) <=> t.game[q] = h
    <3>1. \A q \in Names : q \in Members(s.roster[h]) <=> s.game[q] = h
      BY Zenon DEF Placed
    <3>2. CASE h = g
      <4>1. IsInjective(t.roster[h].list)
        BY <2>3, <2>6, <3>2, Zenon DEF IsSound
      <4>2. Members(t.roster[h]) = Members(s.roster[h]) \ {p}
        BY <2>3, <2>6, <3>2, Zenon
      <4>. QED  BY <2>6, <2>7, <3>1, <4>1, <4>2
    <3>3. CASE h # g
      <4>1. t.roster[h] = s.roster[h]
        BY <2>6, <3>3
      <4>2. IsInjective(t.roster[h].list)
        BY <4>1, Zenon DEF Placed
      <4>3. p \notin Members(s.roster[h])
        BY <3>1, <3>3
      <4>. QED  BY <2>6, <2>7, <3>1, <4>1, <4>2, <4>3
    <3>. QED  BY <3>2, <3>3
  <2>9. Placed(t)
    BY <2>8, Zenon DEF Placed
  <2>10. Rotating(t)
    <3>1. IsTail(left.live, left.list)
      BY <2>3, Zenon DEF IsSound
    <3>2. s.in_progress[g] => Rotation(left) # <<>>
      BY <2>1, <2>3, Zenon DEF Rotating
    <3>3. ASSUME NEW h \in Games
          PROVE  /\ IsTail(t.roster[h].live, t.roster[h].list)
                 /\ t.in_progress[h] /\ t.status = "running" => Rotation(t.roster[h]) # <<>>
      <4>1. CASE h = g
        BY <2>6, <3>1, <3>2, <4>1, Zenon
      <4>2. CASE h # g
        <5>1. t.roster[h] = s.roster[h]
          BY <2>6, <4>2
        <5>. QED  BY <2>6, <5>1, Zenon DEF Rotating
      <4>. QED  BY <4>1, <4>2
    <3>. QED  BY <3>3, Zenon DEF Rotating
  <2>. QED  BY <2>5, <2>6, <2>9, <2>10 DEF t
<1>. QED  BY <1>1, <1>2

\* A running lobby whose lists are sound, while a login has its descriptor open and
\* not polled yet.
Seating(s) == IsLobby(s) /\ Placed(s) /\ Rotating(s) /\ s.status = "running"

\* A seat in a game that has one free.
LEMMA SeatIsGood ==
  ASSUME NEW s, Seating(s), NEW p \in Names, FreeGames(s) # {}
  PROVE  /\ Seating(seat(s, p))
         /\ seat(s, p).game[p] \in Games
         /\ seat(s, p).pfds = s.pfds /\ seat(s, p).open = s.open
         /\ seat(s, p).fd = s.fd
<1> DEFINE g == Min(FreeGames(s))
           u == unlink(s, p)
           longer == add_player(u.roster[g], p)
           t == seat(s, p)
           history == IF s.game[p] \in {NoGame, g} THEN u.history
                      ELSE u.history \cup {"displaced"}
<1>1. g \in Games /\ s.cur_capacity[g] < GameSize
  <2>1. FreeGames(s) \in SUBSET Nat
    BY ConstantsAssumption DEF FreeGames, Games
  <2>2. g \in FreeGames(s)
    BY <2>1, MinIsLeast
  <2>. QED  BY <2>2 DEF FreeGames
<1>2. /\ IsLobby(u) /\ Placed(u) /\ Rotating(u)
      /\ u.game[p] = NoGame /\ u.status = "running"
      /\ u.pfds = s.pfds /\ u.open = s.open /\ u.cur_capacity = s.cur_capacity
  BY UnlinkIsGood DEF Seating
<1>3. u.fd = s.fd
  BY SMT DEF unlink, Seating, IsLobby
<1>4. t = [u EXCEPT !.game = [@ EXCEPT ![p] = g],
                    !.cur_capacity = [@ EXCEPT ![g] = u.cur_capacity[g] + 1],
                    !.roster = [@ EXCEPT ![g] = longer],
                    !.history = history]
  BY Zenon DEF seat
<1>5. NoGame \notin Games
  BY DEF Games, NoGame
<1>6. p \notin Members(u.roster[g])
  BY <1>1, <1>2, <1>5, Zenon DEF Placed
<1>7. IsRoster(u.roster[g], Names) /\ IsSound(u.roster[g])
  BY <1>1, <1>2 DEF IsLobby, Placed, Rotating, IsSound
<1>8. /\ IsRoster(longer, Names) /\ IsSound(longer)
      /\ Members(longer) = Members(u.roster[g]) \cup {p}
      /\ Rotation(longer) = Rotation(u.roster[g])
  <2>1. longer.dead = u.roster[g].dead /\ longer.live = u.roster[g].live
    BY DEF add_player
  <2>2. Rotation(longer) = Rotation(u.roster[g])
    BY <2>1, Zenon DEF Rotation
  <2>. QED  BY <1>6, <1>7, <2>2, RosterTypes, AddKeepsSound
<1>9. history \in SUBSET Mishaps
  BY <1>2, SMT DEF IsLobby, Mishaps
<1>10. u.cur_capacity[g] \in Int /\ u.cur_capacity[g] + 1 <= GameSize
  <2>1. u.cur_capacity[g] \in Int
    BY <1>1, <1>2 DEF IsLobby
  <2>. QED  BY <1>1, <1>2, <2>1, ConstantsAssumption
<1>. HIDE DEF g, u, longer, history
<1>11. IsLobby(t)
  BY <1>1, <1>2, <1>4, <1>8, <1>9, <1>10, SMT DEF IsLobby
<1>12. /\ t.roster[g] = longer
       /\ \A h \in Games \ {g} : t.roster[h] = u.roster[h]
       /\ t.game[p] = g
       /\ \A q \in Names \ {p} : t.game[q] = u.game[q]
       /\ t.in_progress = u.in_progress /\ t.status = u.status
       /\ t.pfds = u.pfds /\ t.open = u.open /\ t.fd = u.fd
  BY <1>1, <1>2, <1>4, SMT DEF IsLobby
<1>. HIDE DEF t
<1>13. ASSUME NEW h \in Games
       PROVE  /\ IsInjective(t.roster[h].list)
              /\ \A q \in Names : q \in Members(t.roster[h]) <=> t.game[q] = h
  <2>1. \A q \in Names : q \in Members(u.roster[h]) <=> u.game[q] = h
    BY <1>2, Zenon DEF Placed
  <2>2. CASE h = g
    <3>1. IsInjective(t.roster[h].list)
      BY <1>8, <1>12, <2>2, Zenon DEF IsSound
    <3>2. Members(t.roster[h]) = Members(u.roster[h]) \cup {p}
      BY <1>8, <1>12, <2>2, Zenon
    <3>. QED  BY <1>12, <2>1, <2>2, <3>1, <3>2
  <2>3. CASE h # g
    <3>1. t.roster[h] = u.roster[h]
      BY <1>12, <2>3
    <3>2. IsInjective(t.roster[h].list)
      BY <1>2, <3>1, Zenon DEF Placed
    <3>3. p \notin Members(u.roster[h])
      BY <1>2, <1>5, <2>1
    <3>. QED  BY <1>12, <2>1, <2>3, <3>1, <3>2, <3>3
  <2>. QED  BY <2>2, <2>3
<1>14. Placed(t)
  BY <1>13, Zenon DEF Placed
<1>15. ASSUME NEW h \in Games
       PROVE  /\ IsTail(t.roster[h].live, t.roster[h].list)
              /\ t.in_progress[h] /\ t.status = "running" => Rotation(t.roster[h]) # <<>>
  <2>1. /\ IsTail(u.roster[h].live, u.roster[h].list)
        /\ u.in_progress[h] /\ u.status = "running" => Rotation(u.roster[h]) # <<>>
    BY <1>2, Zenon DEF Rotating
  <2>2. CASE h = g
    <3>1. IsTail(longer.live, longer.list)
      BY <1>8, Zenon DEF IsSound
    <3>. QED  BY <1>8, <1>12, <2>1, <2>2, <3>1, Zenon
  <2>3. CASE h # g
    <3>1. t.roster[h] = u.roster[h]
      BY <1>12, <2>3
    <3>. QED  BY <1>12, <2>1, <3>1, Zenon
  <2>. QED  BY <2>2, <2>3
<1>16. Rotating(t)
  BY <1>15, Zenon DEF Rotating
<1>. QED  BY <1>1, <1>2, <1>3, <1>11, <1>12, <1>14, <1>16 DEF Seating, t

\* SERVER_FULL, before the caller closes the descriptor.
LEMMA TurnAwayIsGood ==
  ASSUME NEW s, Seating(s), NEW p \in Names
  PROVE  /\ Seating(turn_away(s, p))
         /\ turn_away(s, p).pfds = s.pfds /\ turn_away(s, p).open = s.open
<1> DEFINE u == unlink(s, p)
           t == turn_away(s, p)
           history == u.history \cup {"turned_away"} \cup
                        (IF s.game[p] = NoGame THEN {} ELSE {"displaced"})
<1>1. /\ IsLobby(u) /\ Placed(u) /\ Rotating(u) /\ u.status = "running"
      /\ u.pfds = s.pfds /\ u.open = s.open
  BY UnlinkIsGood DEF Seating
<1>2. t = [u EXCEPT !.is_online = [@ EXCEPT ![p] = FALSE], !.history = history]
  BY Zenon DEF turn_away
<1>3. history \in SUBSET Mishaps
  BY <1>1, SMT DEF IsLobby, Mishaps
<1>. HIDE DEF u, history
<1>4. IsLobby(t)
  BY <1>1, <1>2, <1>3, SMT DEF IsLobby
<1>5. /\ t.roster = u.roster /\ t.game = u.game /\ t.in_progress = u.in_progress
      /\ t.status = u.status /\ t.pfds = u.pfds /\ t.open = u.open
  BY <1>1, <1>2, SMT DEF IsLobby
<1>. HIDE DEF t
<1>6. Placed(t)
  BY <1>1, <1>5, PlacedByFields
<1>7. Rotating(t)
  BY <1>1, <1>5, RotatingByFields
<1>. QED  BY <1>1, <1>4, <1>5, <1>6, <1>7 DEF Seating, t

\* Only the fields of players that a login writes.
LEMMA UpdatePlayersIsGood ==
  ASSUME NEW s, Seating(s), NEW n \in Names, NEW f \in Fds
  PROVE  /\ Seating(update_players(s, n, f))
         /\ update_players(s, n, f).pfds = s.pfds
         /\ update_players(s, n, f).open = s.open
         /\ update_players(s, n, f).fd[n] = f
         /\ n \in Known(update_players(s, n, f))
<1> DEFINE t == update_players(s, n, f)
           known == IF n \in Known(s) THEN s.all_players ELSE <<n>> \o s.all_players
<1>1. IsLobby(s) /\ s.all_players \in Seq(Names)
  BY DEF Seating, IsLobby
<1>2. known \in Seq(Names)
  BY <1>1, ConsShape
<1>3. n \in ToSet(known)
  <2>1. CASE n \in Known(s)
    BY <2>1, Zenon DEF Known
  <2>2. CASE n \notin Known(s)
    <3>1. PICK all \in Seq(Names) : all = s.all_players
      BY <1>1
    <3>2. PICK longer \in Seq(Names) : longer = <<n>> \o all
      BY ConsShape
    <3>3. 1 \in 1..Len(longer) /\ longer[1] = n
      BY <3>2, ConsShape
    <3>4. n \in ToSet(longer)
      BY <3>3, ToSetOfSeq
    <3>. QED  BY <2>2, <3>1, <3>2, <3>4, Zenon
  <2>. QED  BY <2>1, <2>2
<1>4. t = [s EXCEPT !.all_players = known,
                    !.fd = [@ EXCEPT ![n] = f],
                    !.is_online = [@ EXCEPT ![n] = TRUE]]
  BY Zenon DEF update_players
<1>. HIDE DEF known
<1>5. IsLobby(t)
  BY <1>1, <1>2, <1>4, SMT DEF IsLobby
<1>6. /\ t.roster = s.roster /\ t.game = s.game /\ t.in_progress = s.in_progress
      /\ t.status = s.status /\ t.pfds = s.pfds /\ t.open = s.open
      /\ t.all_players = known /\ t.fd[n] = f
  BY <1>1, <1>4, SMT DEF IsLobby
<1>. HIDE DEF t
<1>7. n \in Known(t)
  BY <1>3, <1>6, Zenon DEF Known
<1>8. Placed(t) /\ Rotating(t)
  BY <1>6, PlacedByFields, RotatingByFields DEF Seating
<1>. QED  BY <1>5, <1>6, <1>7, <1>8 DEF Seating, t

\* Somebody is found at the descriptor of a known player, and has it.
LEMMA PlayerByFd ==
  ASSUME NEW s, IsLobby(s), NEW f
  PROVE  /\ get_player_by_fd(s, f) # NULL =>
              get_player_by_fd(s, f) \in Names /\ s.fd[get_player_by_fd(s, f)] = f
         /\ (\E n \in Known(s) : n \in Names /\ s.fd[n] = f) =>
              get_player_by_fd(s, f) # NULL
<1>1. PICK all \in Seq(Names) : all = s.all_players
  BY DEF IsLobby
<1> DEFINE holders == {p \in Names : s.fd[p] = f}
<1>2. PICK k \in 0..Len(all) :
        /\ k = FirstIn(all, holders)
        /\ k # 0 => all[k] \in holders
        /\ \A i \in 1..Len(all) : all[i] \in holders => k # 0
  BY FirstInIsFirst
<1>3. get_player_by_fd(s, f) = IF k = 0 THEN NULL ELSE all[k]
  BY <1>1, <1>2, Zenon DEF get_player_by_fd
<1>4. ASSUME NEW n \in Known(s), n \in Names, s.fd[n] = f
      PROVE  k # 0
  <2>1. PICK i \in 1..Len(all) : all[i] = n
    BY <1>1, ToSetOfSeq DEF Known
  <2>. QED  BY <1>2, <1>4, <2>1
<1>5. k # 0 => all[k] \in Names /\ all[k] # NULL /\ s.fd[all[k]] = f
  BY <1>2, ConstantsAssumption
<1>. QED  BY <1>3, <1>4, <1>5

\* The answer to a player that joins a running round.
LEMMA SendGameInProgressIsCalm ==
  ASSUME NEW s, Good(s), NEW p \in Names, NEW t \in send_game_in_progress(s, p)
  PROVE  IsLobby(t) /\ Calm(s, t)
<1>0. IsLobby(s) /\ s.pfds = s.open
  BY DEF Good
<1>1. CASE t \in remove_player_from_server(s, p)
  BY <1>0, <1>1, RemoveFromServerIsCalm
<1>2. CASE t \notin remove_player_from_server(s, p)
  <2>1. PICK role \in {"draw", "guess"} :
          s.fd[p] \in s.open /\ t = [s EXCEPT !.told = [@ EXCEPT ![s.fd[p]] = role]]
    BY <1>2, Zenon DEF send_game_in_progress
  <2>. QED  BY <1>0, <2>1, SMT DEF IsLobby, Calm, Roles
<1>. QED  BY <1>1, <1>2

LEMMA SendGameInProgressIsGood ==
  ASSUME NEW s, Good(s), NEW p \in Names, NEW t \in send_game_in_progress(s, p)
  PROVE  Good(t)
BY SendGameInProgressIsCalm, CalmKeepsGood

\* The rest of the listener branch after a login that succeeded.
LEMMA WelcomeIsGood ==
  ASSUME NEW s, Seating(s), NEW p \in Names, s.game[p] \in Games,
         s.fd[p] \in Fds, s.open = s.pfds \cup {s.fd[p]},
         NEW t \in welcome(s, p)
  PROVE  Good(t)
<1> DEFINE g == s.game[p]
           polled == [s EXCEPT !.pfds = @ \cup {s.fd[p]}]
<1>1. IsLobby(s) /\ Placed(s) /\ Rotating(s) /\ s.status = "running"
  BY DEF Seating
<1>2. IsLobby(polled)
  BY <1>1, SMT DEF IsLobby
<1>3. /\ polled.roster = s.roster /\ polled.game = s.game
      /\ polled.in_progress = s.in_progress /\ polled.status = s.status
      /\ polled.pfds = s.pfds \cup {s.fd[p]} /\ polled.open = s.open
  BY <1>1, SMT DEF IsLobby
<1>4. \/ t \in remove_player_from_server(polled, p)
      \/ \E u \in broadcast_buffer(polled, g, s.fd[p]) :
           t \in (IF u.in_progress[g] THEN send_game_in_progress(u, p)
                  ELSE validate_round(u, g))
  BY Zenon DEF welcome
<1>. HIDE DEF polled
<1>5. Good(polled)
  <2>1. Placed(polled) /\ Rotating(polled)
    BY <1>1, <1>3, PlacedByFields, RotatingByFields
  <2>2. Excused(polled)
    BY <1>1, <1>3 DEF Excused
  <2>. QED  BY <1>2, <1>3, <2>1, <2>2 DEF Good
<1>6. CASE t \in remove_player_from_server(polled, p)
  BY <1>5, <1>6, GoodRemoveFromServer
<1>7. ASSUME NEW u \in broadcast_buffer(polled, g, s.fd[p]),
             t \in (IF u.in_progress[g] THEN send_game_in_progress(u, p)
                    ELSE validate_round(u, g))
      PROVE  Good(t)
  <2>1. Good(u) /\ u.status = "running"
    BY <1>1, <1>3, <1>5, GoodBroadcast
  <2>2. CASE u.in_progress[g]
    BY <1>7, <2>1, <2>2, SendGameInProgressIsGood
  <2>3. CASE ~u.in_progress[g]
    BY <1>7, <2>1, <2>3, ValidateRoundIsGood
  <2>. QED  BY <2>2, <2>3
<1>. QED  BY <1>4, <1>6, <1>7

\* A login, however it ends.
LEMMA LoginIsGood ==
  ASSUME NEW s, Good(s), s.status = "running", NEW n \in Names,
         NEW f \in Fds, f \notin s.open, NEW t \in login(s, n, f)
  PROVE  Good(t)
<1> DEFINE accepted == [s EXCEPT !.open = @ \cup {f}]
           u == update_players(accepted, n, f)
           p == get_player_by_fd(u, f)
           closed == disconnect_fds(accepted, {f})
<1>1. IsLobby(s) /\ Placed(s) /\ Rotating(s) /\ s.pfds = s.open
  BY DEF Good
<1>2. IsLobby(accepted)
  BY <1>1, SMT DEF IsLobby
<1>3. /\ accepted.roster = s.roster /\ accepted.game = s.game
      /\ accepted.in_progress = s.in_progress /\ accepted.status = "running"
      /\ accepted.pfds = s.pfds /\ accepted.open = s.open \cup {f}
  BY <1>1, SMT DEF IsLobby
<1>4. \/ t = closed
      \/ t \in welcome(u, p) /\ ~NeedsGame(u, p)
      \/ FreeGames(u) = {} /\ t = disconnect_fds(turn_away(u, p), {f})
      \/ FreeGames(u) # {} /\ t \in welcome(seat(u, p), p)
  BY Zenon DEF login
<1>. HIDE DEF accepted
<1>5. Seating(accepted)
  BY <1>1, <1>2, <1>3, PlacedByFields, RotatingByFields DEF Seating
\* Closing the descriptor of a login leaves the polled ones open, and no other.
<1>6. ASSUME NEW v, Seating(v), v.pfds = s.pfds, v.open = s.open \cup {f}
      PROVE  Good(disconnect_fds(v, {f}))
  <2> DEFINE w == disconnect_fds(v, {f})
  <2>1. IsLobby(v) /\ Placed(v) /\ Rotating(v) /\ v.status = "running"
    BY <1>6 DEF Seating
  <2>2. IsLobby(w) /\ Calm(v, w)
    BY <2>1, DisconnectIsCalm
  <2>3. w.pfds = w.open
    BY <1>1, <1>6, <2>1, SMT DEF IsLobby, disconnect_fds
  <2>. HIDE DEF w
  <2>4. Placed(w) /\ Rotating(w) /\ w.status = "running"
    BY <2>1, <2>2, PlacedByFields, RotatingByFields DEF Calm
  <2>5. Excused(w)
    BY <2>4 DEF Excused
  <2>. QED  BY <2>2, <2>3, <2>4, <2>5 DEF Good, w
<1>7. /\ Seating(u) /\ u.pfds = s.pfds /\ u.open = s.open \cup {f}
      /\ u.fd[n] = f /\ n \in Known(u)
  BY <1>3, <1>5, UpdatePlayersIsGood
<1>8. p \in Names /\ u.fd[p] = f
  BY <1>7, PlayerByFd DEF Seating
<1>9. CASE t = closed
  BY <1>3, <1>5, <1>6, <1>9
<1>. HIDE DEF u, p
<1>10. CASE t \in welcome(u, p) /\ ~NeedsGame(u, p)
  <2>1. u.game[p] \in Games
    BY <1>7, <1>8, <1>10 DEF NeedsGame, Seating, IsLobby
  <2>2. u.open = u.pfds \cup {u.fd[p]}
    BY <1>1, <1>7, <1>8
  <2>. QED  BY <1>7, <1>8, <1>10, <2>1, <2>2, WelcomeIsGood
<1>11. CASE FreeGames(u) = {} /\ t = disconnect_fds(turn_away(u, p), {f})
  BY <1>6, <1>7, <1>8, <1>11, TurnAwayIsGood
<1>12. CASE FreeGames(u) # {} /\ t \in welcome(seat(u, p), p)
  <2> DEFINE v == seat(u, p)
  <2>1. /\ Seating(v) /\ v.game[p] \in Games
        /\ v.pfds = u.pfds /\ v.open = u.open /\ v.fd = u.fd
    BY <1>7, <1>8, <1>12, SeatIsGood
  <2>. HIDE DEF v
  <2>2. v.open = v.pfds \cup {v.fd[p]} /\ v.fd[p] \in Fds
    BY <1>1, <1>7, <1>8, <2>1
  <2>3. t \in welcome(v, p)
    BY <1>12 DEF v
  <2>. QED  BY <1>8, <2>1, <2>2, <2>3, WelcomeIsGood
<1>. QED  BY <1>4, <1>9, <1>10, <1>11, <1>12

-----------------------------------------------------------------------------
(* The poll loop *)

\* The other branch of the poll loop.
LEMMA ReadableIsGood ==
  ASSUME NEW s, Good(s), s.status = "running", NEW f \in Fds, NEW t \in readable(s, f)
  PROVE  Good(t)
<1> DEFINE p == get_player_by_fd(s, f)
           g == s.game[p]
<1>1. IsLobby(s) /\ Placed(s) /\ Rotating(s) /\ s.pfds = s.open
  BY DEF Good
<1>2. p # NULL => p \in Names
  BY <1>1, PlayerByFd
<1>3. \/ p = NULL /\ t = disconnect_fds(s, {f})
      \/ p # NULL /\ g = NoGame /\ t = [s EXCEPT !.status = "segfault"]
      \/ p # NULL /\ t \in remove_player_from_server(s, p)
      \/ p # NULL /\ g # NoGame /\ t \in broadcast_buffer(s, g, s.fd[p])
  BY Zenon DEF readable, manage_player_action
<1>4. CASE t = disconnect_fds(s, {f})
  <2>1. IsLobby(t) /\ Calm(s, t)
    BY <1>1, <1>4, DisconnectIsCalm
  <2>. QED  BY <2>1, CalmKeepsGood
<1>5. CASE t = [s EXCEPT !.status = "segfault"]
  <2>1. IsLobby(t)
    BY <1>1, <1>5, SMT DEF IsLobby, Statuses
  <2>2. /\ t.roster = s.roster /\ t.game = s.game /\ t.in_progress = s.in_progress
        /\ t.status = "segfault" /\ t.pfds = t.open
    BY <1>1, <1>5, SMT DEF IsLobby
  <2>3. Placed(t)
    BY <1>1, <2>2, PlacedByFields
  <2>4. Rotating(t)
    BY <1>1, <2>2 DEF Rotating
  <2>5. Excused(t)
    BY <2>2 DEF Excused
  <2>. QED  BY <2>1, <2>2, <2>3, <2>4, <2>5 DEF Good
<1>6. CASE p # NULL /\ t \in remove_player_from_server(s, p)
  BY <1>2, <1>6, GoodRemoveFromServer
<1>7. CASE p # NULL /\ g # NoGame /\ t \in broadcast_buffer(s, g, s.fd[p])
  <2>1. g \in Games
    BY <1>1, <1>2, <1>7 DEF IsLobby
  <2>. QED  BY <1>7, <2>1, GoodBroadcast
<1>. QED  BY <1>3, <1>4, <1>5, <1>6, <1>7

\* The inductive invariant.  Each conjunct needs others: a removed node may be left
\* out of the drawing chain only because the lists are duplicate-free, a round may
\* start only where the chain ends in the list, and so on through every handler.
IInv == Good(lobby)

\* initialize_lobby establishes it.
LEMMA InitIsGood == Init => IInv
<1>1. SUFFICES ASSUME lobby = initial_lobby PROVE Good(initial_lobby)
  BY DEF Init, IInv
<1> DEFINE s == initial_lobby
<1>2. /\ s.roster = [g \in Games |-> new_players] /\ s.game = [p \in Names |-> NoGame]
      /\ s.in_progress = [g \in Games |-> FALSE] /\ s.status = "running"
      /\ s.pfds = {} /\ s.open = {}
  BY DEF initial_lobby
<1>3. /\ IsRoster(new_players, Names) /\ IsSound(new_players)
      /\ Members(new_players) = {}
  <2>1. new_players.list = <<>> /\ new_players.live = <<>>
    BY DEF new_players
  <2>2. IsInjective(<<>>) /\ IsTail(<<>>, <<>>) /\ ToSet(<<>>) = {}
    BY DEF IsInjective, IsTail, ToSet
  <2>3. IsRoster(new_players, Names)
    BY SMT DEF IsRoster, new_players
  <2>. QED  BY <2>1, <2>2, <2>3, Zenon DEF IsSound, Members
<1>4. IsLobby(s)
  <2>. HIDE DEF s
  <2>1. DOMAIN initial_lobby.roster = Games
        /\ \A g \in Games : IsRoster(initial_lobby.roster[g], Names)
    BY <1>3, SMT DEF initial_lobby
  <2>2. GameSize >= 0
    BY ConstantsAssumption
  <2>. QED  BY <2>1, <2>2, SMT DEF IsLobby, initial_lobby, Phases, Roles, Statuses, Mishaps, s
<1>. HIDE DEF s
<1>5. Placed(s)
  <2>1. NoGame \notin Games
    BY DEF Games, NoGame
  <2>2. \A g \in Games : s.roster[g] = new_players
    BY <1>2
  <2>3. \A p \in Names : s.game[p] = NoGame
    BY <1>2
  <2>. QED  BY <1>3, <2>1, <2>2, <2>3, Zenon DEF Placed, IsSound
<1>6. Rotating(s)
  <2>1. \A g \in Games : s.roster[g] = new_players /\ ~s.in_progress[g]
    BY <1>2
  <2>. QED  BY <1>3, <2>1, Zenon DEF Rotating, IsSound
<1>7. Excused(s)
  BY <1>2 DEF Excused
<1>. QED  BY <1>2, <1>4, <1>5, <1>6, <1>7 DEF Good, s

\* Every handler of the poll loop keeps it.
LEMMA NextKeepsGood == IInv /\ [Next]_vars => IInv'
<1> SUFFICES ASSUME Good(lobby), [Next]_vars PROVE Good(lobby')
  BY DEF IInv
<1>1. IsLobby(lobby)
  BY DEF Good
<1>2. ASSUME NEW n \in Names, Connect(n) PROVE Good(lobby')
  <2> DEFINE f == Min(Fds \ lobby.open)
  <2>1. f \in Fds \ lobby.open
    <3>1. lobby.open \in SUBSET Fds /\ lobby.open # Fds
      BY <1>1, <1>2, Zenon DEF Connect, IsLobby
    <3>2. Fds \in SUBSET Nat
      BY ConstantsAssumption DEF Fds
    <3>3. Fds \ lobby.open \in SUBSET Nat /\ Fds \ lobby.open # {}
      BY <3>1, <3>2
    <3>. QED  BY <3>3, MinIsLeast
  <2>2. lobby.status = "running" /\ lobby' \in login(lobby, n, f)
    BY <1>2 DEF Connect, Running
  <2>. HIDE DEF f
  <2>. QED  BY <2>1, <2>2, LoginIsGood
<1>3. ASSUME NEW f \in Fds, Readable(f) PROVE Good(lobby')
  BY <1>3, ReadableIsGood DEF Readable, Running
<1>4. ASSUME NEW g \in Games, EndRound(g) PROVE Good(lobby')
  BY <1>4, EndRoundIsGood DEF EndRound, Running
<1>5. ASSUME NEW g \in Games, Tick(g) PROVE Good(lobby')
  <2> DEFINE later == IF lobby.phase[g] = "countdown" THEN "drawing" ELSE "due"
  <2>1. lobby' = [lobby EXCEPT !.phase = [@ EXCEPT ![g] = later]]
    BY <1>5, Zenon DEF Tick
  <2>2. later \in Phases
    BY DEF Phases
  <2>. HIDE DEF later
  <2>3. IsLobby(lobby')
    BY <1>1, <2>1, <2>2, SMT DEF IsLobby
  <2>4. /\ lobby'.roster = lobby.roster /\ lobby'.game = lobby.game
        /\ lobby'.in_progress = lobby.in_progress /\ lobby'.status = lobby.status
        /\ lobby'.pfds = lobby.pfds /\ lobby'.open = lobby.open
    BY <1>1, <2>1, SMT DEF IsLobby
  <2>5. lobby'.pfds = lobby'.open
    BY <2>4 DEF Good
  <2>. QED  BY <2>3, <2>4, <2>5, GoodByFields
<1>6. CASE UNCHANGED vars
  BY <1>6 DEF vars
<1>. QED  BY <1>2, <1>3, <1>4, <1>5, <1>6 DEF Next

\* The inductive invariant holds in every behaviour.
THEOREM InductiveInvariant == Spec => []IInv
BY InitIsGood, NextKeepsGood, PTL DEF Spec

\* For every number of clients, games and seats: the lobby keeps its type, and no
\* game counts more than game_size seats taken (reassign_player).
THEOREM TypeCorrect == Spec => []TypeOK
<1>1. IInv => TypeOK
  BY DEF IInv, Good, TypeOK
<1>. QED  BY <1>1, InductiveInvariant, PTL

\* Whatever fails within a handler, exactly the open connections are polled
\* afterwards (disconnect_fd, del_from_pfds_by_fd, the closes of failed logins).
THEOREM DescriptorsDoNotLeak == Spec => []NoFdLeak
<1>1. IInv => NoFdLeak
  BY DEF IInv, Good, NoFdLeak
<1>. QED  BY <1>1, InductiveInvariant, PTL

\* Every player is in the list of the game it points at, once, and in no other
\* (reassign_player, add_player, remove_player).
THEOREM PlayersAreInOneGame == Spec => []OneGameEach
<1>1. IInv => OneGameEach
  BY DEF IInv, Good, Placed, OneGameEach
<1>. QED  BY <1>1, InductiveInvariant, PTL

\* The drawing chain of every game ends with the end of its list, and a round in
\* progress has a drawing node to dereference (send_game_in_progress,
\* manage_player_action).
THEOREM DrawingPointerIsSound == Spec => []RotationIsSound
<1>1. IInv => RotationIsSound
  BY DEF IInv, Good, Rotating, RotationIsSound, Running
<1>. QED  BY <1>1, InductiveInvariant, PTL

\* start_round exits the process only in a game whose drawing pointer reaches two
\* nodes or more that reassignments have unlinked.
THEOREM ExitIsExplained == Spec => []ExitNeedsUnlinkedNodes
<1>1. IInv => ExitNeedsUnlinkedNodes
  BY DEF IInv, Good, Excused, ExitNeedsUnlinkedNodes
<1>. QED  BY <1>1, InductiveInvariant, PTL

-----------------------------------------------------------------------------
(* Descriptors and players *)

\* Mapping, of a lobby, and that who is online is in all_players, where
\* get_player_by_fd looks.
Mapped(s) ==
  /\ \A p \in Names : s.is_online[p] =>
       s.fd[p] \in s.pfds /\ s.game[p] # NoGame /\ p \in Known(s)
  /\ \A p \in Names : ~s.is_online[p] => s.fd[p] = NoFd
  /\ \A p, q \in Names : s.is_online[p] /\ s.fd[p] = s.fd[q] => p = q
  /\ \A f \in s.pfds : \E p \in Names : s.fd[p] = f

\* The players online in game g, by the game they point at.
Seats(s, g) == {p \in Names : s.is_online[p] /\ s.game[p] = g}

\* SeatsAreTaken, of a lobby.
Seated(s) == \A g \in Games : s.cur_capacity[g] <= Cardinality(Seats(s, g))

\* A handler that seats nobody.
Keeps(s, t) ==
  /\ t.game = s.game
  /\ t.history = s.history
  /\ Mapped(s) => Mapped(t)
  /\ Seated(s) => Seated(t)

LEMMA KeepsTwice ==
  ASSUME NEW s, NEW t, NEW u, Keeps(s, t), Keeps(t, u)
  PROVE  Keeps(s, u)
BY Zenon DEF Keeps

\* Only these fields matter.
LEMMA KeepsByFields ==
  ASSUME NEW s, NEW t, t.fd = s.fd, t.is_online = s.is_online, t.game = s.game,
         t.pfds = s.pfds, t.all_players = s.all_players, t.history = s.history,
         t.cur_capacity = s.cur_capacity
  PROVE  Keeps(s, t)
<1>1. ASSUME Mapped(s) PROVE Mapped(t)
  <2>1. Known(t) = Known(s)
    BY Zenon DEF Known
  <2>2. \A p \in Names : t.is_online[p] =>
          t.fd[p] \in t.pfds /\ t.game[p] # NoGame /\ p \in Known(t)
    BY <1>1, <2>1, Zenon DEF Mapped
  <2>3. \A p \in Names : ~t.is_online[p] => t.fd[p] = NoFd
    BY <1>1, Zenon DEF Mapped
  <2>4. ASSUME NEW p \in Names, NEW q \in Names, t.is_online[p], t.fd[p] = t.fd[q]
        PROVE  p = q
    <3>1. s.is_online[p] /\ s.fd[p] = s.fd[q]
      BY <2>4, Zenon
    <3>. QED  BY <1>1, <3>1, Zenon DEF Mapped
  <2>5. \A f \in t.pfds : \E p \in Names : t.fd[p] = f
    <3>1. \A f \in s.pfds : \E p \in Names : s.fd[p] = f
      BY <1>1, Zenon DEF Mapped
    <3>. QED  BY <3>1, Zenon
  <2>. QED  BY <2>2, <2>3, <2>4, <2>5, Zenon DEF Mapped
<1>2. Seated(s) => Seated(t)
  BY Zenon DEF Seated, Seats
<1>. QED  BY <1>1, <1>2 DEF Keeps

\* A removal takes descriptors from their players and from pfds alike.
LEMMA RemovalKeeps ==
  ASSUME NEW s, IsLobby(s), NEW S \in SUBSET Names
  PROVE  Keeps(s, Removal(s, S))
<1> DEFINE t == Removal(s, S)
           closed == {s.fd[p] : p \in S}
<1>1. /\ t.fd = [p \in Names |-> IF p \in S THEN NoFd ELSE s.fd[p]]
      /\ t.is_online = [p \in Names |-> p \notin S /\ s.is_online[p]]
      /\ t.pfds = s.pfds \ closed
      /\ t.cur_capacity =
           [g \in Games |-> s.cur_capacity[g] - Cardinality({p \in S : s.game[p] = g})]
  <2> DEFINE fd == [p \in Names |-> IF p \in S THEN NoFd ELSE s.fd[p]]
             online == [p \in Names |-> p \notin S /\ s.is_online[p]]
             fewer == [g \in Games |->
                         s.cur_capacity[g] - Cardinality({p \in S : s.game[p] = g})]
             u == disconnect_fds(s, closed)
  <2>1. t = [u EXCEPT !.is_online = online, !.fd = fd, !.cur_capacity = fewer]
    BY Zenon DEF Removal
  <2>. HIDE DEF fd, online, fewer, t, closed
  <2>2. u.pfds = s.pfds \ closed /\ IsLobby(u)
    <3>1. u.pfds = s.pfds \ closed
      BY SMT DEF disconnect_fds, IsLobby
    <3>. QED  BY <3>1, DisconnectIsCalm
  <2>. HIDE DEF u
  <2>3. t.fd = fd /\ t.is_online = online /\ t.pfds = u.pfds /\ t.cur_capacity = fewer
    BY <2>1, <2>2, SMT DEF IsLobby
  <2>. QED  BY <2>2, <2>3 DEF fd, online, fewer
<1>2. t.game = s.game /\ t.all_players = s.all_players /\ t.history = s.history
  BY RemovalIsCalm DEF Calm
<1>3. s.pfds \in SUBSET Fds /\ NoFd \notin Fds
  BY DEF IsLobby, NoFd, Fds
<1>. HIDE DEF t
<1>4. /\ \A p \in Names : t.fd[p] = IF p \in S THEN NoFd ELSE s.fd[p]
      /\ \A p \in Names : t.is_online[p] <=> p \notin S /\ s.is_online[p]
  BY <1>1
<1>5. ASSUME Mapped(s) PROVE Mapped(t)
  <2>1. ASSUME NEW p \in Names, t.is_online[p]
        PROVE  t.fd[p] \in t.pfds /\ t.game[p] # NoGame /\ p \in Known(t)
    <3>1. p \notin S /\ s.is_online[p] /\ t.fd[p] = s.fd[p]
      BY <1>4, <2>1
    <3>2. s.fd[p] \in s.pfds /\ s.game[p] # NoGame /\ p \in Known(s)
      BY <1>5, <3>1 DEF Mapped
    <3>3. \A q \in S : s.fd[q] # s.fd[p]
      BY <1>5, <3>1 DEF Mapped
    <3>. QED  BY <1>1, <1>2, <3>1, <3>2, <3>3 DEF Known
  <2>2. \A p \in Names : ~t.is_online[p] => t.fd[p] = NoFd
    BY <1>4, <1>5 DEF Mapped
  <2>3. ASSUME NEW p \in Names, NEW q \in Names, t.is_online[p], t.fd[p] = t.fd[q]
        PROVE  p = q
    <3>1. t.fd[p] \in Fds
      BY <1>1, <1>3, <2>1, <2>3
    <3>2. q \notin S
      BY <1>3, <1>4, <2>3, <3>1
    <3>. QED  BY <1>4, <1>5, <2>3, <3>2 DEF Mapped
  <2>4. ASSUME NEW f \in t.pfds PROVE \E p \in Names : t.fd[p] = f
    <3>1. PICK p \in Names : s.fd[p] = f
      BY <1>1, <1>5 DEF Mapped
    <3>2. p \notin S
      BY <1>1, <3>1
    <3>. QED  BY <1>4, <3>1, <3>2
  <2>. QED  BY <2>1, <2>2, <2>3, <2>4 DEF Mapped
<1>6. ASSUME Seated(s), NEW g \in Games
      PROVE  t.cur_capacity[g] <= Cardinality(Seats(t, g))
  <2> DEFINE gone == {p \in S : s.game[p] = g}
  <2>1. /\ IsFiniteSet(Seats(s, g)) /\ IsFiniteSet(Seats(t, g)) /\ IsFiniteSet(gone)
    <3>1. /\ Seats(s, g) \in SUBSET Names /\ Seats(t, g) \in SUBSET Names
          /\ gone \in SUBSET Names
      BY DEF Seats
    <3>. QED  BY <3>1, FS_Subset, ConstantsAssumption
  <2>2. Seats(s, g) \subseteq Seats(t, g) \cup gone
    BY <1>2, <1>4 DEF Seats
  <2>3. t.cur_capacity[g] = s.cur_capacity[g] - Cardinality(gone)
    BY <1>1
  <2>4. s.cur_capacity[g] <= Cardinality(Seats(s, g)) /\ s.cur_capacity[g] \in Int
    BY <1>6 DEF Seated, IsLobby
  <2>. HIDE DEF gone
  <2>5. Cardinality(Seats(s, g)) <= Cardinality(Seats(t, g)) + Cardinality(gone)
    <3>1. /\ IsFiniteSet(Seats(t, g) \cup gone)
          /\ Cardinality(Seats(t, g) \cup gone) =
               Cardinality(Seats(t, g)) + Cardinality(gone) - Cardinality(Seats(t, g) \cap gone)
      BY <2>1, FS_Union
    <3>2. Cardinality(Seats(s, g)) <= Cardinality(Seats(t, g) \cup gone)
      BY <2>2, <3>1, FS_Subset
    <3>3. Cardinality(Seats(t, g) \cap gone) \in Nat
      BY <2>1, FS_Intersection, FS_CardinalityType
    <3>. QED  BY <2>1, <3>1, <3>2, <3>3, FS_CardinalityType
  <2>. QED  BY <2>1, <2>3, <2>4, <2>5, FS_CardinalityType
<1>7. Seated(s) => Seated(t)
  BY <1>6 DEF Seated
<1>. QED  BY <1>2, <1>5, <1>7 DEF Keeps, t

LEMMA BroadcastKeeps ==
  ASSUME NEW s, IsLobby(s), NEW g \in Games, NEW sender_fd,
         NEW t \in broadcast_buffer(s, g, sender_fd)
  PROVE  Keeps(s, t)
<1>1. PICK S \in SUBSET Online(s, g) : t = Removal(s, S)
  BY Zenon DEF broadcast_buffer, Casualties
<1>2. S \in SUBSET Names
  BY <1>1, OnlineAreNames
<1>. QED  BY <1>1, <1>2, RemovalKeeps

LEMMA BroadcastRoleKeeps ==
  ASSUME NEW s, IsLobby(s), NEW g \in Games, NEW sender_fd, NEW role,
         NEW t \in broadcast_role(s, g, sender_fd, role)
  PROVE  Keeps(s, t)
<1>1. PICK u \in broadcast_buffer(s, g, sender_fd) :
        t = [u EXCEPT !.told =
              [f \in Fds |-> IF f # sender_fd /\ \E p \in Online(u, g) : u.fd[p] = f
                             THEN role ELSE u.told[f]]]
  BY Zenon DEF broadcast_role
<1>2. IsLobby(u) /\ Keeps(s, u)
  BY BroadcastIsCalm, BroadcastKeeps
<1> DEFINE told == [f \in Fds |-> IF f # sender_fd /\ \E p \in Online(u, g) : u.fd[p] = f
                                  THEN role ELSE u.told[f]]
<1>3. t = [u EXCEPT !.told = told]
  BY <1>1
<1>. HIDE DEF told
<1>4. /\ t.fd = u.fd /\ t.is_online = u.is_online /\ t.game = u.game
      /\ t.pfds = u.pfds /\ t.all_players = u.all_players /\ t.history = u.history
      /\ t.cur_capacity = u.cur_capacity
  BY <1>2, <1>3, SMT DEF IsLobby
<1>5. Keeps(u, t)
  BY <1>4, KeepsByFields
<1>. QED  BY <1>2, <1>5, KeepsTwice

LEMMA RemoveFromServerKeeps ==
  ASSUME NEW s, IsLobby(s), NEW p \in Names,
         NEW t \in remove_player_from_server(s, p)
  PROVE  Keeps(s, t)
<1> DEFINE u == Removal(s, {p})
<1>1. IsLobby(u) /\ Keeps(s, u)
  BY RemovalIsCalm, RemovalKeeps
<1>2. CASE s.game[p] = NoGame
  BY <1>1, <1>2, Zenon DEF remove_player_from_server
<1>3. CASE s.game[p] # NoGame
  <2>1. s.game[p] \in Games
    BY <1>3 DEF IsLobby
  <2>2. t \in broadcast_buffer(u, s.game[p], NoFd)
    BY <1>3, Zenon DEF remove_player_from_server
  <2>3. Keeps(u, t)
    BY <1>1, <2>1, <2>2, BroadcastKeeps
  <2>. QED  BY <1>1, <2>3, KeepsTwice
<1>. QED  BY <1>2, <1>3

LEMMA StartRoundKeeps ==
  ASSUME NEW s, Good(s), NEW g \in Games, NEW t \in start_round(s, g)
  PROVE  Keeps(s, t)
<1> DEFINE online == {p \in Names : s.is_online[p]}
           r == s.roster[g]
           next == get_next_drawing(r, online)
<1>1. IsLobby(s) /\ IsRoster(r, Names) /\ IsSound(r)
  BY DEF Good, IsLobby, Placed, Rotating, IsSound
<1>2. CASE ~HasNextDrawer(r, online)
  <2>1. t = [s EXCEPT !.in_progress = [@ EXCEPT ![g] = TRUE], !.status = "exited"]
    BY <1>2, Zenon DEF start_round
  <2>2. /\ t.fd = s.fd /\ t.is_online = s.is_online /\ t.game = s.game
        /\ t.pfds = s.pfds /\ t.all_players = s.all_players /\ t.history = s.history
        /\ t.cur_capacity = s.cur_capacity
    BY <1>1, <2>1, SMT DEF IsLobby
  <2>. QED  BY <2>2, KeepsByFields
<1>3. CASE HasNextDrawer(r, online)
  <2> DEFINE u == [s EXCEPT !.in_progress = [@ EXCEPT ![g] = TRUE],
                            !.roster = [@ EXCEPT ![g] = next]]
             drawing_fd == u.fd[Drawer(next)]
             sent == IF drawing_fd \in u.open
                     THEN {[u EXCEPT !.told = [@ EXCEPT ![drawing_fd] = "draw"]]}
                     ELSE {}
  <2>1. IsRoster(next, Names) /\ Drawer(next) \in Names
    BY <1>1, <1>3, NextKeepsSound
  <2>2. PICK v \in sent \cup remove_player_from_server(u, Drawer(next)) :
          t \in broadcast_role(v, g, drawing_fd, "guess")
    BY <1>3, Zenon DEF start_round
  <2>. HIDE DEF next, r, online
  <2>3. IsLobby(u)
    BY <1>1, <2>1, SMT DEF IsLobby
  <2>4. /\ u.fd = s.fd /\ u.is_online = s.is_online /\ u.game = s.game
        /\ u.pfds = s.pfds /\ u.all_players = s.all_players /\ u.history = s.history
        /\ u.cur_capacity = s.cur_capacity
    BY <1>1, SMT DEF IsLobby
  <2>. HIDE DEF u
  <2>5. Keeps(s, u)
    BY <2>4, KeepsByFields
  <2>6. IsLobby(v) /\ Keeps(u, v)
    <3>1. CASE v \in sent
      <4>1. /\ drawing_fd \in u.open
            /\ v = [u EXCEPT !.told = [@ EXCEPT ![drawing_fd] = "draw"]]
        BY <3>1, Zenon
      <4>2. drawing_fd \in Fds
        BY <2>3, <4>1 DEF IsLobby
      <4>. HIDE DEF drawing_fd
      <4>3. /\ v.fd = u.fd /\ v.is_online = u.is_online /\ v.game = u.game
            /\ v.pfds = u.pfds /\ v.all_players = u.all_players /\ v.history = u.history
            /\ v.cur_capacity = u.cur_capacity
        BY <2>3, <4>1, SMT DEF IsLobby
      <4>4. IsLobby(v)
        BY <2>3, <4>1, <4>2, SMT DEF IsLobby, Roles
      <4>. QED  BY <4>3, <4>4, KeepsByFields
    <3>2. CASE v \in remove_player_from_server(u, Drawer(next))
      BY <2>1, <2>3, <3>2, RemoveFromServerIsCalm, RemoveFromServerKeeps
    <3>. QED  BY <2>2, <3>1, <3>2
  <2>7. Keeps(v, t)
    BY <2>2, <2>6, BroadcastRoleKeeps
  <2>8. Keeps(s, v)
    BY <2>5, <2>6, KeepsTwice
  <2>. QED  BY <2>7, <2>8, KeepsTwice
<1>. QED  BY <1>2, <1>3

LEMMA ValidateRoundKeeps ==
  ASSUME NEW s, Good(s), NEW g \in Games, NEW t \in validate_round(s, g)
  PROVE  Keeps(s, t)
<1>0. IsLobby(s) /\ s.pfds = s.open
  BY DEF Good
<1>1. CASE Cardinality(Online(s, g)) < MIN_PLAYERS
  <2>1. t \in broadcast_buffer(s, g, Listener)
    BY <1>1, Zenon DEF validate_round
  <2>. QED  BY <1>0, <2>1, BroadcastKeeps
<1>2. CASE ~(Cardinality(Online(s, g)) < MIN_PLAYERS)
  <2> DEFINE u == [s EXCEPT !.phase = [@ EXCEPT ![g] = "countdown"]]
  <2>1. t \in start_round(u, g)
    BY <1>2, Zenon DEF validate_round
  <2>2. IsLobby(u)
    BY <1>0, SMT DEF IsLobby, Phases
  <2>3. /\ u.roster = s.roster /\ u.in_progress = s.in_progress /\ u.status = s.status
        /\ u.pfds = u.open
        /\ u.fd = s.fd /\ u.is_online = s.is_online /\ u.game = s.game
        /\ u.pfds = s.pfds /\ u.all_players = s.all_players /\ u.history = s.history
        /\ u.cur_capacity = s.cur_capacity
    BY <1>0, SMT DEF IsLobby
  <2>. HIDE DEF u
  <2>4. Good(u)
    BY <2>2, <2>3, GoodByFields
  <2>5. Keeps(s, u)
    BY <2>3, KeepsByFields
  <2>6. Keeps(u, t)
    BY <2>1, <2>4, StartRoundKeeps
  <2>. QED  BY <2>5, <2>6, KeepsTwice
<1>. QED  BY <1>1, <1>2

LEMMA EndRoundKeeps ==
  ASSUME NEW s, Good(s), s.status = "running", NEW g \in Games, NEW t \in end_round(s, g)
  PROVE  Keeps(s, t)
<1> DEFINE stopped == [s EXCEPT !.in_progress = [@ EXCEPT ![g] = FALSE]]
<1>1. PICK u \in broadcast_heartbeat(stopped, g) :
        \E v \in broadcast_role(u, g, Listener, "idle") : t \in validate_round(v, g)
  BY Zenon DEF end_round
<1>2. PICK v \in broadcast_role(u, g, Listener, "idle") : t \in validate_round(v, g)
  BY <1>1
<1>3. IsLobby(s) /\ s.pfds = s.open /\ Placed(s) /\ Rotating(s)
  BY DEF Good
<1>4. IsLobby(stopped)
  BY <1>3, SMT DEF IsLobby
<1>5. /\ stopped.roster = s.roster /\ stopped.status = s.status /\ stopped.open = s.open
      /\ stopped.fd = s.fd /\ stopped.is_online = s.is_online /\ stopped.game = s.game
      /\ stopped.pfds = s.pfds /\ stopped.all_players = s.all_players
      /\ stopped.history = s.history /\ stopped.cur_capacity = s.cur_capacity
      /\ \A h \in Games : stopped.in_progress[h] => s.in_progress[h]
  BY <1>3, SMT DEF IsLobby
<1>. HIDE DEF stopped
<1>6. Keeps(s, stopped)
  BY <1>5, KeepsByFields
<1>7. Good(stopped)
  <2>1. Placed(stopped)
    BY <1>3, <1>5, PlacedByFields
  <2>2. Rotating(stopped)
    BY <1>3, <1>5, Zenon DEF Rotating
  <2>3. Excused(stopped)
    BY <1>5, Zenon DEF Excused, Good
  <2>. QED  BY <1>3, <1>4, <1>5, <2>1, <2>2, <2>3 DEF Good
<1>8. Good(u) /\ Keeps(stopped, u)
  BY <1>1, <1>4, <1>7, GoodBroadcast, BroadcastKeeps DEF broadcast_heartbeat
<1>9. Keeps(u, v) /\ Good(v)
  <2>1. IsLobby(u) /\ "idle" \in Roles
    BY <1>8 DEF Good, Roles
  <2>2. Keeps(u, v)
    BY <1>2, <2>1, BroadcastRoleKeeps
  <2>3. IsLobby(v) /\ Calm(u, v)
    BY <1>2, <2>1, BroadcastRoleIsCalm
  <2>. QED  BY <1>8, <2>2, <2>3, CalmKeepsGood
<1>10. Keeps(v, t)
  BY <1>2, <1>9, ValidateRoundKeeps
<1>. QED  BY <1>6, <1>8, <1>9, <1>10, KeepsTwice

LEMMA SendGameInProgressKeeps ==
  ASSUME NEW s, Good(s), NEW p \in Names, NEW t \in send_game_in_progress(s, p)
  PROVE  Keeps(s, t)
<1>0. IsLobby(s)
  BY DEF Good
<1>1. CASE t \in remove_player_from_server(s, p)
  BY <1>0, <1>1, RemoveFromServerKeeps
<1>2. CASE t \notin remove_player_from_server(s, p)
  <2>1. PICK role \in {"draw", "guess"} :
          s.fd[p] \in s.open /\ t = [s EXCEPT !.told = [@ EXCEPT ![s.fd[p]] = role]]
    BY <1>2, Zenon DEF send_game_in_progress
  <2>2. /\ t.fd = s.fd /\ t.is_online = s.is_online /\ t.game = s.game
        /\ t.pfds = s.pfds /\ t.all_players = s.all_players /\ t.history = s.history
        /\ t.cur_capacity = s.cur_capacity
    BY <1>0, <2>1, SMT DEF IsLobby
  <2>. QED  BY <2>2, KeepsByFields
<1>. QED  BY <1>1, <1>2

\* The listener branch polls the descriptor before anything can fail.
LEMMA WelcomeKeeps ==
  ASSUME NEW s, Seating(s), NEW p \in Names, s.game[p] \in Games,
         s.fd[p] \in Fds, s.open = s.pfds \cup {s.fd[p]},
         NEW t \in welcome(s, p)
  PROVE  Keeps([s EXCEPT !.pfds = @ \cup {s.fd[p]}], t)
<1> DEFINE g == s.game[p]
           polled == [s EXCEPT !.pfds = @ \cup {s.fd[p]}]
<1>1. IsLobby(s) /\ Placed(s) /\ Rotating(s) /\ s.status = "running"
  BY DEF Seating
<1>2. IsLobby(polled)
  BY <1>1, SMT DEF IsLobby
<1>3. /\ polled.roster = s.roster /\ polled.game = s.game
      /\ polled.in_progress = s.in_progress /\ polled.status = s.status
      /\ polled.pfds = s.pfds \cup {s.fd[p]} /\ polled.open = s.open
  BY <1>1, SMT DEF IsLobby
<1>4. \/ t \in remove_player_from_server(polled, p)
      \/ \E u \in broadcast_buffer(polled, g, s.fd[p]) :
           t \in (IF u.in_progress[g] THEN send_game_in_progress(u, p)
                  ELSE validate_round(u, g))
  BY Zenon DEF welcome
<1>. HIDE DEF polled
<1>5. Good(polled)
  <2>1. Placed(polled) /\ Rotating(polled)
    BY <1>1, <1>3, PlacedByFields, RotatingByFields
  <2>2. Excused(polled)
    BY <1>1, <1>3 DEF Excused
  <2>. QED  BY <1>2, <1>3, <2>1, <2>2 DEF Good
<1>6. CASE t \in remove_player_from_server(polled, p)
  BY <1>2, <1>6, RemoveFromServerKeeps DEF polled
<1>7. ASSUME NEW u \in broadcast_buffer(polled, g, s.fd[p]),
             t \in (IF u.in_progress[g] THEN send_game_in_progress(u, p)
                    ELSE validate_round(u, g))
      PROVE  Keeps(polled, t)
  <2>1. Good(u) /\ Keeps(polled, u)
    BY <1>2, <1>5, GoodBroadcast, BroadcastKeeps
  <2>2. Keeps(u, t)
    BY <1>7, <2>1, SendGameInProgressKeeps, ValidateRoundKeeps
  <2>. QED  BY <2>1, <2>2, KeepsTwice
<1>. QED  BY <1>4, <1>6, <1>7 DEF polled

-----------------------------------------------------------------------------
(* Logins and the mapping *)

\* The login of n on f is accepted and not polled yet; everybody else is mapped.
Pending(s, n, f) ==
  /\ s.fd[n] = f /\ s.is_online[n] /\ n \in Known(s)
  /\ f \in Fds /\ f \notin s.pfds
  /\ \A p \in Names \ {n} : s.is_online[p] =>
       s.fd[p] \in s.pfds /\ s.game[p] # NoGame /\ p \in Known(s)
  /\ \A p \in Names \ {n} : ~s.is_online[p] => s.fd[p] = NoFd
  /\ \A p, q \in Names \ {n} : s.is_online[p] /\ s.fd[p] = s.fd[q] => p = q
  /\ \A g \in s.pfds : \E p \in Names \ {n} : s.fd[p] = g

\* What update_players makes of a mapped lobby.
LEMMA UpdateIsPending ==
  ASSUME NEW s, IsLobby(s), Mapped(s), NEW n \in Names, ~s.is_online[n],
         NEW f \in Fds, f \notin s.pfds, NEW u, IsLobby(u),
         u.fd = [s.fd EXCEPT ![n] = f], u.is_online = [s.is_online EXCEPT ![n] = TRUE],
         u.game = s.game, u.pfds = s.pfds, n \in Known(u), Known(s) \subseteq Known(u)
  PROVE  Pending(u, n, f)
<1>1. s.fd \in [Names -> Fds \cup {NoFd}] /\ s.is_online \in [Names -> BOOLEAN]
  BY DEF IsLobby
<1>2. /\ u.fd[n] = f /\ u.is_online[n]
      /\ \A p \in Names \ {n} : u.fd[p] = s.fd[p] /\ u.is_online[p] = s.is_online[p]
  BY <1>1
<1>3. \A p \in Names \ {n} : u.is_online[p] =>
        u.fd[p] \in u.pfds /\ u.game[p] # NoGame /\ p \in Known(u)
  BY <1>2 DEF Mapped
<1>4. \A p \in Names \ {n} : ~u.is_online[p] => u.fd[p] = NoFd
  BY <1>2 DEF Mapped
<1>5. ASSUME NEW p \in Names \ {n}, NEW q \in Names \ {n}, u.is_online[p], u.fd[p] = u.fd[q]
      PROVE  p = q
  <2>1. s.is_online[p] /\ s.fd[p] = s.fd[q]
    BY <1>2, <1>5
  <2>. QED  BY <2>1, Zenon DEF Mapped
<1>6. ASSUME NEW g \in u.pfds PROVE \E p \in Names \ {n} : u.fd[p] = g
  <2>1. PICK p \in Names : s.fd[p] = g
    BY DEF Mapped
  <2>2. s.fd[n] = NoFd /\ NoFd \notin s.pfds
    <3>1. s.fd[n] = NoFd
      BY DEF Mapped
    <3>. QED  BY <3>1 DEF IsLobby, NoFd, Fds
  <2>. QED  BY <1>2, <2>1, <2>2
<1>. QED  BY <1>2, <1>3, <1>4, <1>5, <1>6, Zenon DEF Pending

\* Whoever is found at the new descriptor is the player that logs in.
LEMMA PendingIsFound ==
  ASSUME NEW u, IsLobby(u), NEW n \in Names, NEW f, Pending(u, n, f)
  PROVE  get_player_by_fd(u, f) = n
<1>1. n \in Known(u) /\ u.fd[n] = f /\ f \in Fds /\ f \notin u.pfds
  BY DEF Pending
<1>2. get_player_by_fd(u, f) \in Names /\ u.fd[get_player_by_fd(u, f)] = f
  BY <1>1, PlayerByFd
<1>3. ASSUME NEW p \in Names \ {n} PROVE u.fd[p] # f
  <2>1. u.is_online[p] => u.fd[p] \in u.pfds
    BY DEF Pending
  <2>2. ~u.is_online[p] => u.fd[p] = NoFd
    BY DEF Pending
  <2>3. NoFd \notin Fds
    BY DEF NoFd, Fds
  <2>. QED  BY <1>1, <2>1, <2>2, <2>3
<1>. QED  BY <1>2, <1>3

\* Polled, it is mapped.
LEMMA PolledIsMapped ==
  ASSUME NEW u, IsLobby(u), NEW n \in Names, NEW f, Pending(u, n, f), u.game[n] # NoGame
  PROVE  Mapped([u EXCEPT !.pfds = @ \cup {u.fd[n]}])
<1> DEFINE v == [u EXCEPT !.pfds = @ \cup {u.fd[n]}]
<1>1. /\ v.fd = u.fd /\ v.is_online = u.is_online /\ v.game = u.game
      /\ v.all_players = u.all_players /\ v.pfds = u.pfds \cup {u.fd[n]}
  BY SMT DEF IsLobby
<1>. HIDE DEF v
<1>2. u.fd[n] = f /\ u.is_online[n] /\ n \in Known(u) /\ f \in Fds /\ f \notin u.pfds
  BY DEF Pending
<1>3. Known(v) = Known(u)
  BY <1>1, Zenon DEF Known
<1>4. ASSUME NEW p \in Names \ {n} PROVE u.fd[p] # f
  <2>1. u.is_online[p] => u.fd[p] \in u.pfds
    BY DEF Pending
  <2>2. ~u.is_online[p] => u.fd[p] = NoFd
    BY DEF Pending
  <2>3. NoFd \notin Fds
    BY DEF NoFd, Fds
  <2>. QED  BY <1>2, <2>1, <2>2, <2>3
<1>5. ASSUME NEW p \in Names, v.is_online[p]
      PROVE  v.fd[p] \in v.pfds /\ v.game[p] # NoGame /\ p \in Known(v)
  <2>1. CASE p = n
    BY <1>1, <1>2, <1>3, <2>1
  <2>2. CASE p # n
    <3>1. u.is_online[p] /\ p \in Names \ {n}
      BY <1>1, <1>5, <2>2
    <3>2. u.fd[p] \in u.pfds /\ u.game[p] # NoGame /\ p \in Known(u)
      BY <3>1, Zenon DEF Pending
    <3>. QED  BY <1>1, <1>3, <3>2
  <2>. QED  BY <2>1, <2>2
<1>6. ASSUME NEW p \in Names, ~v.is_online[p] PROVE v.fd[p] = NoFd
  <2>1. ~u.is_online[p] /\ p \in Names \ {n}
    BY <1>1, <1>2, <1>6
  <2>2. u.fd[p] = NoFd
    BY <2>1, Zenon DEF Pending
  <2>. QED  BY <1>1, <2>2
<1>7. ASSUME NEW p \in Names, NEW q \in Names, v.is_online[p], v.fd[p] = v.fd[q]
      PROVE  p = q
  <2>1. u.is_online[p] /\ u.fd[p] = u.fd[q]
    BY <1>1, <1>7
  <2>2. CASE p = n \/ q = n
    BY <1>2, <1>4, <2>1, <2>2
  <2>3. CASE p # n /\ q # n
    <3>1. p \in Names \ {n} /\ q \in Names \ {n}
      BY <2>3
    <3>. QED  BY <2>1, <3>1, Zenon DEF Pending
  <2>. QED  BY <2>2, <2>3
<1>8. ASSUME NEW g \in v.pfds PROVE \E p \in Names : v.fd[p] = g
  BY <1>1, <1>2 DEF Pending
<1>9. Mapped(v)
  BY <1>5, <1>6, <1>7, <1>8, Zenon DEF Mapped
<1>. QED  BY <1>9 DEF v

\* What a seat in a game leaves alone.
LEMMA SeatFields ==
  ASSUME NEW u, Seating(u), NEW p \in Names, FreeGames(u) # {}
  PROVE  LET v == seat(u, p)
         IN  /\ v.fd = u.fd /\ v.is_online = u.is_online /\ v.pfds = u.pfds
             /\ v.all_players = u.all_players /\ u.history \subseteq v.history
             /\ \A q \in Names \ {p} : v.game[q] = u.game[q]
             /\ v.cur_capacity =
                  [u.cur_capacity EXCEPT ![v.game[p]] = u.cur_capacity[v.game[p]] + 1]
             /\ v.in_progress = u.in_progress
<1> DEFINE g == Min(FreeGames(u))
           w == unlink(u, p)
           longer == add_player(w.roster[g], p)
           v == seat(u, p)
           history == IF u.game[p] \in {NoGame, g} THEN w.history
                      ELSE w.history \cup {"displaced"}
<1>1. IsLobby(u) /\ IsLobby(w)
  BY UnlinkIsGood DEF Seating
<1>2. /\ w.fd = u.fd /\ w.is_online = u.is_online /\ w.pfds = u.pfds
      /\ w.all_players = u.all_players /\ w.history = u.history
      /\ w.cur_capacity = u.cur_capacity /\ w.in_progress = u.in_progress
      /\ \A q \in Names \ {p} : w.game[q] = u.game[q]
  BY <1>1, SMT DEF unlink, IsLobby
<1>3. v = [w EXCEPT !.game = [@ EXCEPT ![p] = g],
                    !.cur_capacity = [@ EXCEPT ![g] = w.cur_capacity[g] + 1],
                    !.roster = [@ EXCEPT ![g] = longer],
                    !.history = history]
  BY Zenon DEF seat
<1>4. w.history \subseteq history
  OBVIOUS
<1>. HIDE DEF g, w, longer, history
<1>5. /\ v.fd = w.fd /\ v.is_online = w.is_online /\ v.pfds = w.pfds
      /\ v.all_players = w.all_players /\ v.history = history
      /\ v.game[p] = g /\ v.in_progress = w.in_progress
      /\ v.cur_capacity = [w.cur_capacity EXCEPT ![g] = w.cur_capacity[g] + 1]
      /\ \A q \in Names \ {p} : v.game[q] = w.game[q]
  BY <1>1, <1>3, SMT DEF IsLobby
<1>. HIDE DEF v
<1>. QED  BY <1>2, <1>4, <1>5 DEF v

\* What a login turned away changes.
LEMMA TurnAwayFields ==
  ASSUME NEW u, Seating(u), NEW p \in Names, NEW F
  PROVE  LET v == disconnect_fds(turn_away(u, p), F)
         IN  /\ u.history \subseteq v.history /\ Turned(v.history)
             /\ \A q \in Names \ {p} : v.game[q] = u.game[q]
<1> DEFINE w == unlink(u, p)
           v == turn_away(u, p)
           history == w.history \cup {"turned_away"} \cup
                        (IF u.game[p] = NoGame THEN {} ELSE {"displaced"})
<1>1. IsLobby(u) /\ IsLobby(w)
  BY UnlinkIsGood DEF Seating
<1>2. w.history = u.history /\ \A q \in Names \ {p} : w.game[q] = u.game[q]
  BY <1>1, SMT DEF unlink, IsLobby
<1>3. v = [w EXCEPT !.is_online = [@ EXCEPT ![p] = FALSE], !.history = history]
  BY Zenon DEF turn_away
<1>4. w.history \subseteq history /\ "turned_away" \in history
  OBVIOUS
<1>. HIDE DEF w, history
<1>5. v.history = history /\ v.game = w.game
  BY <1>1, <1>3, SMT DEF IsLobby
<1>6. IsLobby(v)
  BY TurnAwayIsGood DEF Seating
<1>. HIDE DEF v
<1>7. disconnect_fds(v, F).history = v.history /\ disconnect_fds(v, F).game = v.game
  BY <1>6, DisconnectIsCalm DEF Calm
<1>. QED  BY <1>2, <1>4, <1>5, <1>7 DEF v, Turned

\* What update_players writes.
LEMMA UpdateFields ==
  ASSUME NEW s, IsLobby(s), NEW n \in Names, NEW f \in Fds
  PROVE  LET u == update_players(s, n, f)
         IN  /\ u.fd = [s.fd EXCEPT ![n] = f] /\ u.is_online = [s.is_online EXCEPT ![n] = TRUE]
             /\ u.game = s.game /\ u.pfds = s.pfds /\ u.history = s.history
             /\ u.cur_capacity = s.cur_capacity /\ u.in_progress = s.in_progress
             /\ Known(s) \subseteq Known(u)
<1> DEFINE u == update_players(s, n, f)
           known == IF n \in Known(s) THEN s.all_players ELSE <<n>> \o s.all_players
<1>1. u = [s EXCEPT !.all_players = known,
                    !.fd = [@ EXCEPT ![n] = f],
                    !.is_online = [@ EXCEPT ![n] = TRUE]]
  BY Zenon DEF update_players
<1>2. Known(s) \subseteq ToSet(known)
  <2>1. CASE n \in Known(s)
    BY <2>1 DEF Known
  <2>2. CASE n \notin Known(s)
    <3>1. PICK all \in Seq(Names) : all = s.all_players
      BY DEF IsLobby
    <3>2. PICK longer \in Seq(Names) : longer = <<n>> \o all
      BY ConsShape
    <3>3. ASSUME NEW x \in ToSet(all) PROVE x \in ToSet(longer)
      <4>1. PICK i \in 1..Len(all) : all[i] = x
        BY ToSetOfSeq
      <4>2. i + 1 \in 1..Len(longer) /\ longer[i + 1] = x
        BY <3>2, <4>1
      <4>. QED  BY <4>2, ToSetOfSeq
    <3>. QED  BY <2>2, <3>1, <3>2, <3>3, Zenon DEF Known
  <2>. QED  BY <2>1, <2>2
<1>. HIDE DEF known
<1>3. /\ u.fd = [s.fd EXCEPT ![n] = f] /\ u.is_online = [s.is_online EXCEPT ![n] = TRUE]
      /\ u.game = s.game /\ u.pfds = s.pfds /\ u.history = s.history
      /\ u.cur_capacity = s.cur_capacity /\ u.in_progress = s.in_progress
      /\ u.all_players = known
  BY <1>1, SMT DEF IsLobby
<1>. HIDE DEF u
<1>. QED  BY <1>2, <1>3 DEF u, Known

LEMMA PendingByFields ==
  ASSUME NEW u, NEW n \in Names, NEW f, Pending(u, n, f), NEW v,
         v.fd = u.fd, v.is_online = u.is_online, v.pfds = u.pfds,
         v.all_players = u.all_players, \A q \in Names \ {n} : v.game[q] = u.game[q]
  PROVE  Pending(v, n, f)
<1>1. Known(v) = Known(u)
  BY Zenon DEF Known
<1>2. \A p \in Names \ {n} : v.is_online[p] =>
        v.fd[p] \in v.pfds /\ v.game[p] # NoGame /\ p \in Known(v)
  <2>. SUFFICES ASSUME NEW p \in Names \ {n}, u.is_online[p]
                PROVE  v.fd[p] \in v.pfds /\ v.game[p] # NoGame /\ p \in Known(v)
    BY Zenon
  <2>1. u.fd[p] \in u.pfds /\ u.game[p] # NoGame /\ p \in Known(u)
    BY Zenon DEF Pending
  <2>. QED  BY <1>1, <2>1
<1>. QED  BY <1>1, <1>2, Zenon DEF Pending

\* Whoever was online in a game still is: its seats are taken as before.
LEMMA SeatedGrows ==
  ASSUME NEW s, Seated(s), IsLobby(s), NEW u, u.cur_capacity = s.cur_capacity,
         \A q \in Names : s.is_online[q] => u.is_online[q] /\ u.game[q] = s.game[q]
  PROVE  Seated(u)
<1> SUFFICES ASSUME NEW g \in Games
             PROVE  u.cur_capacity[g] <= Cardinality(Seats(u, g))
  BY DEF Seated
<1>1. Seats(u, g) \in SUBSET Names /\ Seats(s, g) \subseteq Seats(u, g)
  BY DEF Seats
<1>2. IsFiniteSet(Seats(u, g))
  BY <1>1, FS_Subset, ConstantsAssumption
<1>3. /\ IsFiniteSet(Seats(s, g))
      /\ Cardinality(Seats(s, g)) <= Cardinality(Seats(u, g))
  BY <1>1, <1>2, FS_Subset
<1>4. s.cur_capacity[g] <= Cardinality(Seats(s, g)) /\ s.cur_capacity[g] \in Int
  BY DEF Seated, IsLobby
<1>. QED  BY <1>2, <1>3, <1>4, FS_CardinalityType

\* Whoever was offline takes the seat that is counted.
LEMMA SeatedTakes ==
  ASSUME NEW s, Seated(s), IsLobby(s), NEW n \in Names, ~s.is_online[n],
         NEW v, v.is_online[n], v.game[n] \in Games,
         \A q \in Names : s.is_online[q] => v.is_online[q] /\ v.game[q] = s.game[q],
         v.cur_capacity = [s.cur_capacity EXCEPT ![v.game[n]] = s.cur_capacity[v.game[n]] + 1]
  PROVE  Seated(v)
<1> SUFFICES ASSUME NEW g \in Games
             PROVE  v.cur_capacity[g] <= Cardinality(Seats(v, g))
  BY DEF Seated
<1>1. /\ Seats(v, g) \in SUBSET Names /\ Seats(s, g) \in SUBSET Names
      /\ Seats(s, g) \subseteq Seats(v, g) /\ n \notin Seats(s, g)
  BY DEF Seats
<1>2. IsFiniteSet(Seats(v, g)) /\ IsFiniteSet(Seats(s, g))
  BY <1>1, FS_Subset, ConstantsAssumption
<1>3. /\ s.cur_capacity[g] <= Cardinality(Seats(s, g))
      /\ s.cur_capacity \in [Games -> Int]
  BY DEF Seated, IsLobby
<1>4. CASE v.game[n] = g
  <2>1. Seats(s, g) \cup {n} \subseteq Seats(v, g)
    BY <1>1, <1>4 DEF Seats
  <2>2. Cardinality(Seats(s, g) \cup {n}) <= Cardinality(Seats(v, g))
    BY <1>2, <2>1, FS_Subset
  <2>3. Cardinality(Seats(s, g) \cup {n}) = Cardinality(Seats(s, g)) + 1
    BY <1>1, <1>2, FS_AddElement
  <2>. QED  BY <1>2, <1>3, <1>4, <2>2, <2>3, FS_CardinalityType
<1>5. CASE v.game[n] # g
  <2>1. v.cur_capacity[g] = s.cur_capacity[g]
    BY <1>3, <1>5
  <2>2. Cardinality(Seats(s, g)) <= Cardinality(Seats(v, g))
    BY <1>1, <1>2, FS_Subset
  <2>. QED  BY <1>2, <1>3, <2>1, <2>2, FS_CardinalityType
<1>. QED  BY <1>4, <1>5

\* A login keeps who was online in its game; and it keeps the mapping, and the seats
\* taken, unless it is turned away, which is remembered for ever.
LEMMA LoginMaps ==
  ASSUME NEW s, Good(s), s.status = "running", NEW n \in Names,
         NEW f \in Fds, f \notin s.open, NEW t \in login(s, n, f)
  PROVE  /\ s.history \subseteq t.history
         /\ Mapped(s) => /\ Turned(t.history) \/ Mapped(t)
                         /\ \A q \in Names : s.is_online[q] => t.game[q] = s.game[q]
                         /\ Seated(s) => Turned(t.history) \/ Seated(t)
<1> DEFINE accepted == [s EXCEPT !.open = @ \cup {f}]
           u == update_players(accepted, n, f)
           p == get_player_by_fd(u, f)
           closed == disconnect_fds(accepted, {f})
<1>1. IsLobby(s) /\ Placed(s) /\ Rotating(s) /\ s.pfds = s.open
  BY DEF Good
<1>2. IsLobby(accepted)
  BY <1>1, SMT DEF IsLobby
<1>3. /\ accepted.roster = s.roster /\ accepted.game = s.game
      /\ accepted.in_progress = s.in_progress /\ accepted.status = "running"
      /\ accepted.pfds = s.pfds /\ accepted.open = s.open \cup {f}
      /\ accepted.fd = s.fd /\ accepted.is_online = s.is_online
      /\ accepted.all_players = s.all_players /\ accepted.history = s.history
      /\ accepted.cur_capacity = s.cur_capacity
  BY <1>1, SMT DEF IsLobby
<1>4. \/ t = closed
      \/ /\ ~s.is_online[n]
         /\ \/ t \in welcome(u, p) /\ ~NeedsGame(u, p)
            \/ FreeGames(u) = {} /\ t = disconnect_fds(turn_away(u, p), {f})
            \/ FreeGames(u) # {} /\ t \in welcome(seat(u, p), p)
  BY Zenon DEF login, already_online
<1>5. closed.pfds = s.pfds
  BY <1>1, <1>2, <1>3, SMT DEF disconnect_fds, IsLobby
<1>. HIDE DEF accepted
<1>6. CASE t = closed
  <2>1. /\ t.fd = s.fd /\ t.is_online = s.is_online /\ t.game = s.game
        /\ t.pfds = s.pfds /\ t.all_players = s.all_players /\ t.history = s.history
        /\ t.cur_capacity = s.cur_capacity
    <3>1. /\ closed.fd = accepted.fd /\ closed.is_online = accepted.is_online
          /\ closed.cur_capacity = accepted.cur_capacity
      BY <1>2, SMT DEF disconnect_fds, IsLobby
    <3>2. Calm(accepted, closed)
      BY <1>2, DisconnectIsCalm
    <3>. HIDE DEF closed
    <3>. QED  BY <1>3, <1>5, <1>6, <3>1, <3>2, Zenon DEF Calm
  <2>2. Keeps(s, t)
    BY <2>1, KeepsByFields
  <2>. QED  BY <2>2 DEF Keeps
<1>7. Seating(accepted)
  BY <1>1, <1>2, <1>3, PlacedByFields, RotatingByFields DEF Seating
<1>8. /\ Seating(u) /\ u.open = s.open \cup {f} /\ u.fd[n] = f /\ n \in Known(u)
      /\ u.fd = [s.fd EXCEPT ![n] = f] /\ u.is_online = [s.is_online EXCEPT ![n] = TRUE]
      /\ u.game = s.game /\ u.pfds = s.pfds /\ u.history = s.history
      /\ u.cur_capacity = s.cur_capacity /\ Known(s) \subseteq Known(u)
  <2>1. Known(accepted) = Known(s)
    BY <1>3, Zenon DEF Known
  <2>2. /\ Seating(u) /\ u.open = accepted.open /\ u.fd[n] = f /\ n \in Known(u)
    BY <1>7, UpdatePlayersIsGood
  <2>3. /\ u.fd = [accepted.fd EXCEPT ![n] = f]
        /\ u.is_online = [accepted.is_online EXCEPT ![n] = TRUE]
        /\ u.game = accepted.game /\ u.pfds = accepted.pfds /\ u.history = accepted.history
        /\ u.cur_capacity = accepted.cur_capacity
        /\ Known(accepted) \subseteq Known(u)
    BY <1>2, UpdateFields
  <2>. HIDE DEF u
  <2>. QED  BY <1>3, <2>1, <2>2, <2>3
<1>9. p \in Names /\ u.fd[p] = f
  <2>1. Seating(u) /\ u.fd[n] = f /\ n \in Known(u)
    BY <1>8, Zenon
  <2>. HIDE DEF u
  <2>. QED  BY <2>1, PlayerByFd DEF Seating
<1>. HIDE DEF u
<1>10. ASSUME Mapped(s), ~s.is_online[n] PROVE Pending(u, n, f) /\ p = n
  <2>1. Pending(u, n, f)
    BY <1>1, <1>8, <1>10, UpdateIsPending DEF Seating
  <2>. QED  BY <1>8, <2>1, PendingIsFound DEF Seating
<1>. HIDE DEF p
<1>11. ASSUME ~s.is_online[n], NEW v, Seating(v), t \in welcome(v, p), v.game[p] \in Games,
              v.fd = u.fd, v.is_online = u.is_online, v.pfds = u.pfds, v.open = u.open,
              v.all_players = u.all_players, u.history \subseteq v.history,
              \A q \in Names \ {p} : v.game[q] = u.game[q],
              Mapped(s) /\ Seated(s) => Seated(v)
       PROVE  /\ s.history \subseteq t.history
              /\ Mapped(s) => /\ Mapped(t)
                              /\ \A q \in Names : s.is_online[q] => t.game[q] = s.game[q]
                              /\ Seated(s) => Seated(t)
  <2> DEFINE polled == [v EXCEPT !.pfds = @ \cup {v.fd[p]}]
  <2>1. Keeps(polled, t)
    <3>1. v.fd[p] \in Fds /\ v.open = v.pfds \cup {v.fd[p]}
      BY <1>1, <1>8, <1>9, <1>11
    <3>. QED  BY <1>9, <1>11, <3>1, WelcomeKeeps
  <2>2. polled.game = v.game /\ polled.history = v.history
    BY <1>11, SMT DEF Seating, IsLobby
  <2>3. t.game = v.game /\ t.history = v.history
    BY <2>1, <2>2 DEF Keeps
  <2>4. s.history \subseteq t.history
    BY <1>8, <1>11, <2>3
  <2>5. ASSUME Mapped(s)
        PROVE  /\ Mapped(t) /\ \A q \in Names : s.is_online[q] => t.game[q] = s.game[q]
               /\ Seated(s) => Seated(t)
    <3>1. Pending(u, n, f) /\ p = n
      BY <1>10, <1>11, <2>5
    <3>2. Pending(v, n, f)
      BY <1>11, <3>1, PendingByFields
    <3>3. v.game[n] # NoGame
      BY <1>11, <3>1 DEF Games, NoGame
    <3>4. Mapped(polled)
      BY <1>11, <3>1, <3>2, <3>3, PolledIsMapped DEF Seating
    <3>5. Mapped(t)
      BY <2>1, <3>4, Zenon DEF Keeps
    <3>6. ASSUME NEW q \in Names, s.is_online[q] PROVE t.game[q] = s.game[q]
      <4>1. q # n
        BY <1>11, <3>6
      <4>. QED  BY <1>8, <1>11, <2>3, <3>1, <4>1
    <3>7. Seated(s) => Seated(t)
      <4>1. /\ polled.is_online = v.is_online /\ polled.game = v.game
            /\ polled.cur_capacity = v.cur_capacity
        BY <1>11, SMT DEF Seating, IsLobby
      <4>. HIDE DEF polled
      <4>2. Seated(v) => Seated(polled)
        BY <4>1, Zenon DEF Seated, Seats
      <4>. QED  BY <1>11, <2>1, <2>5, <4>2, Zenon DEF Keeps
    <3>. QED  BY <3>5, <3>6, <3>7
  <2>. QED  BY <2>4, <2>5
<1>12. CASE ~s.is_online[n] /\ t \in welcome(u, p) /\ ~NeedsGame(u, p)
  <2>1. u.game[p] \in Games
    BY <1>8, <1>9, <1>12 DEF NeedsGame, Seating, IsLobby
  <2>2. Seated(s) => Seated(u)
    <3>1. \A q \in Names : s.is_online[q] => u.is_online[q] /\ u.game[q] = s.game[q]
      BY <1>1, <1>8 DEF IsLobby
    <3>. QED  BY <1>1, <1>8, <3>1, SeatedGrows
  <2>. QED  BY <1>8, <1>11, <1>12, <2>1, <2>2
<1>13. CASE ~s.is_online[n] /\ FreeGames(u) = {} /\ t = disconnect_fds(turn_away(u, p), {f})
  <2>1. /\ u.history \subseteq t.history /\ Turned(t.history)
        /\ \A q \in Names \ {p} : t.game[q] = u.game[q]
    BY <1>8, <1>9, <1>13, TurnAwayFields
  <2>2. ASSUME Mapped(s), NEW q \in Names, s.is_online[q] PROVE t.game[q] = s.game[q]
    <3>1. p = n /\ q # n
      BY <1>10, <1>13, <2>2
    <3>. QED  BY <1>8, <2>1, <3>1
  <2>. QED  BY <1>8, <2>1, <2>2
<1>14. CASE ~s.is_online[n] /\ FreeGames(u) # {} /\ t \in welcome(seat(u, p), p)
  <2> DEFINE v == seat(u, p)
  <2>1. Seating(v) /\ v.game[p] \in Games /\ v.open = u.open
    BY <1>8, <1>9, <1>14, SeatIsGood
  <2>2. /\ v.fd = u.fd /\ v.is_online = u.is_online /\ v.pfds = u.pfds
        /\ v.all_players = u.all_players /\ u.history \subseteq v.history
        /\ \A q \in Names \ {p} : v.game[q] = u.game[q]
        /\ v.cur_capacity =
             [u.cur_capacity EXCEPT ![v.game[p]] = u.cur_capacity[v.game[p]] + 1]
    BY <1>8, <1>9, <1>14, SeatFields
  <2>. HIDE DEF v
  <2>3. t \in welcome(v, p)
    BY <1>14 DEF v
  <2>4. ASSUME Mapped(s), Seated(s) PROVE Seated(v)
    <3>1. p = n
      BY <1>10, <1>14, <2>4
    <3>2. v.is_online[n] /\ v.game[n] \in Games
      BY <1>1, <1>8, <2>1, <2>2, <3>1 DEF IsLobby
    <3>3. \A q \in Names : s.is_online[q] => v.is_online[q] /\ v.game[q] = s.game[q]
      BY <1>1, <1>8, <1>14, <2>2, <3>1 DEF IsLobby
    <3>4. v.cur_capacity = [s.cur_capacity EXCEPT ![v.game[n]] = s.cur_capacity[v.game[n]] + 1]
      BY <1>8, <2>2, <3>1
    <3>. QED  BY <1>1, <1>14, <2>4, <3>2, <3>3, <3>4, SeatedTakes
  <2>. QED  BY <1>11, <1>14, <2>1, <2>2, <2>3, <2>4
<1>. QED  BY <1>4, <1>6, <1>12, <1>13, <1>14

\* The other branch of the poll loop moves nobody, and the segfault it may end in is
\* out of a mapped lobby's reach.
LEMMA ReadableKeeps ==
  ASSUME NEW s, Good(s), NEW f \in s.pfds, NEW t \in readable(s, f)
  PROVE  Keeps(s, t)
<1> DEFINE p == get_player_by_fd(s, f)
           g == s.game[p]
<1>1. IsLobby(s) /\ s.pfds \in SUBSET Fds
  BY DEF Good, IsLobby
<1>2. p # NULL => p \in Names
  BY <1>1, PlayerByFd
<1>3. \/ p = NULL /\ t = disconnect_fds(s, {f})
      \/ p # NULL /\ g = NoGame /\ t = [s EXCEPT !.status = "segfault"]
      \/ p # NULL /\ t \in remove_player_from_server(s, p)
      \/ p # NULL /\ g # NoGame /\ t \in broadcast_buffer(s, g, s.fd[p])
  BY Zenon DEF readable, manage_player_action
<1>4. CASE p = NULL /\ t = disconnect_fds(s, {f})
  <2>1. t.game = s.game /\ t.history = s.history
    <3>1. Calm(s, disconnect_fds(s, {f}))
      BY <1>1, DisconnectIsCalm
    <3>. QED  BY <1>4, <3>1, Zenon DEF Calm
  <2>2. ASSUME Mapped(s) PROVE FALSE
    <3>1. f \in Fds /\ NoFd \notin Fds
      BY <1>1 DEF NoFd, Fds
    <3>2. PICK q \in Names : s.fd[q] = f
      BY <2>2, Zenon DEF Mapped
    <3>3. s.is_online[q]
      BY <2>2, <3>1, <3>2 DEF Mapped
    <3>4. q \in Known(s)
      BY <2>2, <3>3, Zenon DEF Mapped
    <3>. QED  BY <1>1, <1>4, <3>2, <3>4, PlayerByFd
  <2>3. t.is_online = s.is_online /\ t.cur_capacity = s.cur_capacity
    BY <1>1, <1>4, SMT DEF disconnect_fds, IsLobby
  <2>4. Seated(s) => Seated(t)
    BY <2>1, <2>3, Zenon DEF Seated, Seats
  <2>. QED  BY <2>1, <2>2, <2>4 DEF Keeps
<1>5. CASE t = [s EXCEPT !.status = "segfault"]
  <2>1. /\ t.fd = s.fd /\ t.is_online = s.is_online /\ t.game = s.game
        /\ t.pfds = s.pfds /\ t.all_players = s.all_players /\ t.history = s.history
        /\ t.cur_capacity = s.cur_capacity
    BY <1>1, <1>5, SMT DEF IsLobby
  <2>. QED  BY <2>1, KeepsByFields
<1>6. CASE p # NULL /\ t \in remove_player_from_server(s, p)
  BY <1>1, <1>2, <1>6, RemoveFromServerKeeps
<1>7. CASE p # NULL /\ g # NoGame /\ t \in broadcast_buffer(s, g, s.fd[p])
  <2>1. g \in Games
    BY <1>1, <1>2, <1>7 DEF IsLobby
  <2>. QED  BY <1>1, <1>7, <2>1, BroadcastKeeps
<1>. QED  BY <1>3, <1>4, <1>5, <1>6, <1>7

\* The inductive invariant behind FdIdentifiesPlayer and SeatsAreTaken.  It needs IInv,
\* for a connection that is open and not polled could pass for the one that logs in; and
\* the seats need the mapping, for a login would seat the player it mistakes for its own.
MInv == IInv /\ (Turned(lobby.history) \/ (Mapped(lobby) /\ Seated(lobby)))

\* What one step does to the mapping, and to the games of who stays online.
Stays ==
  /\ Turned(lobby.history) => Turned(lobby'.history)
  /\ Mapped(lobby) =>
       /\ Turned(lobby'.history) \/ Mapped(lobby')
       /\ \A p \in Names : lobby.is_online[p] => lobby'.game[p] = lobby.game[p]
       /\ Seated(lobby) => Turned(lobby'.history) \/ Seated(lobby')

LEMMA NextStays == IInv /\ [Next]_vars => Stays
<1> SUFFICES ASSUME Good(lobby), [Next]_vars PROVE Stays
  BY DEF IInv
<1>1. IsLobby(lobby) /\ lobby.pfds = lobby.open
  BY DEF Good
<1>2. ASSUME Keeps(lobby, lobby') PROVE Stays
  BY <1>2, Zenon DEF Keeps, Stays
<1>3. ASSUME NEW n \in Names, Connect(n) PROVE Stays
  <2> DEFINE f == Min(Fds \ lobby.open)
  <2>1. f \in Fds \ lobby.open
    <3>1. lobby.open \in SUBSET Fds /\ lobby.open # Fds
      BY <1>1, <1>3, Zenon DEF Connect, IsLobby
    <3>2. Fds \in SUBSET Nat
      BY ConstantsAssumption DEF Fds
    <3>3. Fds \ lobby.open \in SUBSET Nat /\ Fds \ lobby.open # {}
      BY <3>1, <3>2
    <3>. QED  BY <3>3, MinIsLeast
  <2>2. lobby.status = "running" /\ lobby' \in login(lobby, n, f)
    BY <1>3 DEF Connect, Running
  <2>. HIDE DEF f
  <2>3. /\ lobby.history \subseteq lobby'.history
        /\ Mapped(lobby) =>
             /\ Turned(lobby'.history) \/ Mapped(lobby')
             /\ \A q \in Names : lobby.is_online[q] => lobby'.game[q] = lobby.game[q]
             /\ Seated(lobby) => Turned(lobby'.history) \/ Seated(lobby')
    BY <2>1, <2>2, LoginMaps
  <2>4. Turned(lobby.history) => Turned(lobby'.history)
    BY <2>3 DEF Turned
  <2>. QED  BY <2>3, <2>4, Zenon DEF Stays
<1>4. ASSUME NEW f \in Fds, Readable(f) PROVE Stays
  BY <1>2, <1>4, ReadableKeeps DEF Readable
<1>5. ASSUME NEW g \in Games, EndRound(g) PROVE Stays
  BY <1>2, <1>5, EndRoundKeeps DEF EndRound, Running
<1>6. ASSUME NEW g \in Games, Tick(g) PROVE Stays
  <2> DEFINE later == IF lobby.phase[g] = "countdown" THEN "drawing" ELSE "due"
  <2>1. lobby' = [lobby EXCEPT !.phase = [@ EXCEPT ![g] = later]]
    BY <1>6, Zenon DEF Tick
  <2>. HIDE DEF later
  <2>2. /\ lobby'.fd = lobby.fd /\ lobby'.is_online = lobby.is_online
        /\ lobby'.game = lobby.game /\ lobby'.pfds = lobby.pfds
        /\ lobby'.all_players = lobby.all_players /\ lobby'.history = lobby.history
        /\ lobby'.cur_capacity = lobby.cur_capacity
    BY <1>1, <2>1, SMT DEF IsLobby
  <2>. QED  BY <1>2, <2>2, KeepsByFields
<1>7. CASE UNCHANGED vars
  BY <1>7, Zenon DEF vars, Stays
<1>. QED  BY <1>3, <1>4, <1>5, <1>6, <1>7 DEF Next

LEMMA InitIsMapped == Init => MInv
<1>1. SUFFICES ASSUME lobby = initial_lobby PROVE Mapped(lobby) /\ Seated(lobby)
  BY InitIsGood DEF MInv, Init
<1>2. /\ \A p \in Names : lobby.is_online[p] = FALSE /\ lobby.fd[p] = NoFd
      /\ lobby.pfds = {}
      /\ \A g \in Games : lobby.cur_capacity[g] = 0
  BY <1>1 DEF initial_lobby
<1>3. ASSUME NEW g \in Games PROVE lobby.cur_capacity[g] <= Cardinality(Seats(lobby, g))
  <2>1. Seats(lobby, g) = {}
    BY <1>2 DEF Seats
  <2>. QED  BY <1>2, <2>1, FS_EmptySet
<1>. QED  BY <1>2, <1>3 DEF Mapped, Seated

THEOREM MappingInvariant == Spec => []MInv
<1>1. MInv /\ [Next]_vars => MInv'
  BY NextKeepsGood, NextStays DEF MInv, Stays
<1>. QED  BY <1>1, InitIsMapped, PTL DEF Spec

\* For every number of clients, games and seats, and through every cascade of removals:
\* as long as no login was answered SERVER_FULL, the polled descriptors and the players
\* online are in bijection, which get_player_by_fd relies on.
THEOREM FdsIdentifyPlayers == Spec => []FdIdentifiesPlayer
<1>1. MInv => FdIdentifiesPlayer
  BY Zenon DEF MInv, Mapped, Mapping, FdIdentifiesPlayer
<1>. QED  BY <1>1, MappingInvariant, PTL

\* No seat is counted that nobody holds, through every cascade of removals, as long as no
\* login was answered SERVER_FULL: remove_player_from_server gives back each seat that
\* reassign_player took, in the game where it took it.
THEOREM CountedSeatsAreTaken == Spec => []SeatsAreTaken
<1>1. ASSUME Placed(lobby), NEW g \in Games PROVE Seats(lobby, g) \subseteq Online(lobby, g)
  BY <1>1, Zenon DEF Seats, Placed, Online
<1>2. ASSUME IsLobby(lobby), Placed(lobby), Seated(lobby), NEW g \in Games
      PROVE  lobby.cur_capacity[g] <= Cardinality(Online(lobby, g))
  <2>1. /\ IsFiniteSet(Online(lobby, g)) /\ IsFiniteSet(Seats(lobby, g))
        /\ Cardinality(Seats(lobby, g)) <= Cardinality(Online(lobby, g))
    BY <1>1, <1>2, OnlineAreNames, FS_Subset
  <2>2. /\ lobby.cur_capacity[g] \in Int
        /\ lobby.cur_capacity[g] <= Cardinality(Seats(lobby, g))
    BY <1>2 DEF Seated, IsLobby
  <2>. QED  BY <2>1, <2>2, FS_CardinalityType
<1>3. MInv => SeatsAreTaken
  BY <1>2 DEF MInv, IInv, Good, SeatsAreTaken
<1>. QED  BY <1>3, MappingInvariant, PTL

\* Nothing but its own login moves a player to another game (reassign_player is called
\* by manage_logging_player only, and for a player that is offline).
THEOREM PlayersKeepTheirGame == Spec => PlayersStayPut
<1>1. MInv /\ [Next]_vars =>
        [~Turned(lobby'.history) =>
           \A p \in Names :
             lobby.is_online[p] /\ lobby'.is_online[p] => lobby'.game[p] = lobby.game[p]]_vars
  BY NextStays, Zenon DEF MInv, Stays
<1>. QED  BY <1>1, MappingInvariant, PTL DEF Spec, PlayersStayPut

-----------------------------------------------------------------------------
(* Who draws *)

\* In the games with a round, nothing moves the drawing pointer off its player.
KeepsDrawers(s, t) ==
  \A g \in Games : s.in_progress[g] =>
    /\ t.in_progress[g] /\ t.phase[g] = s.phase[g]
    /\ Drawer(t.roster[g]) = Drawer(s.roster[g])

\* The lists and rounds of all games but g are left alone.
Elsewhere(s, t, g) ==
  \A h \in Games \ {g} :
    /\ t.roster[h] = s.roster[h]
    /\ t.in_progress[h] = s.in_progress[h]
    /\ t.phase[h] = s.phase[h]

\* Somebody else draws in g, if who drew was in its list.
Rotated(s, t, g) ==
  \/ t.status = "exited"
  \/ s.roster[g].dead = <<>> /\ Rotation(s.roster[g]) # <<>> =>
       Drawer(t.roster[g]) # Drawer(s.roster[g])

\* Nobody is online who was not before.
Shrinks(s, t) == \A p \in Names : t.is_online[p] => s.is_online[p]

LEMMA CalmKeepsDrawers ==
  ASSUME NEW s, NEW t, Calm(s, t)
  PROVE  KeepsDrawers(s, t)
BY Zenon DEF Calm, KeepsDrawers

LEMMA KeepsDrawersTwice ==
  ASSUME NEW s, NEW t, NEW u, KeepsDrawers(s, t), KeepsDrawers(t, u)
  PROVE  KeepsDrawers(s, u)
BY Zenon DEF KeepsDrawers

\* What start_round does to the game it is called for, and to no other.
LEMMA StartRoundDraws ==
  ASSUME NEW s, Good(s), NEW g \in Games, NEW t \in start_round(s, g)
  PROVE  /\ Elsewhere(s, t, g) /\ t.phase = s.phase
         /\ t.in_progress[g] /\ Rotated(s, t, g) /\ Shrinks(s, t)
<1> DEFINE online == {p \in Names : s.is_online[p]}
           r == s.roster[g]
           next == get_next_drawing(r, online)
<1>1. IsLobby(s) /\ IsRoster(r, Names) /\ IsSound(r)
  BY DEF Good, IsLobby, Placed, Rotating, IsSound
<1>2. CASE ~HasNextDrawer(r, online)
  <2>1. t = [s EXCEPT !.in_progress = [@ EXCEPT ![g] = TRUE], !.status = "exited"]
    BY <1>2, Zenon DEF start_round
  <2>2. /\ t.roster = s.roster /\ t.phase = s.phase /\ t.is_online = s.is_online
        /\ t.in_progress = [s.in_progress EXCEPT ![g] = TRUE]
        /\ t.status = "exited" /\ s.in_progress \in [Games -> BOOLEAN]
    BY <1>1, <2>1, SMT DEF IsLobby
  <2>. QED  BY <2>2 DEF Elsewhere, Rotated, Shrinks
<1>3. CASE HasNextDrawer(r, online)
  <2> DEFINE u == [s EXCEPT !.in_progress = [@ EXCEPT ![g] = TRUE],
                            !.roster = [@ EXCEPT ![g] = next]]
             drawing_fd == u.fd[Drawer(next)]
             sent == IF drawing_fd \in u.open
                     THEN {[u EXCEPT !.told = [@ EXCEPT ![drawing_fd] = "draw"]]}
                     ELSE {}
  <2>1. IsRoster(next, Names) /\ Drawer(next) \in Names
    BY <1>1, <1>3, NextKeepsSound
  <2>2. PICK v \in sent \cup remove_player_from_server(u, Drawer(next)) :
          t \in broadcast_role(v, g, drawing_fd, "guess")
    BY <1>3, Zenon DEF start_round
  <2>3. r.dead = <<>> /\ Rotation(r) # <<>> => Drawer(next) # Drawer(r)
    BY <1>1, <1>3, NextDrawerDiffers
  <2>. HIDE DEF next, r, online
  <2>4. IsLobby(u)
    BY <1>1, <2>1, SMT DEF IsLobby
  <2>5. /\ u.roster = [s.roster EXCEPT ![g] = next] /\ u.phase = s.phase
        /\ u.in_progress = [s.in_progress EXCEPT ![g] = TRUE]
        /\ u.is_online = s.is_online
    BY <1>1, SMT DEF IsLobby
  <2>. HIDE DEF u
  <2>6. IsLobby(v) /\ Calm(u, v)
    <3>1. CASE v \in sent
      <4>1. /\ drawing_fd \in u.open
            /\ v = [u EXCEPT !.told = [@ EXCEPT ![drawing_fd] = "draw"]]
        BY <3>1, Zenon
      <4>2. drawing_fd \in Fds
        BY <2>4, <4>1 DEF IsLobby
      <4>. HIDE DEF drawing_fd
      <4>. QED  BY <2>4, <4>1, <4>2, SMT DEF IsLobby, Calm, Roles
    <3>2. CASE v \in remove_player_from_server(u, Drawer(next))
      BY <2>1, <2>4, <3>2, RemoveFromServerIsCalm
    <3>. QED  BY <2>2, <3>1, <3>2
  <2>7. Calm(u, t)
    <3>1. "guess" \in Roles
      BY DEF Roles
    <3>2. Calm(v, t)
      BY <2>2, <2>6, <3>1, BroadcastRoleIsCalm
    <3>. QED  BY <2>6, <3>2, CalmTwice
  <2>8. /\ t.roster = [s.roster EXCEPT ![g] = next] /\ t.phase = s.phase
        /\ t.in_progress = [s.in_progress EXCEPT ![g] = TRUE]
        /\ Shrinks(s, t)
    BY <2>5, <2>7, Zenon DEF Calm, Shrinks
  <2>9. DOMAIN s.roster = Games /\ s.in_progress \in [Games -> BOOLEAN]
    BY <1>1 DEF IsLobby
  <2>10. t.roster[g] = next
    BY <2>8, <2>9
  <2>11. Rotated(s, t, g)
    BY <2>3, <2>10, Zenon DEF Rotated, r
  <2>12. Elsewhere(s, t, g)
    BY <2>8, <2>9 DEF Elsewhere
  <2>. QED  BY <2>8, <2>9, <2>11, <2>12
<1>. QED  BY <1>2, <1>3

\* A validation either waits, or starts a round of its game.
LEMMA ValidateRoundDraws ==
  ASSUME NEW s, Good(s), NEW g \in Games, NEW t \in validate_round(s, g)
  PROVE  /\ Elsewhere(s, t, g) /\ Shrinks(s, t)
         /\ \/ Calm(s, t) /\ Cardinality(Online(s, g)) < MIN_PLAYERS
            \/ t.in_progress[g] /\ t.phase[g] = "countdown" /\ Rotated(s, t, g)
<1>0. IsLobby(s) /\ s.pfds = s.open
  BY DEF Good
<1>1. CASE Cardinality(Online(s, g)) < MIN_PLAYERS
  <2>1. t \in broadcast_buffer(s, g, Listener)
    BY <1>1, Zenon DEF validate_round
  <2>2. Calm(s, t)
    BY <1>0, <2>1, BroadcastIsCalm
  <2>3. Elsewhere(s, t, g) /\ Shrinks(s, t)
    BY <2>2, Zenon DEF Calm, Elsewhere, Shrinks
  <2>. QED  BY <1>1, <2>2, <2>3
<1>2. CASE ~(Cardinality(Online(s, g)) < MIN_PLAYERS)
  <2> DEFINE u == [s EXCEPT !.phase = [@ EXCEPT ![g] = "countdown"]]
  <2>1. t \in start_round(u, g)
    BY <1>2, Zenon DEF validate_round
  <2>2. IsLobby(u)
    BY <1>0, SMT DEF IsLobby, Phases
  <2>3. /\ u.roster = s.roster /\ u.in_progress = s.in_progress /\ u.status = s.status
        /\ u.game = s.game /\ u.pfds = u.open /\ u.is_online = s.is_online
        /\ u.phase = [s.phase EXCEPT ![g] = "countdown"]
        /\ s.phase \in [Games -> Phases]
    BY <1>0, SMT DEF IsLobby
  <2>. HIDE DEF u
  <2>4. Good(u)
    BY <2>2, <2>3, GoodByFields
  <2>5. /\ Elsewhere(u, t, g) /\ t.phase = u.phase
        /\ t.in_progress[g] /\ Rotated(u, t, g) /\ Shrinks(u, t)
    BY <2>1, <2>4, StartRoundDraws
  <2>6. Rotated(s, t, g) /\ Shrinks(s, t)
    BY <2>3, <2>5, Zenon DEF Rotated, Shrinks
  <2>7. t.phase[g] = "countdown" /\ \A h \in Games \ {g} : u.phase[h] = s.phase[h]
    BY <2>3, <2>5
  <2>8. Elsewhere(s, t, g)
    <3>1. \A h \in Games \ {g} : s.phase[h] = u.phase[h]
      BY <2>3
    <3>2. Elsewhere(u, t, g) /\ u.roster = s.roster /\ u.in_progress = s.in_progress
      BY <2>3, <2>5
    <3>. QED  BY <3>1, <3>2, Zenon DEF Elsewhere
  <2>. QED  BY <2>5, <2>6, <2>7, <2>8
<1>. QED  BY <1>1, <1>2

\* What the rest of the listener branch does, in a game with a round or without one.
LEMMA WelcomeDraws ==
  ASSUME NEW s, Seating(s), NEW p \in Names, s.game[p] \in Games,
         s.fd[p] \in Fds, s.open = s.pfds \cup {s.fd[p]},
         NEW t \in welcome(s, p)
  PROVE  KeepsDrawers(s, t)
<1> DEFINE g == s.game[p]
           polled == [s EXCEPT !.pfds = @ \cup {s.fd[p]}]
<1>1. IsLobby(s) /\ Placed(s) /\ Rotating(s) /\ s.status = "running"
  BY DEF Seating
<1>2. IsLobby(polled)
  BY <1>1, SMT DEF IsLobby
<1>3. /\ polled.roster = s.roster /\ polled.game = s.game /\ polled.phase = s.phase
      /\ polled.in_progress = s.in_progress /\ polled.status = s.status
      /\ polled.pfds = s.pfds \cup {s.fd[p]} /\ polled.open = s.open
  BY <1>1, SMT DEF IsLobby
<1>4. \/ t \in remove_player_from_server(polled, p)
      \/ \E u \in broadcast_buffer(polled, g, s.fd[p]) :
           t \in (IF u.in_progress[g] THEN send_game_in_progress(u, p)
                  ELSE validate_round(u, g))
  BY Zenon DEF welcome
<1>. HIDE DEF polled
<1>5. Good(polled)
  <2>1. Placed(polled) /\ Rotating(polled)
    BY <1>1, <1>3, PlacedByFields, RotatingByFields
  <2>2. Excused(polled)
    BY <1>1, <1>3 DEF Excused
  <2>. QED  BY <1>2, <1>3, <2>1, <2>2 DEF Good
<1>6. ASSUME KeepsDrawers(polled, t) PROVE KeepsDrawers(s, t)
  BY <1>3, <1>6, Zenon DEF KeepsDrawers
<1>7. CASE t \in remove_player_from_server(polled, p)
  BY <1>2, <1>6, <1>7, RemoveFromServerIsCalm, CalmKeepsDrawers
<1>8. ASSUME NEW u \in broadcast_buffer(polled, g, s.fd[p]),
             t \in (IF u.in_progress[g] THEN send_game_in_progress(u, p)
                    ELSE validate_round(u, g))
      PROVE  KeepsDrawers(polled, t)
  <2>1. Good(u) /\ KeepsDrawers(polled, u)
    BY <1>2, <1>5, GoodBroadcast, BroadcastIsCalm, CalmKeepsDrawers
  <2>2. CASE u.in_progress[g]
    <3>1. KeepsDrawers(u, t)
      BY <1>8, <2>1, <2>2, SendGameInProgressIsCalm, CalmKeepsDrawers
    <3>. QED  BY <2>1, <3>1, KeepsDrawersTwice
  <2>3. CASE ~u.in_progress[g]
    <3>1. Elsewhere(u, t, g)
      BY <1>8, <2>1, <2>3, ValidateRoundDraws
    <3>2. KeepsDrawers(u, t)
      BY <2>3, <3>1, Zenon DEF Elsewhere, KeepsDrawers
    <3>. QED  BY <2>1, <3>2, KeepsDrawersTwice
  <2>. QED  BY <2>2, <2>3
<1>. QED  BY <1>4, <1>6, <1>7, <1>8

\* Leaving a list and joining one does not move a drawing pointer.
LEMMA UnlinkDraws ==
  ASSUME NEW s, Seating(s), NEW p \in Names
  PROVE  KeepsDrawers(s, unlink(s, p))
<1> DEFINE g == s.game[p]
           r == s.roster[g]
           left == remove_player(r, p)
           t == unlink(s, p)
<1>1. IsLobby(s) /\ Rotating(s) /\ s.status = "running"
  BY DEF Seating
<1>2. CASE g = NoGame
  BY <1>2, Zenon DEF unlink, KeepsDrawers
<1>3. CASE g # NoGame
  <2>1. g \in Games
    BY <1>1, <1>3 DEF IsLobby
  <2>2. s.in_progress[g] => Drawer(left) = Drawer(r)
    <3>1. IsRoster(r, Names)
      BY <1>1, <2>1 DEF IsLobby
    <3>2. s.in_progress[g] => Rotation(r) # <<>>
      BY <1>1, <2>1, Zenon DEF Rotating
    <3>. QED  BY <3>1, <3>2, RemoveKeepsDrawer
  <2>3. t = [s EXCEPT !.roster = [@ EXCEPT ![g] = left], !.game = [@ EXCEPT ![p] = NoGame]]
    BY <1>3, Zenon DEF unlink
  <2>. HIDE DEF left
  <2>4. /\ t.roster[g] = left
        /\ \A h \in Games \ {g} : t.roster[h] = s.roster[h]
        /\ t.in_progress = s.in_progress /\ t.phase = s.phase
    BY <1>1, <2>1, <2>3, SMT DEF IsLobby
  <2>. HIDE DEF t
  <2>5. \A h \in Games : s.in_progress[h] => Drawer(t.roster[h]) = Drawer(s.roster[h])
    <3>. SUFFICES ASSUME NEW h \in Games, s.in_progress[h]
                  PROVE  Drawer(t.roster[h]) = Drawer(s.roster[h])
      OBVIOUS
    <3>1. CASE h = g
      BY <2>2, <2>4, <3>1, Zenon
    <3>2. CASE h # g
      <4>1. t.roster[h] = s.roster[h]
        BY <2>4, <3>2
      <4>. QED  BY <4>1, Zenon
    <3>. QED  BY <3>1, <3>2
  <2>6. KeepsDrawers(s, t)
    BY <2>4, <2>5, Zenon DEF KeepsDrawers
  <2>. QED  BY <2>6 DEF t
<1>. QED  BY <1>2, <1>3

LEMMA SeatDraws ==
  ASSUME NEW s, Seating(s), NEW p \in Names, FreeGames(s) # {}
  PROVE  KeepsDrawers(s, seat(s, p))
<1> DEFINE g == Min(FreeGames(s))
           u == unlink(s, p)
           longer == add_player(u.roster[g], p)
           t == seat(s, p)
           history == IF s.game[p] \in {NoGame, g} THEN u.history
                      ELSE u.history \cup {"displaced"}
<1>1. g \in Games
  <2>1. FreeGames(s) \in SUBSET Nat
    BY ConstantsAssumption DEF FreeGames, Games
  <2>2. g \in FreeGames(s)
    BY <2>1, MinIsLeast
  <2>. QED  BY <2>2 DEF FreeGames
<1>2. IsLobby(u) /\ KeepsDrawers(s, u)
  BY UnlinkIsGood, UnlinkDraws DEF Seating
<1>3. t = [u EXCEPT !.game = [@ EXCEPT ![p] = g],
                    !.cur_capacity = [@ EXCEPT ![g] = u.cur_capacity[g] + 1],
                    !.roster = [@ EXCEPT ![g] = longer],
                    !.history = history]
  BY Zenon DEF seat
<1>4. Drawer(longer) = Drawer(u.roster[g])
  <2>1. longer.dead = u.roster[g].dead /\ longer.live = u.roster[g].live
    BY DEF add_player
  <2>. QED  BY <2>1, Zenon DEF Drawer, Rotation
<1>. HIDE DEF g, u, longer, history
<1>5. /\ t.roster[g] = longer
      /\ \A h \in Games \ {g} : t.roster[h] = u.roster[h]
      /\ t.in_progress = u.in_progress /\ t.phase = u.phase
  BY <1>1, <1>2, <1>3, SMT DEF IsLobby
<1>. HIDE DEF t
<1>6. \A h \in Games : Drawer(t.roster[h]) = Drawer(u.roster[h])
  <2>. SUFFICES ASSUME NEW h \in Games PROVE Drawer(t.roster[h]) = Drawer(u.roster[h])
    OBVIOUS
  <2>1. CASE h = g
    BY <1>4, <1>5, <2>1, Zenon
  <2>2. CASE h # g
    <3>1. t.roster[h] = u.roster[h]
      BY <1>5, <2>2
    <3>. QED  BY <3>1, Zenon
  <2>. QED  BY <2>1, <2>2
<1>7. KeepsDrawers(u, t)
  BY <1>5, <1>6, Zenon DEF KeepsDrawers
<1>8. KeepsDrawers(s, t)
  BY <1>2, <1>7, KeepsDrawersTwice
<1>. QED  BY <1>8 DEF t

\* However a login ends, and whomever it takes for its player.
LEMMA LoginDraws ==
  ASSUME NEW s, Good(s), s.status = "running", NEW n \in Names,
         NEW f \in Fds, f \notin s.open, NEW t \in login(s, n, f)
  PROVE  KeepsDrawers(s, t)
<1> DEFINE accepted == [s EXCEPT !.open = @ \cup {f}]
           u == update_players(accepted, n, f)
           p == get_player_by_fd(u, f)
           closed == disconnect_fds(accepted, {f})
<1>1. IsLobby(s) /\ Placed(s) /\ Rotating(s) /\ s.pfds = s.open
  BY DEF Good
<1>2. IsLobby(accepted)
  BY <1>1, SMT DEF IsLobby
<1>3. /\ accepted.roster = s.roster /\ accepted.game = s.game
      /\ accepted.in_progress = s.in_progress /\ accepted.status = "running"
      /\ accepted.pfds = s.pfds /\ accepted.open = s.open \cup {f}
      /\ accepted.phase = s.phase
  BY <1>1, SMT DEF IsLobby
<1>4. \/ t = closed
      \/ t \in welcome(u, p) /\ ~NeedsGame(u, p)
      \/ t = disconnect_fds(turn_away(u, p), {f})
      \/ FreeGames(u) # {} /\ t \in welcome(seat(u, p), p)
  BY Zenon DEF login
<1>. HIDE DEF accepted
<1>5. Seating(accepted)
  BY <1>1, <1>2, <1>3, PlacedByFields, RotatingByFields DEF Seating
<1>6. KeepsDrawers(s, accepted)
  BY <1>3, Zenon DEF KeepsDrawers
<1>7. /\ Seating(u) /\ u.pfds = s.pfds /\ u.open = s.open \cup {f}
      /\ u.fd[n] = f /\ n \in Known(u)
  BY <1>3, <1>5, UpdatePlayersIsGood
<1>8. p \in Names /\ u.fd[p] = f
  BY <1>7, PlayerByFd DEF Seating
<1>9. KeepsDrawers(s, u)
  <2>1. u.roster = accepted.roster /\ u.phase = accepted.phase
        /\ u.in_progress = accepted.in_progress
    BY <1>2, SMT DEF update_players, IsLobby
  <2>. HIDE DEF u
  <2>. QED  BY <1>3, <2>1, Zenon DEF KeepsDrawers
<1>10. CASE t = closed
  <2>1. KeepsDrawers(accepted, t)
    BY <1>2, <1>10, DisconnectIsCalm, CalmKeepsDrawers
  <2>. QED  BY <1>6, <2>1, KeepsDrawersTwice
<1>. HIDE DEF u, p
<1>11. CASE t \in welcome(u, p) /\ ~NeedsGame(u, p)
  <2>1. u.game[p] \in Games
    BY <1>7, <1>8, <1>11 DEF NeedsGame, Seating, IsLobby
  <2>2. u.open = u.pfds \cup {u.fd[p]}
    BY <1>1, <1>7, <1>8
  <2>3. KeepsDrawers(u, t)
    BY <1>7, <1>8, <1>11, <2>1, <2>2, WelcomeDraws
  <2>. QED  BY <1>9, <2>3, KeepsDrawersTwice
<1>12. CASE t = disconnect_fds(turn_away(u, p), {f})
  <2> DEFINE v == turn_away(u, p)
             w == unlink(u, p)
  <2>1. IsLobby(v) /\ IsLobby(w) /\ KeepsDrawers(u, w)
    BY <1>7, <1>8, TurnAwayIsGood, UnlinkIsGood, UnlinkDraws DEF Seating
  <2>2. v.roster = w.roster /\ v.in_progress = w.in_progress /\ v.phase = w.phase
    BY <2>1, SMT DEF turn_away, IsLobby
  <2>. HIDE DEF v, w
  <2>3. KeepsDrawers(w, v)
    BY <2>2, Zenon DEF KeepsDrawers
  <2>4. KeepsDrawers(v, t)
    BY <1>12, <2>1, DisconnectIsCalm, CalmKeepsDrawers DEF v
  <2>. QED  BY <1>9, <2>1, <2>3, <2>4, KeepsDrawersTwice
<1>13. CASE FreeGames(u) # {} /\ t \in welcome(seat(u, p), p)
  <2> DEFINE v == seat(u, p)
  <2>1. /\ Seating(v) /\ v.game[p] \in Games
        /\ v.pfds = u.pfds /\ v.open = u.open /\ v.fd = u.fd
    BY <1>7, <1>8, <1>13, SeatIsGood
  <2>2. KeepsDrawers(u, v)
    BY <1>7, <1>8, <1>13, SeatDraws
  <2>. HIDE DEF v
  <2>3. v.open = v.pfds \cup {v.fd[p]} /\ v.fd[p] \in Fds /\ t \in welcome(v, p)
    BY <1>1, <1>7, <1>8, <1>13, <2>1 DEF v
  <2>4. KeepsDrawers(v, t)
    BY <1>8, <2>1, <2>3, WelcomeDraws
  <2>. QED  BY <1>9, <2>2, <2>4, KeepsDrawersTwice
<1>. QED  BY <1>4, <1>10, <1>11, <1>12, <1>13

LEMMA ReadableDraws ==
  ASSUME NEW s, Good(s), NEW f, NEW t \in readable(s, f)
  PROVE  KeepsDrawers(s, t)
<1> DEFINE p == get_player_by_fd(s, f)
           g == s.game[p]
<1>1. IsLobby(s)
  BY DEF Good
<1>2. p # NULL => p \in Names
  BY <1>1, PlayerByFd
<1>3. \/ t = disconnect_fds(s, {f})
      \/ t = [s EXCEPT !.status = "segfault"]
      \/ p # NULL /\ t \in remove_player_from_server(s, p)
      \/ p # NULL /\ g # NoGame /\ t \in broadcast_buffer(s, g, s.fd[p])
  BY Zenon DEF readable, manage_player_action
<1>4. CASE t = disconnect_fds(s, {f})
  BY <1>1, <1>4, DisconnectIsCalm, CalmKeepsDrawers
<1>5. CASE t = [s EXCEPT !.status = "segfault"]
  <2>1. t.roster = s.roster /\ t.in_progress = s.in_progress /\ t.phase = s.phase
    BY <1>1, <1>5, SMT DEF IsLobby
  <2>. QED  BY <2>1, Zenon DEF KeepsDrawers
<1>6. CASE p # NULL /\ t \in remove_player_from_server(s, p)
  BY <1>1, <1>2, <1>6, RemoveFromServerIsCalm, CalmKeepsDrawers
<1>7. CASE p # NULL /\ g # NoGame /\ t \in broadcast_buffer(s, g, s.fd[p])
  <2>1. g \in Games
    BY <1>1, <1>2, <1>7 DEF IsLobby
  <2>. QED  BY <1>1, <1>7, <2>1, BroadcastIsCalm, CalmKeepsDrawers
<1>. QED  BY <1>3, <1>4, <1>5, <1>6, <1>7

\* The round of g ends, and those of other games do not notice.
LEMMA EndRoundDraws ==
  ASSUME NEW s, Good(s), s.status = "running", NEW g \in Games, NEW t \in end_round(s, g)
  PROVE  /\ Elsewhere(s, t, g)
         /\ t.in_progress[g] => t.phase[g] = "countdown" /\ Rotated(s, t, g)
         /\ ~t.in_progress[g] => Cardinality(Online(t, g)) < MIN_PLAYERS
         /\ Shrinks(s, t) /\ t.game = s.game
<1> DEFINE stopped == [s EXCEPT !.in_progress = [@ EXCEPT ![g] = FALSE]]
<1>1. PICK u \in broadcast_heartbeat(stopped, g) :
        \E v \in broadcast_role(u, g, Listener, "idle") : t \in validate_round(v, g)
  BY Zenon DEF end_round
<1>2. PICK v \in broadcast_role(u, g, Listener, "idle") : t \in validate_round(v, g)
  BY <1>1
<1>3. IsLobby(s) /\ s.pfds = s.open /\ Placed(s) /\ Rotating(s)
  BY DEF Good
<1>4. IsLobby(stopped)
  BY <1>3, SMT DEF IsLobby
<1>5. /\ stopped.roster = s.roster /\ stopped.status = s.status
      /\ stopped.game = s.game /\ stopped.pfds = stopped.open
      /\ stopped.is_online = s.is_online /\ stopped.phase = s.phase
      /\ stopped.in_progress = [s.in_progress EXCEPT ![g] = FALSE]
      /\ s.in_progress \in [Games -> BOOLEAN]
  BY <1>3, SMT DEF IsLobby
<1>. HIDE DEF stopped
<1>6. ~stopped.in_progress[g] /\ \A h \in Games \ {g} : stopped.in_progress[h] = s.in_progress[h]
  BY <1>5
<1>7. Good(stopped)
  <2>1. Placed(stopped)
    BY <1>3, <1>5, PlacedByFields
  <2>2. Rotating(stopped)
    <3>1. \A h \in Games : stopped.in_progress[h] => s.in_progress[h]
      BY <1>5
    <3>. QED  BY <1>3, <1>5, <3>1, Zenon DEF Rotating
  <2>3. Excused(stopped)
    BY <1>5, Zenon DEF Excused, Good
  <2>. QED  BY <1>4, <1>5, <2>1, <2>2, <2>3 DEF Good
<1>8. Good(u) /\ Calm(stopped, u)
  BY <1>1, <1>4, <1>7, GoodBroadcast, BroadcastIsCalm DEF broadcast_heartbeat
<1>9. Good(v) /\ Calm(u, v)
  <2>1. IsLobby(u) /\ "idle" \in Roles
    BY <1>8 DEF Good, Roles
  <2>2. IsLobby(v) /\ Calm(u, v)
    BY <1>2, <2>1, BroadcastRoleIsCalm
  <2>. QED  BY <1>8, <2>2, CalmKeepsGood
<1>10. Calm(stopped, v)
  BY <1>8, <1>9, CalmTwice
<1>11. /\ Elsewhere(v, t, g) /\ Shrinks(v, t)
       /\ \/ Calm(v, t) /\ Cardinality(Online(v, g)) < MIN_PLAYERS
          \/ t.in_progress[g] /\ t.phase[g] = "countdown" /\ Rotated(v, t, g)
  BY <1>2, <1>9, ValidateRoundDraws
<1>12. v.roster = s.roster /\ v.phase = s.phase /\ v.in_progress = stopped.in_progress
       /\ v.game = s.game
  BY <1>5, <1>10, Zenon DEF Calm
<1>13. Elsewhere(s, t, g)
  BY <1>6, <1>11, <1>12, Zenon DEF Elsewhere
<1>14. Shrinks(s, t)
  BY <1>5, <1>10, <1>11, Zenon DEF Calm, Shrinks
<1>15. t.game = s.game
  BY <1>2, <1>9, <1>12, ValidateRoundKeeps DEF Keeps
<1>16. CASE Calm(v, t) /\ Cardinality(Online(v, g)) < MIN_PLAYERS
  <2>2. IsLobby(v)
    BY <1>9 DEF Good
  <2>3. IsFiniteSet(Online(v, g)) /\ Members(v.roster[g]) \in SUBSET Names
    BY <2>2, OnlineAreNames
  <2>1. ~t.in_progress[g] /\ Online(t, g) \subseteq Online(v, g)
    <3>1. /\ t.in_progress = v.in_progress /\ t.roster = v.roster
          /\ \A p \in Names : t.is_online[p] => v.is_online[p]
      BY <1>16 DEF Calm
    <3>2. Members(t.roster[g]) = Members(v.roster[g])
      BY <3>1
    <3>3. ~t.in_progress[g]
      BY <1>6, <1>12, <3>1
    <3>. QED  BY <2>3, <3>1, <3>2, <3>3 DEF Online
  <2>4. /\ IsFiniteSet(Online(t, g))
        /\ Cardinality(Online(t, g)) <= Cardinality(Online(v, g))
    BY <2>1, <2>3, FS_Subset
  <2>5. Cardinality(Online(t, g)) < MIN_PLAYERS
    BY <1>16, <2>3, <2>4, FS_CardinalityType DEF MIN_PLAYERS
  <2>. QED  BY <1>13, <1>14, <1>15, <2>1, <2>5
<1>17. CASE t.in_progress[g] /\ t.phase[g] = "countdown" /\ Rotated(v, t, g)
  <2>1. Rotated(s, t, g)
    BY <1>12, <1>17, Zenon DEF Rotated
  <2>. QED  BY <1>13, <1>14, <1>15, <1>17, <2>1
<1>. QED  BY <1>11, <1>16, <1>17
\* What one step does to the drawing player of a game with a round.
Draws ==
  \A g \in Games : lobby.in_progress[g] /\ lobby'.in_progress[g] =>
    IF NewRound(g) THEN Rotated(lobby, lobby', g)
    ELSE Drawer(lobby'.roster[g]) = Drawer(lobby.roster[g])

LEMMA NextDraws == IInv /\ [Next]_vars => Draws
<1> SUFFICES ASSUME Good(lobby), [Next]_vars PROVE Draws
  BY DEF IInv
<1>1. IsLobby(lobby) /\ lobby.pfds = lobby.open
  BY DEF Good
<1>2. ASSUME KeepsDrawers(lobby, lobby') PROVE Draws
  <2>. SUFFICES ASSUME NEW g \in Games, lobby.in_progress[g]
                PROVE  ~NewRound(g) /\ Drawer(lobby'.roster[g]) = Drawer(lobby.roster[g])
    BY DEF Draws
  <2>1. lobby'.phase[g] = lobby.phase[g] /\ Drawer(lobby'.roster[g]) = Drawer(lobby.roster[g])
    BY <1>2, Zenon DEF KeepsDrawers
  <2>. QED  BY <2>1 DEF NewRound
<1>3. ASSUME NEW n \in Names, Connect(n) PROVE Draws
  <2> DEFINE f == Min(Fds \ lobby.open)
  <2>1. f \in Fds \ lobby.open
    <3>1. lobby.open \in SUBSET Fds /\ lobby.open # Fds
      BY <1>1, <1>3, Zenon DEF Connect, IsLobby
    <3>2. Fds \in SUBSET Nat
      BY ConstantsAssumption DEF Fds
    <3>3. Fds \ lobby.open \in SUBSET Nat /\ Fds \ lobby.open # {}
      BY <3>1, <3>2
    <3>. QED  BY <3>3, MinIsLeast
  <2>2. lobby.status = "running" /\ lobby' \in login(lobby, n, f)
    BY <1>3 DEF Connect, Running
  <2>. HIDE DEF f
  <2>. QED  BY <1>2, <2>1, <2>2, LoginDraws
<1>4. ASSUME NEW f \in Fds, Readable(f) PROVE Draws
  BY <1>2, <1>4, ReadableDraws DEF Readable
<1>5. ASSUME NEW g \in Games, EndRound(g) PROVE Draws
  <2>1. /\ Elsewhere(lobby, lobby', g) /\ lobby.phase[g] = "due"
        /\ lobby'.in_progress[g] =>
             lobby'.phase[g] = "countdown" /\ Rotated(lobby, lobby', g)
    BY <1>5, EndRoundDraws DEF EndRound, Running
  <2>. SUFFICES ASSUME NEW h \in Games, lobby'.in_progress[h]
                PROVE  IF NewRound(h) THEN Rotated(lobby, lobby', h)
                       ELSE Drawer(lobby'.roster[h]) = Drawer(lobby.roster[h])
    BY DEF Draws
  <2>2. CASE h = g
    BY <2>1, <2>2 DEF NewRound
  <2>3. CASE h # g
    <3>1. lobby'.roster[h] = lobby.roster[h] /\ lobby'.phase[h] = lobby.phase[h]
      BY <2>1, <2>3 DEF Elsewhere
    <3>. QED  BY <3>1 DEF NewRound
  <2>. QED  BY <2>2, <2>3
<1>6. ASSUME NEW g \in Games, Tick(g) PROVE Draws
  <2> DEFINE later == IF lobby.phase[g] = "countdown" THEN "drawing" ELSE "due"
  <2>1. lobby' = [lobby EXCEPT !.phase = [@ EXCEPT ![g] = later]]
    BY <1>6, Zenon DEF Tick
  <2>2. later # "countdown"
    OBVIOUS
  <2>. HIDE DEF later
  <2>3. /\ lobby'.roster = lobby.roster
        /\ lobby'.phase = [lobby.phase EXCEPT ![g] = later]
        /\ lobby.phase \in [Games -> Phases]
    BY <1>1, <2>1, SMT DEF IsLobby
  <2>4. \A h \in Games : ~NewRound(h)
    BY <2>2, <2>3 DEF NewRound
  <2>. QED  BY <2>3, <2>4 DEF Draws
<1>7. CASE UNCHANGED vars
  <2>1. lobby' = lobby
    BY <1>7 DEF vars
  <2>. QED  BY <2>1 DEF Draws, NewRound
<1>. QED  BY <1>3, <1>4, <1>5, <1>6, <1>7 DEF Next

\* Whatever happens within a round, to whom and in however deep a cascade, the drawing
\* pointer stays on its player: also when that player is offline, or is unlinked from
\* the list by a login that moves it to another game.
THEOREM DrawerStaysForTheRound == Spec => DrawerStays
<1>1. IInv /\ [Next]_vars =>
        [\A g \in Games :
           lobby.in_progress[g] /\ lobby'.in_progress[g] /\ ~NewRound(g)
           => Drawer(lobby'.roster[g]) = Drawer(lobby.roster[g])]_vars
  BY NextDraws DEF Draws
<1>. QED  BY <1>1, InductiveInvariant, PTL DEF Spec, DrawerStays

\* With two players or any number of them, online in any pattern, get_next_drawing_fd
\* does not choose who has just drawn, unless that node is no longer in the list.
THEOREM NobodyDrawsTwice == Spec => DrawerRotates
<1>1. IInv /\ [Next]_vars =>
        [\A g \in Games :
           /\ lobby.in_progress[g] /\ lobby'.in_progress[g] /\ NewRound(g)
           /\ lobby'.status = "running"
           /\ lobby.roster[g].dead = <<>>
           => Drawer(lobby'.roster[g]) # Drawer(lobby.roster[g])]_vars
  <2> SUFFICES ASSUME IInv, [Next]_vars, ~UNCHANGED vars, NEW g \in Games,
                      lobby.in_progress[g], lobby'.in_progress[g], NewRound(g),
                      lobby'.status = "running", lobby.roster[g].dead = <<>>
               PROVE  Drawer(lobby'.roster[g]) # Drawer(lobby.roster[g])
    OBVIOUS
  <2>1. Rotated(lobby, lobby', g)
    BY NextDraws DEF Draws
  <2>2. lobby.status = "running"
    BY DEF Next, Connect, Readable, EndRound, Tick, Running
  <2>3. Rotation(lobby.roster[g]) # <<>>
    BY <2>2 DEF IInv, Good, Rotating
  <2>. QED  BY <2>1, <2>3 DEF Rotated
<1>. QED  BY <1>1, InductiveInvariant, PTL DEF Spec, DrawerRotates
-----------------------------------------------------------------------------
(* Who waits *)

\* A game without a round has too few players for one, in a running server.
Quiet(s) ==
  s.status = "running" =>
    \A g \in Games : ~s.in_progress[g] => Cardinality(Seats(s, g)) < MIN_PLAYERS

\* The same, not counting n, which has not been welcomed yet.
QuietBut(s, n) ==
  \A g \in Games : ~s.in_progress[g] => Cardinality(Seats(s, g) \ {n}) < MIN_PLAYERS

LEMMA FewerAreFew ==
  ASSUME NEW S \in SUBSET Names, NEW T, T \subseteq S, Cardinality(S) < MIN_PLAYERS
  PROVE  Cardinality(T) < MIN_PLAYERS
<1>1. IsFiniteSet(S)
  BY FS_Subset, ConstantsAssumption
<1>2. IsFiniteSet(T) /\ Cardinality(T) <= Cardinality(S)
  BY <1>1, FS_Subset
<1>. QED  BY <1>1, <1>2, FS_CardinalityType DEF MIN_PLAYERS

\* Who is online in a game is online and in its list.
LEMMA SeatsAreOnline ==
  ASSUME NEW s, IsLobby(s), Placed(s), NEW g \in Games
  PROVE  Seats(s, g) = Online(s, g)
<1>1. Members(s.roster[g]) \in SUBSET Names
  BY OnlineAreNames
<1>2. \A p \in Names : p \in Members(s.roster[g]) <=> s.game[p] = g
  BY Zenon DEF Placed
<1>. QED  BY <1>1, <1>2 DEF Seats, Online

\* Without a round that ends, nobody new can only mean fewer that wait.
LEMMA QuietShrinks ==
  ASSUME NEW s, NEW t, Quiet(s), t.status = "running" => s.status = "running",
         \A g \in Games : ~t.in_progress[g] => ~s.in_progress[g],
         t.game = s.game, Shrinks(s, t)
  PROVE  Quiet(t)
<1> SUFFICES ASSUME t.status = "running", NEW g \in Games, ~t.in_progress[g]
             PROVE  Cardinality(Seats(t, g)) < MIN_PLAYERS
  BY DEF Quiet
<1>1. Seats(s, g) \in SUBSET Names /\ Seats(t, g) \subseteq Seats(s, g)
  BY DEF Seats, Shrinks
<1>2. Cardinality(Seats(s, g)) < MIN_PLAYERS
  BY DEF Quiet
<1>. QED  BY <1>1, <1>2, FewerAreFew

LEMMA CalmKeepsQuiet ==
  ASSUME NEW s, NEW t, Calm(s, t), Quiet(s)
  PROVE  Quiet(t)
<1>1. /\ t.status = s.status /\ t.in_progress = s.in_progress /\ t.game = s.game
      /\ Shrinks(s, t)
  BY Zenon DEF Calm, Shrinks
<1>. QED  BY <1>1, QuietShrinks

\* A removed player is offline, whatever else the removal brings about.
LEMMA RemovedIsOffline ==
  ASSUME NEW s, IsLobby(s), NEW p \in Names, NEW t \in remove_player_from_server(s, p)
  PROVE  ~t.is_online[p]
<1> DEFINE u == Removal(s, {p})
           online == [q \in Names |-> q \notin {p} /\ s.is_online[q]]
           fd == [q \in Names |-> IF q \in {p} THEN NoFd ELSE s.fd[q]]
           fewer == [g \in Games |->
                       s.cur_capacity[g] - Cardinality({q \in {p} : s.game[q] = g})]
           w == disconnect_fds(s, {s.fd[q] : q \in {p}})
<1>1. IsLobby(u)
  BY RemovalIsCalm
<1>2. ~u.is_online[p]
  <2>1. u = [w EXCEPT !.is_online = online, !.fd = fd, !.cur_capacity = fewer]
    BY Zenon DEF Removal
  <2>2. IsLobby(w)
    BY DisconnectIsCalm
  <2>3. ~online[p]
    OBVIOUS
  <2>. HIDE DEF online, fd, fewer, w, u
  <2>4. u.is_online = online
    BY <2>1, <2>2, SMT DEF IsLobby
  <2>. QED  BY <2>3, <2>4
<1>. HIDE DEF u
<1>3. CASE s.game[p] = NoGame
  <2>1. t = u
    BY <1>3, Zenon DEF remove_player_from_server, u
  <2>. QED  BY <1>2, <2>1
<1>4. CASE s.game[p] # NoGame
  <2>1. s.game[p] \in Games
    BY <1>4 DEF IsLobby
  <2>2. t \in broadcast_buffer(u, s.game[p], NoFd)
    BY <1>4, Zenon DEF remove_player_from_server, u
  <2>3. Calm(u, t)
    BY <1>1, <2>1, <2>2, BroadcastIsCalm
  <2>. QED  BY <1>2, <2>3, Zenon DEF Calm
<1>. QED  BY <1>3, <1>4

\* Whoever is welcomed is removed, joins a round, or is counted by validate_round.
LEMMA WelcomeIsQuiet ==
  ASSUME NEW s, Seating(s), NEW p \in Names, s.game[p] \in Games,
         s.fd[p] \in Fds, s.open = s.pfds \cup {s.fd[p]}, QuietBut(s, p),
         NEW t \in welcome(s, p)
  PROVE  Quiet(t)
<1> DEFINE g == s.game[p]
           polled == [s EXCEPT !.pfds = @ \cup {s.fd[p]}]
<1>1. IsLobby(s) /\ Placed(s) /\ Rotating(s) /\ s.status = "running"
  BY DEF Seating
<1>2. IsLobby(polled)
  BY <1>1, SMT DEF IsLobby
<1>3. /\ polled.roster = s.roster /\ polled.game = s.game
      /\ polled.in_progress = s.in_progress /\ polled.status = s.status
      /\ polled.pfds = s.pfds \cup {s.fd[p]} /\ polled.open = s.open
      /\ polled.is_online = s.is_online
  BY <1>1, SMT DEF IsLobby
<1>4. \/ t \in remove_player_from_server(polled, p)
      \/ \E u \in broadcast_buffer(polled, g, s.fd[p]) :
           t \in (IF u.in_progress[g] THEN send_game_in_progress(u, p)
                  ELSE validate_round(u, g))
  BY Zenon DEF welcome
<1>. HIDE DEF polled
<1>5. Good(polled)
  <2>1. Placed(polled) /\ Rotating(polled)
    BY <1>1, <1>3, PlacedByFields, RotatingByFields
  <2>2. Excused(polled)
    BY <1>1, <1>3 DEF Excused
  <2>. QED  BY <1>2, <1>3, <2>1, <2>2 DEF Good
\* A game that p is not counted in.
<1>6. ASSUME NEW h \in Games, ~s.in_progress[h], t.game = s.game, Shrinks(s, t),
             h # g \/ ~t.is_online[p]
      PROVE  Cardinality(Seats(t, h)) < MIN_PLAYERS
  <2>1. /\ Seats(s, h) \ {p} \in SUBSET Names
        /\ Seats(t, h) \subseteq Seats(s, h) \ {p}
    BY <1>6 DEF Seats, Shrinks
  <2>2. Cardinality(Seats(s, h) \ {p}) < MIN_PLAYERS
    BY <1>6 DEF QuietBut
  <2>. QED  BY <2>1, <2>2, FewerAreFew
<1>7. CASE t \in remove_player_from_server(polled, p)
  <2>1. Calm(polled, t) /\ ~t.is_online[p]
    BY <1>2, <1>7, RemoveFromServerIsCalm, RemovedIsOffline
  <2>2. t.game = s.game /\ t.in_progress = s.in_progress /\ Shrinks(s, t)
    BY <1>3, <2>1, Zenon DEF Calm, Shrinks
  <2>. QED  BY <1>6, <2>1, <2>2 DEF Quiet
<1>8. ASSUME NEW u \in broadcast_buffer(polled, g, s.fd[p]),
             t \in (IF u.in_progress[g] THEN send_game_in_progress(u, p)
                    ELSE validate_round(u, g))
      PROVE  Quiet(t)
  <2>1. Good(u) /\ Calm(polled, u)
    BY <1>2, <1>5, <1>8, GoodBroadcast, BroadcastIsCalm
  <2>2. u.game = s.game /\ u.in_progress = s.in_progress /\ Shrinks(s, u)
    BY <1>3, <2>1, Zenon DEF Calm, Shrinks
  <2>3. CASE u.in_progress[g]
    <3>1. Calm(u, t)
      BY <1>8, <2>1, <2>3, SendGameInProgressIsCalm
    <3>2. t.game = s.game /\ t.in_progress = s.in_progress /\ Shrinks(s, t)
      BY <2>2, <3>1, Zenon DEF Calm, Shrinks
    <3>. QED  BY <1>6, <2>2, <2>3, <3>2 DEF Quiet
  <2>4. CASE ~u.in_progress[g]
    <3>1. t \in validate_round(u, g)
      BY <1>8, <2>4
    <3>2. /\ Elsewhere(u, t, g) /\ Shrinks(u, t)
          /\ \/ Calm(u, t) /\ Cardinality(Online(u, g)) < MIN_PLAYERS
             \/ t.in_progress[g]
      BY <2>1, <3>1, ValidateRoundDraws
    <3>3. t.game = s.game
      BY <2>1, <2>2, <3>1, ValidateRoundKeeps DEF Keeps
    <3>4. Shrinks(s, t)
      BY <2>2, <3>2, Zenon DEF Shrinks
    <3>5. ASSUME NEW h \in Games \ {g}, ~t.in_progress[h]
          PROVE  Cardinality(Seats(t, h)) < MIN_PLAYERS
      <4>1. ~s.in_progress[h]
        BY <2>2, <3>2, <3>5 DEF Elsewhere
      <4>. QED  BY <1>6, <3>3, <3>4, <3>5, <4>1
    <3>6. ASSUME ~t.in_progress[g] PROVE Cardinality(Seats(t, g)) < MIN_PLAYERS
      <4>1. Seats(u, g) \in SUBSET Names /\ Seats(t, g) \subseteq Seats(u, g)
        BY <2>2, <3>2, <3>3 DEF Seats, Shrinks
      <4>2. Seats(u, g) = Online(u, g)
        BY <2>1, SeatsAreOnline DEF Good
      <4>. QED  BY <3>2, <3>6, <4>1, <4>2, FewerAreFew
    <3>. QED  BY <3>5, <3>6 DEF Quiet
  <2>. QED  BY <2>3, <2>4
<1>. QED  BY <1>4, <1>7, <1>8

\* A login, of a client that is found at its own descriptor.
LEMMA LoginIsQuiet ==
  ASSUME NEW s, Good(s), Mapped(s), Quiet(s), s.status = "running", NEW n \in Names,
         NEW f \in Fds, f \notin s.open, NEW t \in login(s, n, f)
  PROVE  Turned(t.history) \/ Quiet(t)
<1> DEFINE accepted == [s EXCEPT !.open = @ \cup {f}]
           u == update_players(accepted, n, f)
           p == get_player_by_fd(u, f)
           closed == disconnect_fds(accepted, {f})
<1>1. IsLobby(s) /\ Placed(s) /\ Rotating(s) /\ s.pfds = s.open
  BY DEF Good
<1>2. IsLobby(accepted)
  BY <1>1, SMT DEF IsLobby
<1>3. /\ accepted.roster = s.roster /\ accepted.game = s.game
      /\ accepted.in_progress = s.in_progress /\ accepted.status = s.status
      /\ accepted.pfds = s.pfds /\ accepted.open = s.open \cup {f}
      /\ accepted.fd = s.fd /\ accepted.is_online = s.is_online
      /\ accepted.all_players = s.all_players
  BY <1>1, SMT DEF IsLobby
<1>4. \/ t = closed
      \/ /\ ~s.is_online[n]
         /\ \/ t \in welcome(u, p) /\ ~NeedsGame(u, p)
            \/ t = disconnect_fds(turn_away(u, p), {f})
            \/ FreeGames(u) # {} /\ t \in welcome(seat(u, p), p)
  BY Zenon DEF login, already_online
<1>. HIDE DEF accepted
<1>5. CASE t = closed
  <2>1. Quiet(accepted)
    BY <1>3, QuietShrinks DEF Shrinks
  <2>. QED  BY <1>2, <1>5, <2>1, DisconnectIsCalm, CalmKeepsQuiet
<1>6. Seating(accepted)
  BY <1>1, <1>2, <1>3, PlacedByFields, RotatingByFields DEF Seating
<1>7. /\ Seating(u) /\ u.open = s.open \cup {f} /\ u.fd[n] = f /\ n \in Known(u)
      /\ u.fd = [s.fd EXCEPT ![n] = f] /\ u.is_online = [s.is_online EXCEPT ![n] = TRUE]
      /\ u.game = s.game /\ u.pfds = s.pfds /\ u.in_progress = s.in_progress
      /\ Known(s) \subseteq Known(u)
  <2>1. Known(accepted) = Known(s)
    BY <1>3, Zenon DEF Known
  <2>2. /\ Seating(u) /\ u.open = accepted.open /\ u.fd[n] = f /\ n \in Known(u)
    BY <1>6, UpdatePlayersIsGood
  <2>3. /\ u.fd = [accepted.fd EXCEPT ![n] = f]
        /\ u.is_online = [accepted.is_online EXCEPT ![n] = TRUE]
        /\ u.game = accepted.game /\ u.pfds = accepted.pfds
        /\ u.in_progress = accepted.in_progress
        /\ Known(accepted) \subseteq Known(u)
    BY <1>2, UpdateFields
  <2>. HIDE DEF u
  <2>. QED  BY <1>3, <2>1, <2>2, <2>3
<1>. HIDE DEF u
<1>8. ASSUME ~s.is_online[n] PROVE p = n
  <2>1. Pending(u, n, f)
    BY <1>1, <1>7, <1>8, UpdateIsPending DEF Seating
  <2>. QED  BY <1>7, <2>1, PendingIsFound DEF Seating
<1>. HIDE DEF p
\* The other players of the lobby that n is welcomed to.
<1>9. ASSUME NEW v, v.is_online = u.is_online, v.in_progress = s.in_progress,
             \A q \in Names \ {n} : v.game[q] = s.game[q]
      PROVE  QuietBut(v, n)
  <2> SUFFICES ASSUME NEW g \in Games, ~v.in_progress[g]
               PROVE  Cardinality(Seats(v, g) \ {n}) < MIN_PLAYERS
    BY DEF QuietBut
  <2>1. \A q \in Names \ {n} : v.is_online[q] = s.is_online[q]
    BY <1>1, <1>7, <1>9 DEF IsLobby
  <2>2. Seats(s, g) \in SUBSET Names /\ Seats(v, g) \ {n} \subseteq Seats(s, g)
    BY <1>9, <2>1 DEF Seats
  <2>3. Cardinality(Seats(s, g)) < MIN_PLAYERS
    BY <1>9 DEF Quiet
  <2>. QED  BY <2>2, <2>3, FewerAreFew
<1>10. CASE ~s.is_online[n] /\ t \in welcome(u, p) /\ ~NeedsGame(u, p)
  <2>1. p = n
    BY <1>8, <1>10
  <2>2. u.game[n] \in Games
    BY <1>7, <1>10, <2>1 DEF NeedsGame, Seating, IsLobby
  <2>3. QuietBut(u, n)
    BY <1>7, <1>9
  <2>4. u.open = u.pfds \cup {u.fd[n]}
    BY <1>1, <1>7
  <2>. QED  BY <1>7, <1>10, <2>1, <2>2, <2>3, <2>4, WelcomeIsQuiet
<1>11. CASE ~s.is_online[n] /\ t = disconnect_fds(turn_away(u, p), {f})
  BY <1>7, <1>8, <1>11, TurnAwayFields
<1>12. CASE ~s.is_online[n] /\ FreeGames(u) # {} /\ t \in welcome(seat(u, p), p)
  <2> DEFINE v == seat(u, n)
  <2>1. p = n
    BY <1>8, <1>12
  <2>2. Seating(v) /\ v.game[n] \in Games /\ v.open = u.open
    BY <1>7, <1>12, SeatIsGood
  <2>3. /\ v.fd = u.fd /\ v.is_online = u.is_online /\ v.pfds = u.pfds
        /\ v.in_progress = u.in_progress
        /\ \A q \in Names \ {n} : v.game[q] = u.game[q]
    <3>1. Seating(u) /\ FreeGames(u) # {}
      BY <1>7, <1>12
    <3>. QED  BY <3>1, SeatFields, Zenon
  <2>4. t \in welcome(v, n)
    BY <1>12, <2>1
  <2>. HIDE DEF v
  <2>5. QuietBut(v, n)
    BY <1>7, <1>9, <2>3
  <2>6. v.open = v.pfds \cup {v.fd[n]} /\ v.fd[n] \in Fds
    BY <1>1, <1>7, <2>2, <2>3
  <2>. QED  BY <2>2, <2>4, <2>5, <2>6, WelcomeIsQuiet
<1>. QED  BY <1>4, <1>5, <1>10, <1>11, <1>12

LEMMA ReadableIsQuiet ==
  ASSUME NEW s, Good(s), Quiet(s), NEW f, NEW t \in readable(s, f)
  PROVE  Quiet(t)
<1> DEFINE p == get_player_by_fd(s, f)
           g == s.game[p]
<1>1. IsLobby(s)
  BY DEF Good
<1>2. p # NULL => p \in Names
  BY <1>1, PlayerByFd
<1>3. \/ t = disconnect_fds(s, {f})
      \/ t = [s EXCEPT !.status = "segfault"]
      \/ p # NULL /\ t \in remove_player_from_server(s, p)
      \/ p # NULL /\ g # NoGame /\ t \in broadcast_buffer(s, g, s.fd[p])
  BY Zenon DEF readable, manage_player_action
<1>4. CASE t = disconnect_fds(s, {f})
  BY <1>1, <1>4, DisconnectIsCalm, CalmKeepsQuiet
<1>5. CASE t = [s EXCEPT !.status = "segfault"]
  <2>1. t.status # "running"
    BY <1>1, <1>5, SMT DEF IsLobby
  <2>. QED  BY <2>1 DEF Quiet
<1>6. CASE p # NULL /\ t \in remove_player_from_server(s, p)
  BY <1>1, <1>2, <1>6, RemoveFromServerIsCalm, CalmKeepsQuiet
<1>7. CASE p # NULL /\ g # NoGame /\ t \in broadcast_buffer(s, g, s.fd[p])
  <2>1. g \in Games
    BY <1>1, <1>2, <1>7 DEF IsLobby
  <2>. QED  BY <1>1, <1>7, <2>1, BroadcastIsCalm, CalmKeepsQuiet
<1>. QED  BY <1>3, <1>4, <1>5, <1>6, <1>7

\* A round that ends is followed by another one, or leaves too few players for it.
LEMMA EndRoundIsQuiet ==
  ASSUME NEW s, Good(s), Quiet(s), s.status = "running", NEW g \in Games,
         NEW t \in end_round(s, g)
  PROVE  Quiet(t)
<1>1. /\ Elsewhere(s, t, g) /\ Shrinks(s, t) /\ t.game = s.game
      /\ ~t.in_progress[g] => Cardinality(Online(t, g)) < MIN_PLAYERS
  BY EndRoundDraws
<1>2. IsLobby(t) /\ Placed(t)
  BY EndRoundIsGood DEF Good
<1>3. ASSUME ~t.in_progress[g] PROVE Cardinality(Seats(t, g)) < MIN_PLAYERS
  BY <1>1, <1>2, <1>3, SeatsAreOnline
<1>4. ASSUME NEW h \in Games \ {g}, ~t.in_progress[h]
      PROVE  Cardinality(Seats(t, h)) < MIN_PLAYERS
  <2>1. ~s.in_progress[h]
    BY <1>1, <1>4 DEF Elsewhere
  <2>2. Cardinality(Seats(s, h)) < MIN_PLAYERS
    BY <1>4, <2>1 DEF Quiet
  <2>3. Seats(s, h) \in SUBSET Names /\ Seats(t, h) \subseteq Seats(s, h)
    BY <1>1 DEF Seats, Shrinks
  <2>. QED  BY <2>2, <2>3, FewerAreFew
<1>. QED  BY <1>3, <1>4 DEF Quiet

\* The inductive invariant behind NobodyWaitsNeedlessly: a login validates the game of
\* the player that it finds, which must be the one that has logged in.
QInv == MInv /\ (Turned(lobby.history) \/ Quiet(lobby))

LEMMA NextIsQuiet == QInv /\ [Next]_vars => Turned(lobby'.history) \/ Quiet(lobby')
<1> SUFFICES ASSUME QInv, [Next]_vars, ~Turned(lobby'.history) PROVE Quiet(lobby')
  OBVIOUS
<1>0. Stays
  BY NextStays DEF QInv, MInv
<1>1. Good(lobby) /\ Mapped(lobby) /\ Quiet(lobby) /\ IsLobby(lobby)
  BY <1>0 DEF QInv, MInv, IInv, Good, Stays
<1>2. ASSUME NEW n \in Names, Connect(n) PROVE Quiet(lobby')
  <2> DEFINE f == Min(Fds \ lobby.open)
  <2>1. f \in Fds \ lobby.open
    <3>1. lobby.open \in SUBSET Fds /\ lobby.open # Fds
      BY <1>1, <1>2, Zenon DEF Connect, IsLobby
    <3>2. Fds \in SUBSET Nat
      BY ConstantsAssumption DEF Fds
    <3>3. Fds \ lobby.open \in SUBSET Nat /\ Fds \ lobby.open # {}
      BY <3>1, <3>2
    <3>. QED  BY <3>3, MinIsLeast
  <2>2. lobby.status = "running" /\ lobby' \in login(lobby, n, f)
    BY <1>2 DEF Connect, Running
  <2>. HIDE DEF f
  <2>. QED  BY <1>1, <2>1, <2>2, LoginIsQuiet
<1>3. ASSUME NEW f \in Fds, Readable(f) PROVE Quiet(lobby')
  BY <1>1, <1>3, ReadableIsQuiet DEF Readable
<1>4. ASSUME NEW g \in Games, EndRound(g) PROVE Quiet(lobby')
  BY <1>1, <1>4, EndRoundIsQuiet DEF EndRound, Running
<1>5. ASSUME NEW g \in Games, Tick(g) PROVE Quiet(lobby')
  <2> DEFINE later == IF lobby.phase[g] = "countdown" THEN "drawing" ELSE "due"
  <2>1. lobby' = [lobby EXCEPT !.phase = [@ EXCEPT ![g] = later]]
    BY <1>5, Zenon DEF Tick
  <2>. HIDE DEF later
  <2>2. /\ lobby'.is_online = lobby.is_online /\ lobby'.game = lobby.game
        /\ lobby'.status = lobby.status /\ lobby'.in_progress = lobby.in_progress
    BY <1>1, <2>1, SMT DEF IsLobby
  <2>3. Shrinks(lobby, lobby')
    BY <2>2, Zenon DEF Shrinks
  <2>. QED  BY <1>1, <2>2, <2>3, QuietShrinks
<1>6. CASE UNCHANGED vars
  BY <1>1, <1>6 DEF vars
<1>. QED  BY <1>2, <1>3, <1>4, <1>5, <1>6 DEF Next

LEMMA InitIsQuiet == Init => QInv
<1>1. SUFFICES ASSUME lobby = initial_lobby PROVE Quiet(lobby)
  BY InitIsMapped DEF QInv, Init
<1>2. \A p \in Names : lobby.is_online[p] = FALSE
  BY <1>1 DEF initial_lobby
<1>3. \A g \in Games : Seats(lobby, g) = {}
  BY <1>2 DEF Seats
<1>. QED  BY <1>3, FS_EmptySet DEF Quiet, MIN_PLAYERS

THEOREM QuietInvariant == Spec => []QInv
<1>1. QInv /\ [Next]_vars => QInv'
  <2> SUFFICES ASSUME QInv, [Next]_vars PROVE QInv'
    OBVIOUS
  <2>1. MInv'
    BY NextKeepsGood, NextStays DEF QInv, MInv, Stays
  <2>2. Turned(lobby'.history) \/ Quiet(lobby')
    BY NextIsQuiet
  <2>. QED  BY <2>1, <2>2 DEF QInv
<1>. QED  BY <1>1, InitIsQuiet, PTL DEF Spec

\* As long as no login was answered SERVER_FULL, a handler never returns with
\* MIN_PLAYERS players or more waiting in a game without a round: whoever joins
\* (validate_round after a login) or stays (validate_round after end_round) starts one,
\* whatever fails on the way.
THEOREM NobodyWaits == Spec => []NobodyWaitsNeedlessly
<1>1. ASSUME IsLobby(lobby), Placed(lobby), Quiet(lobby), lobby.status = "running",
             NEW g \in Games, ~lobby.in_progress[g]
      PROVE  Cardinality(Online(lobby, g)) < MIN_PLAYERS
  BY <1>1, SeatsAreOnline DEF Quiet
<1>2. QInv => NobodyWaitsNeedlessly
  BY <1>1 DEF QInv, MInv, IInv, Good, NobodyWaitsNeedlessly, Running
<1>. QED  BY <1>2, QuietInvariant, PTL
-----------------------------------------------------------------------------
(* Whom a handler reaches *)

\* Nobody but players of game g loses its connection.
FallsIn(s, t, g) ==
  \A p \in Names : s.is_online[p] /\ ~t.is_online[p] => s.game[p] = g

\* Player p, if it is online, was so before and has been told nothing new.
Untold(s, t, p) ==
  t.is_online[p] => /\ s.is_online[p] /\ t.fd[p] = s.fd[p]
                    /\ t.told[t.fd[p]] = s.told[s.fd[p]]

\* A step that only removes players, and those of game g.
Cuts(s, t, g) == FallsIn(s, t, g) /\ \A p \in Names : Untold(s, t, p)

LEMMA CutsTwice ==
  ASSUME NEW s, NEW t, NEW u, NEW g, t.game = s.game, Cuts(s, t, g), Cuts(t, u, g)
  PROVE  Cuts(s, u, g)
<1>1. FallsIn(s, u, g)
  BY SMT DEF Cuts, FallsIn
<1>2. \A p \in Names : Untold(s, u, p)
  BY SMT DEF Cuts, Untold
<1>. QED  BY <1>1, <1>2, Zenon DEF Cuts

\* The descriptors of the players online are their own.
LEMMA FdsAreApart ==
  ASSUME NEW s, IsLobby(s), Mapped(s), NEW p \in Names, s.is_online[p]
  PROVE  /\ s.fd[p] \in Fds
         /\ \A q \in Names : s.fd[q] = s.fd[p] => q = p
BY DEF Mapped, IsLobby

\* A removal closes the descriptors of those it removes, and tells nobody else anything.
LEMMA RemovalCuts ==
  ASSUME NEW s, IsLobby(s), Mapped(s), NEW S \in SUBSET Names, NEW g,
         \A p \in S : s.is_online[p] => s.game[p] = g
  PROVE  Cuts(s, Removal(s, S), g)
<1> DEFINE t == Removal(s, S)
           closed == {s.fd[p] : p \in S}
           fd == [p \in Names |-> IF p \in S THEN NoFd ELSE s.fd[p]]
           online == [p \in Names |-> p \notin S /\ s.is_online[p]]
           fewer == [h \in Games |->
                       s.cur_capacity[h] - Cardinality({p \in S : s.game[p] = h})]
           told == [f \in Fds |-> IF f \in closed THEN "idle" ELSE s.told[f]]
           u == disconnect_fds(s, closed)
<1>1. t = [u EXCEPT !.is_online = online, !.fd = fd, !.cur_capacity = fewer]
  BY Zenon DEF Removal
<1>2. \A p \in Names : fd[p] = IF p \in S THEN NoFd ELSE s.fd[p]
  OBVIOUS
<1>3. \A p \in Names : online[p] <=> p \notin S /\ s.is_online[p]
  OBVIOUS
<1>4. \A f \in Fds \ closed : told[f] = s.told[f]
  OBVIOUS
<1>5. \A p \in S : s.fd[p] \in closed
  OBVIOUS
<1>6. \A f \in closed : \E p \in S : f = s.fd[p]
  OBVIOUS
<1>7. IsLobby(u) /\ u = [s EXCEPT !.open = @ \ closed, !.pfds = @ \ closed, !.told = told]
  BY DisconnectIsCalm, Zenon DEF disconnect_fds
<1>. HIDE DEF fd, online, fewer, told, closed, t, u
<1>8. u.told = told
  BY <1>7, SMT DEF IsLobby
<1>9. t.fd = fd /\ t.is_online = online /\ t.told = told
  BY <1>1, <1>7, <1>8, SMT DEF IsLobby
<1>10. FallsIn(s, t, g)
  BY <1>3, <1>9, Zenon DEF FallsIn
<1>11. ASSUME NEW p \in Names, t.is_online[p]
       PROVE  s.is_online[p] /\ t.fd[p] = s.fd[p] /\ t.told[t.fd[p]] = s.told[s.fd[p]]
  <2>1. p \notin S /\ s.is_online[p]
    BY <1>3, <1>9, <1>11, Zenon
  <2>2. t.fd[p] = s.fd[p]
    BY <1>2, <1>9, <2>1, Zenon
  <2>3. s.fd[p] \in Fds /\ \A q \in Names : s.fd[q] = s.fd[p] => q = p
    BY <2>1, FdsAreApart
  <2>4. s.fd[p] \notin closed
    BY <1>6, <2>1, <2>3
  <2>. QED  BY <1>4, <1>9, <2>1, <2>2, <2>3, <2>4
<1>. QED  BY <1>10, <1>11, Zenon DEF Cuts, Untold, t

\* A broadcast reaches into no other game, with all the removals in it.
LEMMA BroadcastCuts ==
  ASSUME NEW s, IsLobby(s), Placed(s), Mapped(s), NEW g \in Games, NEW sender_fd,
         NEW t \in broadcast_buffer(s, g, sender_fd)
  PROVE  Cuts(s, t, g)
<1>1. PICK S \in SUBSET Online(s, g) : t = Removal(s, S)
  BY Zenon DEF broadcast_buffer, Casualties
<1>2. S \in SUBSET Names
  BY <1>1, OnlineAreNames
<1>3. \A p \in S : s.game[p] = g
  <2>1. \A p \in S : p \in Members(s.roster[g])
    BY <1>1, Zenon DEF Online
  <2>. QED  BY <1>2, <2>1, Zenon DEF Placed
<1>. QED  BY <1>1, <1>2, <1>3, RemovalCuts

\* Removing a player reaches into its own game only.
LEMMA RemoveFromServerCuts ==
  ASSUME NEW s, IsLobby(s), Placed(s), Mapped(s), NEW p \in Names,
         NEW t \in remove_player_from_server(s, p)
  PROVE  Cuts(s, t, s.game[p])
<1> DEFINE u == Removal(s, {p})
           g == s.game[p]
<1>1. IsLobby(u) /\ Calm(s, u) /\ Mapped(u)
  BY RemovalIsCalm, RemovalKeeps DEF Keeps
<1>2. Cuts(s, u, g)
  BY RemovalCuts
<1>3. CASE g = NoGame
  BY <1>2, <1>3, Zenon DEF remove_player_from_server
<1>4. CASE g # NoGame
  <2>1. g \in Games
    BY <1>4 DEF IsLobby
  <2>2. t \in broadcast_buffer(u, g, NoFd)
    BY <1>4, Zenon DEF remove_player_from_server
  <2>3. u.game = s.game /\ Placed(u)
    BY <1>1, PlacedByFields DEF Calm
  <2>4. Cuts(u, t, g)
    BY <1>1, <2>1, <2>2, <2>3, BroadcastCuts
  <2>. QED  BY <1>2, <2>3, <2>4, CutsTwice
<1>. QED  BY <1>3, <1>4

\* A broadcast of roles tells the role to everyone left in its game but the sender.
LEMMA BroadcastRoleTells ==
  ASSUME NEW s, IsLobby(s), Placed(s), Mapped(s), NEW g \in Games, NEW sender_fd,
         NEW role \in Roles, NEW t \in broadcast_role(s, g, sender_fd, role)
  PROVE  /\ FallsIn(s, t, g)
         /\ \A p \in Names :
              IF s.game[p] = g /\ s.fd[p] # sender_fd
              THEN t.is_online[p] => s.is_online[p] /\ t.told[t.fd[p]] = role
              ELSE Untold(s, t, p)
<1>1. PICK u \in broadcast_buffer(s, g, sender_fd) :
        t = [u EXCEPT !.told =
              [f \in Fds |-> IF f # sender_fd /\ \E p \in Online(u, g) : u.fd[p] = f
                             THEN role ELSE u.told[f]]]
  BY Zenon DEF broadcast_role
<1> DEFINE reached == {f \in Fds : f # sender_fd /\ \E p \in Online(u, g) : u.fd[p] = f}
           told == [f \in Fds |-> IF f \in reached THEN role ELSE u.told[f]]
<1>2. IsLobby(u) /\ Calm(s, u) /\ Mapped(u) /\ Cuts(s, u, g)
  BY BroadcastIsCalm, BroadcastKeeps, BroadcastCuts DEF Keeps
<1>3. u.game = s.game /\ Placed(u)
  BY <1>2, PlacedByFields DEF Calm
<1>4. t = [u EXCEPT !.told = told]
  BY <1>1
<1>5. \A f \in Fds : told[f] = IF f \in reached THEN role ELSE u.told[f]
  OBVIOUS
<1>. HIDE DEF told
<1>6. t.fd = u.fd /\ t.is_online = u.is_online /\ t.told = told
  BY <1>2, <1>4, SMT DEF IsLobby
<1>7. FallsIn(s, t, g)
  BY <1>2, <1>6, Zenon DEF Cuts, FallsIn
<1>8. ASSUME NEW p \in Names, t.is_online[p]
      PROVE  /\ s.is_online[p] /\ t.fd[p] = s.fd[p]
             /\ t.told[t.fd[p]] =
                  IF s.game[p] = g /\ s.fd[p] # sender_fd THEN role ELSE s.told[s.fd[p]]
  <2>1. u.is_online[p] /\ s.is_online[p] /\ u.fd[p] = s.fd[p]
        /\ u.told[u.fd[p]] = s.told[s.fd[p]]
    BY <1>2, <1>6, <1>8 DEF Cuts, Untold
  <2>2. u.fd[p] \in Fds /\ \A q \in Names : u.fd[q] = u.fd[p] => q = p
    BY <1>2, <2>1, FdsAreApart
  <2>3. p \in Online(u, g) <=> s.game[p] = g
    <3>1. p \in Members(u.roster[g]) <=> u.game[p] = g
      BY <1>3, Zenon DEF Placed
    <3>. QED  BY <1>3, <2>1, <3>1 DEF Online
  <2>4. Online(u, g) \in SUBSET Names
    BY <1>2, OnlineAreNames
  <2>5. u.fd[p] \in reached <=> s.game[p] = g /\ s.fd[p] # sender_fd
    BY <2>1, <2>2, <2>3, <2>4
  <2>. HIDE DEF reached
  <2>. QED  BY <1>5, <1>6, <2>1, <2>2, <2>5
<1>. QED  BY <1>7, <1>8 DEF Untold

\* Being told nothing new twice.
LEMMA UntoldTwice ==
  ASSUME NEW s, NEW t, NEW u, NEW p, Untold(s, t, p), Untold(t, u, p)
  PROVE  Untold(s, u, p)
BY SMT DEF Untold

\* Player p is sent a message with its role.
Tell(s, p, role) == [s EXCEPT !.told = [@ EXCEPT ![s.fd[p]] = role]]

\* A message to one player is not seen by another.
LEMMA TellOne ==
  ASSUME NEW s, IsLobby(s), Mapped(s), NEW p \in Names, s.fd[p] \in Fds,
         NEW role \in Roles, NEW t, t = Tell(s, p, role)
  PROVE  /\ IsLobby(t) /\ Calm(s, t) /\ Mapped(t)
         /\ t.is_online = s.is_online /\ t.fd = s.fd
         /\ t.told[s.fd[p]] = role
         /\ \A q \in Names \ {p} : Untold(s, t, q)
<1> DEFINE f == s.fd[p]
<1>1. /\ IsLobby(t) /\ Calm(s, t)
      /\ t.is_online = s.is_online /\ t.fd = s.fd /\ t.game = s.game /\ t.pfds = s.pfds
      /\ t.all_players = s.all_players /\ t.history = s.history
      /\ t.cur_capacity = s.cur_capacity
      /\ t.told = [s.told EXCEPT ![f] = role] /\ s.told \in [Fds -> Roles]
  <2>1. t = [s EXCEPT !.told = [@ EXCEPT ![f] = role]]
    BY Zenon DEF Tell
  <2> HIDE DEF f
  <2>. QED  BY <2>1, SMT DEF IsLobby, Calm, f
<1>2. Mapped(t)
  BY <1>1, KeepsByFields DEF Keeps
<1>3. ASSUME NEW q \in Names \ {p}, t.is_online[q] PROVE t.told[t.fd[q]] = s.told[s.fd[q]]
  <2>1. s.fd[q] \in Fds /\ s.fd[q] # f
    BY <1>1, <1>3, FdsAreApart
  <2>. QED  BY <1>1, <2>1
<1>. QED  BY <1>1, <1>2, <1>3 DEF Untold

\* The unlinked nodes of a game are those of players who are back in its list.
Own(s) == \A g \in Games : ToSet(s.roster[g].dead) \subseteq Members(s.roster[g])

\* RolesAgree, of one player of a lobby.
Agrees(s, p) ==
  s.is_online[p] /\ s.in_progress[s.game[p]] =>
    s.told[s.fd[p]] = IF p = Drawer(s.roster[s.game[p]]) THEN "draw" ELSE "guess"

\* start_round tells every player of its game what to do, and reaches nobody else.
LEMMA StartRoundTells ==
  ASSUME NEW s, Good(s), Mapped(s), Own(s), NEW g \in Games, NEW t \in start_round(s, g)
  PROVE  /\ FallsIn(s, t, g) /\ Own(t)
         /\ \A p \in Names : IF s.game[p] = g THEN t.status = "running" => Agrees(t, p)
                             ELSE Untold(s, t, p)
<1> DEFINE online == {p \in Names : s.is_online[p]}
           r == s.roster[g]
           next == get_next_drawing(r, online)
<1>1. IsLobby(s) /\ IsRoster(r, Names) /\ IsSound(r) /\ Placed(s)
  BY DEF Good, IsLobby, Placed, Rotating, IsSound
<1>2. CASE ~HasNextDrawer(r, online)
  <2>1. t = [s EXCEPT !.in_progress = [@ EXCEPT ![g] = TRUE], !.status = "exited"]
    BY <1>2, Zenon DEF start_round
  <2>2. /\ t.roster = s.roster /\ t.is_online = s.is_online /\ t.fd = s.fd
        /\ t.told = s.told /\ t.status = "exited"
    BY <1>1, <2>1, SMT DEF IsLobby
  <2>3. Own(t)
    BY <2>2, Zenon DEF Own
  <2>. QED  BY <2>2, <2>3 DEF FallsIn, Untold
<1>3. CASE HasNextDrawer(r, online)
  <2> DEFINE u == [s EXCEPT !.in_progress = [@ EXCEPT ![g] = TRUE],
                            !.roster = [@ EXCEPT ![g] = next]]
             d == Drawer(next)
             drawing_fd == u.fd[d]
             sent == IF drawing_fd \in u.open
                     THEN {[u EXCEPT !.told = [@ EXCEPT ![drawing_fd] = "draw"]]}
                     ELSE {}
  <2>1. /\ IsRoster(next, Names) /\ IsSound(next) /\ next.list = r.list
        /\ Rotation(next) # <<>> /\ d \in online
    BY <1>1, <1>3, NextKeepsSound
  <2>2. PICK v \in sent \cup remove_player_from_server(u, d) :
          t \in broadcast_role(v, g, drawing_fd, "guess")
    BY <1>3, Zenon DEF start_round
  <2>3. ToSet(next.dead) \subseteq Members(next) /\ Members(next) = Members(r)
    <3>1. ToSet(next.dead) \subseteq ToSet(r.dead)
      BY <1>1, NextLeavesDead
    <3>2. ToSet(r.dead) \subseteq Members(r)
      BY DEF Own
    <3>3. Members(next) = Members(r)
      BY <2>1, Zenon DEF Members
    <3>. QED  BY <3>1, <3>2, <3>3
  <2>4. d \in Names /\ s.game[d] = g
    <3>1. d \in Members(next)
      BY <2>1, <2>3, DrawerHasNode
    <3>. QED  BY <1>1, <2>1, <2>3, <3>1 DEF Placed
  <2>. HIDE DEF next, r, online
  <2>5. IsLobby(u)
    BY <1>1, <2>1, SMT DEF IsLobby
  <2>6. /\ u.roster = [s.roster EXCEPT ![g] = next]
        /\ u.in_progress = [s.in_progress EXCEPT ![g] = TRUE]
        /\ u.is_online = s.is_online /\ u.fd = s.fd /\ u.told = s.told
        /\ u.game = s.game /\ u.pfds = s.pfds /\ u.all_players = s.all_players
        /\ u.history = s.history /\ u.cur_capacity = s.cur_capacity
        /\ DOMAIN s.roster = Games /\ DOMAIN s.in_progress = Games
    BY <1>1, SMT DEF IsLobby
  <2>. HIDE DEF u, d
  <2>7. Mapped(u)
    BY <2>6, KeepsByFields DEF Keeps
  <2>8. /\ u.roster[g] = next /\ u.in_progress[g]
        /\ \A h \in Games \ {g} : u.roster[h] = s.roster[h]
    BY <2>6
  <2>9. Placed(u)
    <3>1. \A h \in Games : IsInjective(u.roster[h].list)
      BY <1>1, <2>1, <2>8, Zenon DEF Placed, IsSound
    <3>2. \A h \in Games : Members(u.roster[h]) = Members(s.roster[h])
      BY <2>3, <2>8, Zenon DEF r
    <3>3. \A h \in Games : \A p \in Names : p \in Members(u.roster[h]) <=> u.game[p] = h
      BY <1>1, <2>6, <3>2, SMT DEF Placed
    <3>. QED  BY <3>1, <3>3, Zenon DEF Placed
  <2>10. Own(u)
    <3> SUFFICES ASSUME NEW h \in Games
                 PROVE  ToSet(u.roster[h].dead) \subseteq Members(u.roster[h])
      BY DEF Own
    <3>1. CASE h = g
      BY <2>3, <2>8, <3>1
    <3>2. CASE h # g
      BY <2>8, <3>2, SMT DEF Own
    <3>. QED  BY <3>1, <3>2
  <2>11. /\ IsLobby(v) /\ Calm(u, v) /\ Mapped(v) /\ FallsIn(u, v, g)
         /\ \A q \in Names \ {d} : Untold(u, v, q)
         /\ v.is_online[d] => v.told[v.fd[d]] = "draw" /\ v.fd[d] = drawing_fd
    <3>1. CASE v \in sent
      <4>1. /\ drawing_fd \in u.open
            /\ v = [u EXCEPT !.told = [@ EXCEPT ![drawing_fd] = "draw"]]
        BY <3>1, Zenon
      <4>2. drawing_fd \in Fds /\ "draw" \in Roles
        BY <2>5, <4>1 DEF IsLobby, Roles
      <4>3. /\ IsLobby(v) /\ Calm(u, v) /\ Mapped(v)
            /\ v.is_online = u.is_online /\ v.fd = u.fd
            /\ v.told[u.fd[d]] = "draw"
            /\ \A q \in Names \ {d} : Untold(u, v, q)
        <5>1. /\ IsLobby(u) /\ Mapped(u) /\ d \in Names /\ u.fd[d] \in Fds
              /\ v = Tell(u, d, "draw")
          BY <2>4, <2>5, <2>7, <4>1, <4>2, Zenon DEF Tell
        <5>. HIDE DEF sent, drawing_fd
        <5>. QED  BY <4>2, <5>1, TellOne
      <4>. QED  BY <4>3 DEF FallsIn
    <3>2. CASE v \in remove_player_from_server(u, d)
      <4>1. IsLobby(v) /\ Calm(u, v) /\ Mapped(v)
        BY <2>4, <2>5, <2>7, <3>2, RemoveFromServerIsCalm, RemoveFromServerKeeps DEF Keeps
      <4>2. Cuts(u, v, g)
        BY <2>4, <2>5, <2>6, <2>7, <2>9, <3>2, RemoveFromServerCuts
      <4>3. ~v.is_online[d]
        BY <2>4, <2>5, <3>2, RemovedIsOffline
      <4>. QED  BY <4>1, <4>2, <4>3 DEF Cuts
    <3>. QED  BY <2>2, <3>1, <3>2
  <2>12. v.game = s.game /\ v.roster = u.roster /\ v.in_progress = u.in_progress /\ Placed(v)
    BY <2>6, <2>9, <2>11, PlacedByFields DEF Calm
  <2>13. "guess" \in Roles
    BY DEF Roles
  <2>14. Calm(v, t) /\ FallsIn(v, t, g)
    BY <2>2, <2>11, <2>12, <2>13, BroadcastRoleIsCalm, BroadcastRoleTells
  <2>15. \A p \in Names :
           IF v.game[p] = g /\ v.fd[p] # drawing_fd
           THEN t.is_online[p] => v.is_online[p] /\ t.told[t.fd[p]] = "guess"
           ELSE Untold(v, t, p)
    BY <2>2, <2>11, <2>12, <2>13, BroadcastRoleTells
  <2>16. t.roster = u.roster /\ t.in_progress = u.in_progress /\ t.game = s.game
    BY <2>12, <2>14 DEF Calm
  <2>17. FallsIn(s, t, g)
    BY <2>6, <2>11, <2>12, <2>14, SMT DEF FallsIn
  <2>18. Own(t)
    BY <2>10, <2>16, Zenon DEF Own
  <2>19. ASSUME NEW p \in Names, s.game[p] = g, t.is_online[p]
         PROVE  t.told[t.fd[p]] = IF p = d THEN "draw" ELSE "guess"
    <3>1. CASE p = d
      <4>1. v.is_online[d]
        BY <2>14, <2>19, <3>1 DEF Calm
      <4>2. Untold(v, t, d)
        BY <2>4, <2>11, <2>15, <4>1
      <4>. QED  BY <2>11, <2>19, <3>1, <4>1, <4>2 DEF Untold
    <3>2. CASE p # d
      <4>1. v.is_online[p]
        BY <2>14, <2>19 DEF Calm
      <4>2. u.is_online[p] /\ v.fd[p] = u.fd[p]
        BY <2>11, <3>2, <4>1 DEF Untold
      <4>3. u.fd[d] # u.fd[p]
        BY <2>4, <2>5, <2>7, <3>2, <4>2, FdsAreApart
      <4>. QED  BY <2>12, <2>15, <2>19, <3>2, <4>2, <4>3
    <3>. QED  BY <3>1, <3>2
  <2>20. ASSUME NEW p \in Names, s.game[p] # g PROVE Untold(s, t, p)
    <3>1. Untold(s, u, p)
      BY <2>6 DEF Untold
    <3>2. Untold(u, v, p)
      BY <2>4, <2>11, <2>20
    <3>3. Untold(v, t, p)
      BY <2>12, <2>15, <2>20
    <3>. QED  BY <3>1, <3>2, <3>3, UntoldTwice
  <2>21. \A p \in Names : s.game[p] = g => Agrees(t, p)
    <3>1. d = Drawer(t.roster[g])
      BY <2>8, <2>16, Zenon DEF d
    <3>. QED  BY <2>16, <2>19, <3>1 DEF Agrees
  <2>. QED  BY <2>17, <2>18, <2>20, <2>21
<1>. QED  BY <1>2, <1>3

\* Who is told nothing new still agrees, as long as the round and its drawing player stay.
LEMMA AgreesStill ==
  ASSUME NEW s, NEW t, NEW p, Untold(s, t, p), t.game[p] = s.game[p], Agrees(s, p),
         t.in_progress[s.game[p]] => /\ s.in_progress[s.game[p]]
                                     /\ Drawer(t.roster[s.game[p]]) = Drawer(s.roster[s.game[p]])
  PROVE  Agrees(t, p)
BY SMT DEF Untold, Agrees

\* The lists decide which unlinked nodes there are.
LEMMA OwnByRoster ==
  ASSUME NEW s, Own(s), NEW t, t.roster = s.roster
  PROVE  Own(t)
BY Zenon DEF Own

\* validate_round leaves every player of its game with the role it plays, if a round
\* runs then, and reaches nobody else.
LEMMA ValidateRoundTells ==
  ASSUME NEW s, Good(s), Mapped(s), Own(s), NEW g \in Games, ~s.in_progress[g],
         NEW t \in validate_round(s, g)
  PROVE  /\ FallsIn(s, t, g) /\ Own(t)
         /\ \A p \in Names : IF s.game[p] = g THEN t.status = "running" => Agrees(t, p)
                             ELSE Untold(s, t, p)
<1>0. IsLobby(s) /\ s.pfds = s.open /\ Placed(s)
  BY DEF Good
<1>1. CASE Cardinality(Online(s, g)) < MIN_PLAYERS
  <2>1. t \in broadcast_buffer(s, g, Listener)
    BY <1>1, Zenon DEF validate_round
  <2>2. Calm(s, t) /\ Cuts(s, t, g)
    BY <1>0, <2>1, BroadcastIsCalm, BroadcastCuts
  <2>3. t.game = s.game /\ t.in_progress = s.in_progress /\ Own(t)
    BY <2>2, OwnByRoster DEF Calm
  <2>4. \A p \in Names : s.game[p] = g => Agrees(t, p)
    BY <2>3 DEF Agrees
  <2>. QED  BY <2>2, <2>3, <2>4 DEF Cuts
<1>2. CASE ~(Cardinality(Online(s, g)) < MIN_PLAYERS)
  <2> DEFINE u == [s EXCEPT !.phase = [@ EXCEPT ![g] = "countdown"]]
  <2>1. t \in start_round(u, g)
    BY <1>2, Zenon DEF validate_round
  <2>2. IsLobby(u)
    BY <1>0, SMT DEF IsLobby, Phases
  <2>3. /\ u.roster = s.roster /\ u.in_progress = s.in_progress /\ u.status = s.status
        /\ u.game = s.game /\ u.pfds = u.open /\ u.is_online = s.is_online
        /\ u.fd = s.fd /\ u.pfds = s.pfds /\ u.all_players = s.all_players
        /\ u.history = s.history /\ u.cur_capacity = s.cur_capacity /\ u.told = s.told
    BY <1>0, SMT DEF IsLobby
  <2>. HIDE DEF u
  <2>4. Good(u) /\ Mapped(u) /\ Own(u)
    BY <2>2, <2>3, GoodByFields, KeepsByFields, OwnByRoster DEF Keeps
  <2>5. /\ FallsIn(u, t, g) /\ Own(t)
        /\ \A p \in Names : IF u.game[p] = g THEN t.status = "running" => Agrees(t, p)
                            ELSE Untold(u, t, p)
    BY <2>1, <2>4, StartRoundTells
  <2>6. FallsIn(s, t, g)
    BY <2>3, <2>5, Zenon DEF FallsIn
  <2>7. \A p \in Names : Untold(u, t, p) => Untold(s, t, p)
    BY <2>3, Zenon DEF Untold
  <2>. QED  BY <2>3, <2>5, <2>6, <2>7
<1>. QED  BY <1>1, <1>2

\* end_round removes who does not answer, and starts over with the others.
LEMMA EndRoundTells ==
  ASSUME NEW s, Good(s), Mapped(s), Own(s), s.status = "running", NEW g \in Games,
         NEW t \in end_round(s, g)
  PROVE  /\ FallsIn(s, t, g) /\ Own(t)
         /\ \A p \in Names : IF s.game[p] = g THEN t.status = "running" => Agrees(t, p)
                             ELSE Untold(s, t, p)
<1> DEFINE stopped == [s EXCEPT !.in_progress = [@ EXCEPT ![g] = FALSE]]
<1>1. PICK u \in broadcast_heartbeat(stopped, g) :
        \E v \in broadcast_role(u, g, Listener, "idle") : t \in validate_round(v, g)
  BY Zenon DEF end_round
<1>2. PICK v \in broadcast_role(u, g, Listener, "idle") : t \in validate_round(v, g)
  BY <1>1
<1>3. IsLobby(s) /\ s.pfds = s.open /\ Placed(s) /\ Rotating(s)
  BY DEF Good
<1>4. IsLobby(stopped)
  BY <1>3, SMT DEF IsLobby
<1>5. /\ stopped.roster = s.roster /\ stopped.status = s.status /\ stopped.open = s.open
      /\ stopped.fd = s.fd /\ stopped.is_online = s.is_online /\ stopped.game = s.game
      /\ stopped.pfds = s.pfds /\ stopped.all_players = s.all_players
      /\ stopped.history = s.history /\ stopped.cur_capacity = s.cur_capacity
      /\ stopped.told = s.told /\ ~stopped.in_progress[g]
      /\ \A h \in Games : stopped.in_progress[h] => s.in_progress[h]
  BY <1>3, SMT DEF IsLobby
<1>. HIDE DEF stopped
<1>6. Good(stopped) /\ Mapped(stopped) /\ Own(stopped)
  <2>1. Placed(stopped)
    BY <1>3, <1>5, PlacedByFields
  <2>2. Rotating(stopped)
    BY <1>3, <1>5, Zenon DEF Rotating
  <2>3. Excused(stopped)
    BY <1>5, Zenon DEF Excused, Good
  <2>4. Mapped(stopped) /\ Own(stopped)
    BY <1>5, KeepsByFields, OwnByRoster DEF Keeps
  <2>. QED  BY <1>3, <1>4, <1>5, <2>1, <2>2, <2>3, <2>4 DEF Good
<1>7. Good(u) /\ Calm(stopped, u) /\ Mapped(u) /\ Cuts(stopped, u, g)
  <2>1. u \in broadcast_buffer(stopped, g, Listener)
    BY <1>1, Zenon DEF broadcast_heartbeat
  <2>2. Placed(stopped)
    BY <1>6 DEF Good
  <2>. QED  BY <1>4, <1>6, <2>1, <2>2, GoodBroadcast, BroadcastIsCalm, BroadcastKeeps,
             BroadcastCuts DEF Keeps
<1>8. /\ Good(v) /\ Calm(u, v) /\ Mapped(v) /\ FallsIn(u, v, g)
      /\ \A p \in Names : u.game[p] # g => Untold(u, v, p)
  <2>1. IsLobby(u) /\ Placed(u) /\ "idle" \in Roles
    BY <1>7 DEF Good, Roles
  <2>2. IsLobby(v) /\ Calm(u, v) /\ Mapped(v)
    BY <1>2, <1>7, <2>1, BroadcastRoleIsCalm, BroadcastRoleKeeps DEF Keeps
  <2>3. /\ FallsIn(u, v, g)
        /\ \A p \in Names : u.game[p] # g => Untold(u, v, p)
    BY <1>2, <1>7, <2>1, BroadcastRoleTells
  <2>. QED  BY <1>7, <2>2, <2>3, CalmKeepsGood
<1>9. u.game = s.game /\ v.game = s.game /\ ~v.in_progress[g] /\ Own(v)
  BY <1>5, <1>6, <1>7, <1>8, OwnByRoster DEF Calm
<1>10. /\ FallsIn(v, t, g) /\ Own(t)
       /\ \A p \in Names : IF v.game[p] = g THEN t.status = "running" => Agrees(t, p)
                           ELSE Untold(v, t, p)
  BY <1>2, <1>8, <1>9, ValidateRoundTells
<1>11. FallsIn(s, t, g)
  BY <1>5, <1>7, <1>8, <1>9, <1>10, SMT DEF FallsIn, Cuts
<1>12. ASSUME NEW p \in Names, s.game[p] # g PROVE Untold(s, t, p)
  <2>1. Untold(s, stopped, p)
    BY <1>5 DEF Untold
  <2>2. Untold(stopped, u, p) /\ Untold(u, v, p) /\ Untold(v, t, p)
    BY <1>7, <1>8, <1>9, <1>10, <1>12 DEF Cuts
  <2>. QED  BY <2>1, <2>2, UntoldTwice
<1>. QED  BY <1>9, <1>10, <1>11, <1>12

\* The answer to a player that joins a running round tells it its role.
LEMMA SendGameInProgressTells ==
  ASSUME NEW s, Good(s), Mapped(s), Own(s), s.status = "running", NEW p \in Names,
         s.game[p] \in Games, s.in_progress[s.game[p]],
         NEW t \in send_game_in_progress(s, p)
  PROVE  /\ FallsIn(s, t, s.game[p]) /\ Calm(s, t) /\ Agrees(t, p)
         /\ \A q \in Names \ {p} : Untold(s, t, q)
<1> DEFINE g == s.game[p]
           d == Drawer(s.roster[g])
<1>1. IsLobby(s) /\ s.pfds = s.open /\ Placed(s) /\ Rotating(s)
  BY DEF Good
<1>2. Calm(s, t)
  BY SendGameInProgressIsCalm
<1>3. CASE t \in remove_player_from_server(s, p)
  <2>1. Cuts(s, t, g) /\ ~t.is_online[p]
    BY <1>1, <1>3, RemoveFromServerCuts, RemovedIsOffline
  <2>. QED  BY <1>2, <2>1 DEF Cuts, Agrees
<1>4. CASE t \notin remove_player_from_server(s, p)
  <2> DEFINE role == IF s.fd[d] = s.fd[p] THEN "draw" ELSE "guess"
  <2>1. s.fd[p] \in s.open /\ t = Tell(s, p, role)
    BY <1>4, Zenon DEF send_game_in_progress, Tell
  <2>2. s.fd[p] \in Fds /\ role \in Roles
    BY <1>1, <2>1 DEF IsLobby, Roles
  <2>3. s.is_online[p]
    BY <2>2 DEF Mapped, NoFd, Fds
  <2>4. d \in Names
    <3>1. IsRoster(s.roster[g], Names) /\ IsSound(s.roster[g])
      BY <1>1 DEF IsLobby, Placed, Rotating, IsSound
    <3>2. Rotation(s.roster[g]) # <<>>
      BY <1>1, Zenon DEF Rotating
    <3>3. ToSet(s.roster[g].dead) \subseteq Members(s.roster[g])
      BY DEF Own
    <3>4. d \in Members(s.roster[g])
      BY <3>1, <3>2, <3>3, DrawerHasNode
    <3>. QED  BY <1>1, <3>4, OnlineAreNames
  <2>5. s.fd[d] = s.fd[p] <=> p = d
    BY <1>1, <2>3, <2>4, FdsAreApart
  <2>. HIDE DEF d, role
  <2>6. /\ t.is_online = s.is_online /\ t.fd = s.fd /\ t.told[s.fd[p]] = role
        /\ \A q \in Names \ {p} : Untold(s, t, q)
    BY <1>1, <2>1, <2>2, TellOne
  <2>7. FallsIn(s, t, g)
    BY <2>6 DEF FallsIn
  <2>8. t.game = s.game /\ t.roster = s.roster
    BY <1>2 DEF Calm
  <2>9. t.told[t.fd[p]] = IF p = Drawer(t.roster[t.game[p]]) THEN "draw" ELSE "guess"
    BY <2>5, <2>6, <2>8 DEF d, role
  <2>. QED  BY <1>2, <2>6, <2>7, <2>9 DEF Agrees
<1>. QED  BY <1>3, <1>4

\* In a calm step, who is told nothing new agrees as before.
LEMMA AgreesCalm ==
  ASSUME NEW s, NEW t, NEW p, Calm(s, t), Untold(s, t, p), Agrees(s, p)
  PROVE  Agrees(t, p)
<1>1. t.game = s.game /\ t.roster = s.roster /\ t.in_progress = s.in_progress
  BY DEF Calm
<1>. QED  BY <1>1, AgreesStill

\* Whoever is welcomed is told its role, and nobody of another game notices.
LEMMA WelcomeTells ==
  ASSUME NEW s, Seating(s), NEW p \in Names, s.game[p] \in Games,
         s.fd[p] \in Fds, s.open = s.pfds \cup {s.fd[p]},
         Mapped([s EXCEPT !.pfds = @ \cup {s.fd[p]}]), Own(s),
         NEW t \in welcome(s, p)
  PROVE  /\ FallsIn(s, t, s.game[p]) /\ Own(t)
         /\ t.status = "running" /\ (\A q \in Names \ {p} : Agrees(s, q)) =>
              \A q \in Names : Agrees(t, q)
<1> DEFINE g == s.game[p]
           polled == [s EXCEPT !.pfds = @ \cup {s.fd[p]}]
<1>1. IsLobby(s) /\ Placed(s) /\ Rotating(s) /\ s.status = "running"
  BY DEF Seating
<1>2. IsLobby(polled) /\ Mapped(polled)
  BY <1>1, SMT DEF IsLobby
<1>3. /\ polled.roster = s.roster /\ polled.game = s.game /\ polled.fd = s.fd
      /\ polled.in_progress = s.in_progress /\ polled.status = s.status
      /\ polled.pfds = s.pfds \cup {s.fd[p]} /\ polled.open = s.open
      /\ polled.is_online = s.is_online /\ polled.told = s.told
  BY <1>1, SMT DEF IsLobby
<1>4. \/ t \in remove_player_from_server(polled, p)
      \/ \E u \in broadcast_buffer(polled, g, s.fd[p]) :
           t \in (IF u.in_progress[g] THEN send_game_in_progress(u, p)
                  ELSE validate_round(u, g))
  BY Zenon DEF welcome
<1>. HIDE DEF polled
<1>5. Good(polled) /\ Placed(polled) /\ Own(polled)
  <2>1. Placed(polled) /\ Rotating(polled) /\ Own(polled)
    BY <1>1, <1>3, PlacedByFields, RotatingByFields, OwnByRoster
  <2>2. Excused(polled)
    BY <1>1, <1>3 DEF Excused
  <2>. QED  BY <1>2, <1>3, <2>1, <2>2 DEF Good
<1>6. ASSUME FallsIn(polled, t, g), Own(t),
             t.status = "running" /\ (\A q \in Names \ {p} : Agrees(polled, q)) =>
               \A q \in Names : Agrees(t, q)
      PROVE  /\ FallsIn(s, t, g) /\ Own(t)
             /\ t.status = "running" /\ (\A q \in Names \ {p} : Agrees(s, q)) =>
                  \A q \in Names : Agrees(t, q)
  <2>1. FallsIn(s, t, g)
    BY <1>3, <1>6, Zenon DEF FallsIn
  <2>2. \A q \in Names : Agrees(s, q) => Agrees(polled, q)
    BY <1>3, Zenon DEF Agrees
  <2>. QED  BY <1>6, <2>1, <2>2
<1>7. CASE t \in remove_player_from_server(polled, p)
  <2>1. Calm(polled, t) /\ Cuts(polled, t, g) /\ ~t.is_online[p]
    BY <1>2, <1>3, <1>5, <1>7, RemoveFromServerIsCalm, RemoveFromServerCuts, RemovedIsOffline
  <2>2. Own(t) /\ Agrees(t, p)
    BY <1>5, <2>1, OwnByRoster DEF Calm, Agrees
  <2>3. \A q \in Names : Agrees(polled, q) => Agrees(t, q)
    BY <2>1, AgreesCalm DEF Cuts
  <2>. QED  BY <1>6, <2>1, <2>2, <2>3 DEF Cuts
<1>8. ASSUME NEW u \in broadcast_buffer(polled, g, s.fd[p]),
             t \in (IF u.in_progress[g] THEN send_game_in_progress(u, p)
                    ELSE validate_round(u, g))
      PROVE  /\ FallsIn(polled, t, g) /\ Own(t)
             /\ t.status = "running" /\ (\A q \in Names \ {p} : Agrees(polled, q)) =>
                  \A q \in Names : Agrees(t, q)
  <2>1. Good(u) /\ Calm(polled, u) /\ Mapped(u) /\ Cuts(polled, u, g)
    BY <1>2, <1>5, GoodBroadcast, BroadcastIsCalm, BroadcastKeeps, BroadcastCuts DEF Keeps
  <2>2. /\ u.game = s.game /\ u.status = "running" /\ Own(u)
    BY <1>1, <1>3, <1>5, <2>1, OwnByRoster DEF Calm
  <2>3. \A q \in Names : Agrees(polled, q) => Agrees(u, q)
    BY <2>1, AgreesCalm DEF Cuts
  <2>4. ASSUME FallsIn(u, t, g) PROVE FallsIn(polled, t, g)
    BY <1>3, <2>1, <2>2, <2>4, SMT DEF FallsIn, Cuts
  <2>5. CASE u.in_progress[g]
    <3>1. t \in send_game_in_progress(u, p)
      BY <1>8, <2>5
    <3>2. /\ FallsIn(u, t, g) /\ Calm(u, t) /\ Agrees(t, p)
          /\ \A q \in Names \ {p} : Untold(u, t, q)
      BY <2>1, <2>2, <2>5, <3>1, SendGameInProgressTells
    <3>3. Own(t)
      BY <2>2, <3>2, OwnByRoster DEF Calm
    <3>4. \A q \in Names \ {p} : Agrees(u, q) => Agrees(t, q)
      BY <3>2, AgreesCalm
    <3>. QED  BY <2>3, <2>4, <3>2, <3>3, <3>4
  <2>6. CASE ~u.in_progress[g]
    <3>1. t \in validate_round(u, g)
      BY <1>8, <2>6
    <3>2. /\ FallsIn(u, t, g) /\ Own(t)
          /\ \A q \in Names : IF u.game[q] = g THEN t.status = "running" => Agrees(t, q)
                              ELSE Untold(u, t, q)
      BY <2>1, <2>2, <2>6, <3>1, ValidateRoundTells
    <3>3. Elsewhere(u, t, g) /\ t.game = u.game
      BY <2>1, <3>1, ValidateRoundDraws, ValidateRoundKeeps DEF Keeps
    <3>4. ASSUME NEW q \in Names, u.game[q] # g, Agrees(u, q) PROVE Agrees(t, q)
      <4>1. CASE ~t.is_online[q]
        BY <4>1 DEF Agrees
      <4>2. CASE t.is_online[q]
        <5>1. Untold(u, t, q) /\ u.is_online[q]
          BY <3>2, <3>4, <4>2 DEF Untold
        <5>2. u.game[q] \in Games \ {g}
          BY <2>1, <3>4, <5>1 DEF Mapped, Good, IsLobby
        <5>3. /\ t.in_progress[u.game[q]] = u.in_progress[u.game[q]]
              /\ t.roster[u.game[q]] = u.roster[u.game[q]]
          BY <3>3, <5>2 DEF Elsewhere
        <5>. QED  BY <3>3, <3>4, <5>1, <5>3, AgreesStill
      <4>. QED  BY <4>1, <4>2
    <3>5. u.game[p] = g
      BY <2>2
    <3>. QED  BY <2>3, <2>4, <3>2, <3>4, <3>5
  <2>. QED  BY <2>5, <2>6
<1>. QED  BY <1>4, <1>6, <1>7, <1>8

\* What a seat does to the lists: as long as nobody changes games, the unlinked node
\* of the player seated has its player back in the list.
LEMMA SeatOwns ==
  ASSUME NEW s, Seating(s), NEW p \in Names, FreeGames(s) # {}, Own(s)
  PROVE  /\ seat(s, p).told = s.told
         /\ seat(s, p).history = {} => Own(seat(s, p))
<1> DEFINE g == Min(FreeGames(s))
           u == unlink(s, p)
           longer == add_player(u.roster[g], p)
           t == seat(s, p)
           history == IF s.game[p] \in {NoGame, g} THEN u.history
                      ELSE u.history \cup {"displaced"}
<1>1. g \in Games
  <2>1. FreeGames(s) \in SUBSET Nat
    BY ConstantsAssumption DEF FreeGames, Games
  <2>2. g \in FreeGames(s)
    BY <2>1, MinIsLeast
  <2>. QED  BY <2>2 DEF FreeGames
<1>2. /\ IsLobby(u) /\ Placed(u) /\ Rotating(u) /\ u.game[p] = NoGame /\ u.status = "running"
  BY UnlinkIsGood DEF Seating
<1>3. u.told = s.told
  BY SMT DEF unlink, Seating, IsLobby
<1>4. t = [u EXCEPT !.game = [@ EXCEPT ![p] = g],
                    !.cur_capacity = [@ EXCEPT ![g] = u.cur_capacity[g] + 1],
                    !.roster = [@ EXCEPT ![g] = longer],
                    !.history = history]
  BY Zenon DEF seat
<1>5. NoGame \notin Games
  BY DEF Games, NoGame
\* The unlinked nodes, after the player has left its game.
<1>6. ASSUME s.game[p] \in {NoGame, g}, NEW h \in Games
      PROVE  ToSet(u.roster[h].dead) \subseteq
               Members(u.roster[h]) \cup (IF h = g THEN {p} ELSE {})
  <2>1. ToSet(s.roster[h].dead) \subseteq Members(s.roster[h])
    BY DEF Own
  <2>2. CASE s.game[p] = NoGame
    <3>1. u.roster = s.roster
      BY <2>2, Zenon DEF unlink
    <3>. QED  BY <2>1, <3>1
  <2>3. CASE s.game[p] = g /\ s.game[p] # NoGame
    <3> DEFINE left == remove_player(s.roster[g], p)
    <3>1. IsRoster(s.roster[g], Names) /\ IsSound(s.roster[g])
      BY <1>1 DEF Seating, IsLobby, Placed, Rotating, IsSound
    <3>2. /\ Members(left) = Members(s.roster[g]) \ {p}
          /\ ToSet(left.dead) \subseteq ToSet(s.roster[g].dead) \cup {p}
      BY <3>1, RemoveKeepsSound, RemoveAddsDead
    <3>3. u = [s EXCEPT !.roster = [@ EXCEPT ![g] = left], !.game = [@ EXCEPT ![p] = NoGame]]
      BY <2>3, Zenon DEF unlink
    <3>. HIDE DEF left, g
    <3>4. u.roster = [s.roster EXCEPT ![g] = left] /\ DOMAIN s.roster = Games
      BY <3>3, SMT DEF Seating, IsLobby
    <3>. HIDE DEF u
    <3>5. CASE h = g
      BY <1>1, <2>1, <3>2, <3>4, <3>5
    <3>6. CASE h # g
      BY <1>1, <2>1, <3>4, <3>6
    <3>. QED  BY <3>5, <3>6
  <2>. QED  BY <1>6, <2>2, <2>3
<1>7. p \notin Members(u.roster[g])
  BY <1>1, <1>2, <1>5, Zenon DEF Placed
<1>8. Members(longer) = Members(u.roster[g]) \cup {p} /\ longer.dead = u.roster[g].dead
  <2>1. IsRoster(u.roster[g], Names) /\ IsSound(u.roster[g])
    BY <1>1, <1>2 DEF IsLobby, Placed, Rotating, IsSound
  <2>2. longer.dead = u.roster[g].dead
    BY DEF add_player
  <2>. QED  BY <1>7, <2>1, <2>2, AddKeepsSound
<1>9. history = {} => s.game[p] \in {NoGame, g}
  OBVIOUS
<1>. HIDE DEF g, u, longer, history
<1>10. /\ t.told = u.told /\ t.history = history
       /\ t.roster[g] = longer
       /\ \A h \in Games \ {g} : t.roster[h] = u.roster[h]
  BY <1>1, <1>2, <1>4, SMT DEF IsLobby
<1>. HIDE DEF t
<1>11. ASSUME t.history = {}, NEW h \in Games
       PROVE  ToSet(t.roster[h].dead) \subseteq Members(t.roster[h])
  <2>1. CASE h = g
    BY <1>1, <1>6, <1>8, <1>9, <1>10, <1>11, <2>1
  <2>2. CASE h # g
    BY <1>6, <1>9, <1>10, <1>11, <2>2
  <2>. QED  BY <2>1, <2>2
<1>. QED  BY <1>3, <1>10, <1>11 DEF Own, t

\* What update_players leaves alone for those who are told their roles.
LEMMA UpdateTells ==
  ASSUME NEW s, IsLobby(s), NEW n \in Names, NEW f \in Fds
  PROVE  LET u == update_players(s, n, f)
         IN  u.roster = s.roster /\ u.told = s.told
<1> DEFINE known == IF n \in Known(s) THEN s.all_players ELSE <<n>> \o s.all_players
<1>1. update_players(s, n, f) = [s EXCEPT !.all_players = known,
                                          !.fd = [@ EXCEPT ![n] = f],
                                          !.is_online = [@ EXCEPT ![n] = TRUE]]
  BY Zenon DEF update_players
<1>. HIDE DEF known
<1>. QED  BY <1>1, SMT DEF IsLobby

\* A login that turns nobody away and moves nobody to another game: it reaches into
\* one game only, and leaves every client there with the role the server has for it.
LEMMA LoginTells ==
  ASSUME NEW s, Good(s), Mapped(s), Own(s), s.status = "running", NEW n \in Names,
         NEW f \in Fds, f \notin s.open, NEW t \in login(s, n, f), t.history = {}
  PROVE  /\ \E g \in Games \cup {NoGame} : FallsIn(s, t, g)
         /\ Own(t)
         /\ t.status = "running" /\ (\A q \in Names : Agrees(s, q)) =>
              \A q \in Names : Agrees(t, q)
<1> DEFINE accepted == [s EXCEPT !.open = @ \cup {f}]
           u == update_players(accepted, n, f)
           p == get_player_by_fd(u, f)
           closed == disconnect_fds(accepted, {f})
<1>1. IsLobby(s) /\ Placed(s) /\ Rotating(s) /\ s.pfds = s.open
  BY DEF Good
<1>2. IsLobby(accepted)
  BY <1>1, SMT DEF IsLobby
<1>3. /\ accepted.roster = s.roster /\ accepted.game = s.game
      /\ accepted.in_progress = s.in_progress /\ accepted.status = "running"
      /\ accepted.pfds = s.pfds /\ accepted.open = s.open \cup {f}
      /\ accepted.fd = s.fd /\ accepted.is_online = s.is_online
      /\ accepted.all_players = s.all_players /\ accepted.told = s.told
  BY <1>1, SMT DEF IsLobby
<1>4. \/ t = closed
      \/ /\ ~s.is_online[n]
         /\ \/ t \in welcome(u, p) /\ ~NeedsGame(u, p)
            \/ t = disconnect_fds(turn_away(u, p), {f})
            \/ FreeGames(u) # {} /\ t \in welcome(seat(u, p), p)
  BY Zenon DEF login, already_online
<1>5. /\ closed.is_online = accepted.is_online /\ closed.fd = accepted.fd
      /\ \A h \in Fds \ {f} : closed.told[h] = accepted.told[h]
  BY <1>2, SMT DEF disconnect_fds, IsLobby
<1>. HIDE DEF accepted
<1>6. CASE t = closed
  <2>1. Calm(accepted, t)
    BY <1>2, <1>6, DisconnectIsCalm
  <2>2. t.is_online = s.is_online /\ t.fd = s.fd
    BY <1>3, <1>5, <1>6
  <2>3. t.game = s.game /\ t.roster = s.roster /\ t.in_progress = s.in_progress
    BY <1>3, <2>1 DEF Calm
  <2>4. \A q \in Names : Untold(s, t, q)
    <3>1. ASSUME NEW q \in Names, s.is_online[q] PROVE t.told[s.fd[q]] = s.told[s.fd[q]]
      <4>1. s.fd[q] \in Fds \ {f}
        BY <1>1, <3>1 DEF Mapped, IsLobby
      <4>. QED  BY <1>3, <1>5, <1>6, <4>1
    <3>. QED  BY <2>2, <3>1 DEF Untold
  <2>5. FallsIn(s, t, NoGame)
    BY <2>2 DEF FallsIn
  <2>6. Own(t) /\ \A q \in Names : Agrees(s, q) => Agrees(t, q)
    BY <2>3, <2>4, OwnByRoster, AgreesStill
  <2>. QED  BY <2>5, <2>6
<1>7. Seating(accepted)
  BY <1>1, <1>2, <1>3, PlacedByFields, RotatingByFields DEF Seating
<1>8. /\ Seating(u) /\ u.open = s.open \cup {f} /\ u.fd[n] = f /\ n \in Known(u)
      /\ u.fd = [s.fd EXCEPT ![n] = f] /\ u.is_online = [s.is_online EXCEPT ![n] = TRUE]
      /\ u.game = s.game /\ u.pfds = s.pfds /\ u.in_progress = s.in_progress
      /\ Known(s) \subseteq Known(u) /\ u.roster = s.roster /\ u.told = s.told
  <2>1. Known(accepted) = Known(s)
    BY <1>3, Zenon DEF Known
  <2>2. /\ Seating(u) /\ u.open = accepted.open /\ u.fd[n] = f /\ n \in Known(u)
    BY <1>7, UpdatePlayersIsGood
  <2>3. /\ u.fd = [accepted.fd EXCEPT ![n] = f]
        /\ u.is_online = [accepted.is_online EXCEPT ![n] = TRUE]
        /\ u.game = accepted.game /\ u.pfds = accepted.pfds
        /\ u.in_progress = accepted.in_progress
        /\ Known(accepted) \subseteq Known(u)
    BY <1>2, UpdateFields
  <2>4. u.roster = accepted.roster /\ u.told = accepted.told
    BY <1>2, UpdateTells
  <2>. HIDE DEF u
  <2>. QED  BY <1>3, <2>1, <2>2, <2>3, <2>4
<1>. HIDE DEF u
<1>9. ASSUME ~s.is_online[n] PROVE Pending(u, n, f) /\ p = n
  <2>1. Pending(u, n, f)
    BY <1>1, <1>8, <1>9, UpdateIsPending DEF Seating
  <2>. QED  BY <1>8, <2>1, PendingIsFound DEF Seating
<1>. HIDE DEF p
\* The lobby in which n is welcomed, with its old seat or with a new one.
<1>10. ASSUME ~s.is_online[n], NEW v, Seating(v), t \in welcome(v, n), v.game[n] \in Games,
              v.fd = u.fd, v.is_online = u.is_online, v.pfds = u.pfds, v.open = u.open,
              v.all_players = u.all_players, v.told = u.told, v.in_progress = u.in_progress,
              \A q \in Names \ {n} : v.game[q] = u.game[q],
              KeepsDrawers(u, v), v.history = {} => Own(v)
       PROVE  /\ \E g \in Games \cup {NoGame} : FallsIn(s, t, g)
              /\ Own(t)
              /\ t.status = "running" /\ (\A q \in Names : Agrees(s, q)) =>
                   \A q \in Names : Agrees(t, q)
  <2> DEFINE polled == [v EXCEPT !.pfds = @ \cup {v.fd[n]}]
  <2>1. v.fd[n] \in Fds /\ v.open = v.pfds \cup {v.fd[n]}
    BY <1>1, <1>8, <1>10
  <2>2. Mapped(polled)
    <3>1. Pending(v, n, f)
      BY <1>9, <1>10, PendingByFields
    <3>2. v.game[n] # NoGame
      BY <1>10 DEF Games, NoGame
    <3>. QED  BY <1>10, <3>1, <3>2, PolledIsMapped DEF Seating
  <2>3. v.history = {}
    <3>1. Keeps(polled, t)
      BY <1>10, <2>1, WelcomeKeeps
    <3>2. polled.history = v.history
      BY <1>10, SMT DEF Seating, IsLobby
    <3>. QED  BY <3>1, <3>2 DEF Keeps
  <2>4. /\ FallsIn(v, t, v.game[n]) /\ Own(t)
        /\ t.status = "running" /\ (\A q \in Names \ {n} : Agrees(v, q)) =>
             \A q \in Names : Agrees(t, q)
    BY <1>10, <2>1, <2>2, <2>3, WelcomeTells
  <2>. HIDE DEF polled
  <2>5. \A q \in Names \ {n} :
          /\ v.is_online[q] = s.is_online[q] /\ v.game[q] = s.game[q]
          /\ v.fd[q] = s.fd[q]
    BY <1>1, <1>8, <1>10 DEF IsLobby
  <2>6. FallsIn(s, t, v.game[n])
    BY <1>10, <2>4, <2>5 DEF FallsIn
  <2>7. ASSUME NEW q \in Names \ {n}, Agrees(s, q) PROVE Agrees(v, q)
    <3>1. Untold(s, v, q)
      BY <1>8, <1>10, <2>5 DEF Untold
    <3>2. CASE ~s.is_online[q]
      BY <2>5, <3>2 DEF Agrees
    <3>3. CASE s.is_online[q]
      <4>1. s.game[q] \in Games
        BY <1>1, <3>3 DEF Mapped, IsLobby
      <4>2. v.in_progress[s.game[q]] =>
              /\ s.in_progress[s.game[q]]
              /\ Drawer(v.roster[s.game[q]]) = Drawer(s.roster[s.game[q]])
        BY <1>8, <1>10, <4>1, Zenon DEF KeepsDrawers
      <4>. QED  BY <2>5, <2>7, <3>1, <4>2, AgreesStill
    <3>. QED  BY <3>2, <3>3
  <2>. QED  BY <1>10, <2>4, <2>6, <2>7
<1>11. CASE ~s.is_online[n] /\ t \in welcome(u, p) /\ ~NeedsGame(u, p)
  <2>1. p = n
    BY <1>9, <1>11
  <2>2. u.game[n] \in Games
    BY <1>8, <1>11, <2>1 DEF NeedsGame, Seating, IsLobby
  <2>3. KeepsDrawers(u, u) /\ Own(u)
    BY <1>8, OwnByRoster DEF KeepsDrawers
  <2>. QED  BY <1>8, <1>10, <1>11, <2>1, <2>2, <2>3
<1>12. CASE ~s.is_online[n] /\ t = disconnect_fds(turn_away(u, p), {f})
  BY <1>8, <1>9, <1>12, TurnAwayFields DEF Turned
<1>13. CASE ~s.is_online[n] /\ FreeGames(u) # {} /\ t \in welcome(seat(u, p), p)
  <2> DEFINE v == seat(u, n)
  <2>1. p = n
    BY <1>9, <1>13
  <2>2. Seating(v) /\ v.game[n] \in Games /\ v.open = u.open
    BY <1>8, <1>13, SeatIsGood
  <2>3. /\ v.fd = u.fd /\ v.is_online = u.is_online /\ v.pfds = u.pfds
        /\ v.all_players = u.all_players /\ v.in_progress = u.in_progress
        /\ \A q \in Names \ {n} : v.game[q] = u.game[q]
    <3>1. Seating(u) /\ FreeGames(u) # {}
      BY <1>8, <1>13
    <3>. QED  BY <3>1, SeatFields, Zenon
  <2>4. v.told = u.told /\ (v.history = {} => Own(v))
    BY <1>8, <1>13, OwnByRoster, SeatOwns
  <2>5. KeepsDrawers(u, v)
    BY <1>8, <1>13, SeatDraws
  <2>6. t \in welcome(v, n)
    BY <1>13, <2>1
  <2>. HIDE DEF v
  <2>. QED  BY <1>10, <1>13, <2>2, <2>3, <2>4, <2>5, <2>6
<1>. QED  BY <1>4, <1>6, <1>11, <1>12, <1>13

\* The other branch of the poll loop reaches into the game of one player.
LEMMA ReadableTells ==
  ASSUME NEW s, Good(s), Mapped(s), Own(s), NEW f \in s.pfds, NEW t \in readable(s, f)
  PROVE  /\ \E g \in Games \cup {NoGame} : FallsIn(s, t, g)
         /\ Own(t)
         /\ t.status = "running" /\ (\A q \in Names : Agrees(s, q)) =>
              \A q \in Names : Agrees(t, q)
<1> DEFINE p == get_player_by_fd(s, f)
           g == s.game[p]
<1>1. IsLobby(s) /\ Placed(s) /\ s.pfds \in SUBSET Fds
  BY DEF Good, IsLobby
<1>2. p \in Names
  <2>1. f \in Fds /\ NoFd \notin Fds
    BY <1>1 DEF NoFd, Fds
  <2>2. PICK q \in Names : s.fd[q] = f
    BY Zenon DEF Mapped
  <2>3. s.is_online[q]
    BY <2>1, <2>2 DEF Mapped
  <2>4. q \in Known(s)
    BY <2>3, Zenon DEF Mapped
  <2>. QED  BY <1>1, <2>2, <2>4, PlayerByFd
<1>3. p # NULL
  BY <1>2, ConstantsAssumption
<1>4. \/ t = [s EXCEPT !.status = "segfault"]
      \/ t \in remove_player_from_server(s, p)
      \/ g # NoGame /\ t \in broadcast_buffer(s, g, s.fd[p])
  BY <1>3, Zenon DEF readable, manage_player_action
<1>. HIDE DEF p
<1>5. CASE t = [s EXCEPT !.status = "segfault"]
  <2>1. t.status = "segfault" /\ t.is_online = s.is_online /\ t.roster = s.roster
    BY <1>1, <1>5, SMT DEF IsLobby
  <2>2. FallsIn(s, t, NoGame)
    BY <2>1 DEF FallsIn
  <2>. QED  BY <2>1, <2>2, OwnByRoster
<1>6. ASSUME Calm(s, t), Cuts(s, t, g)
      PROVE  /\ \E h \in Games \cup {NoGame} : FallsIn(s, t, h)
             /\ Own(t)
             /\ t.status = "running" /\ (\A q \in Names : Agrees(s, q)) =>
                  \A q \in Names : Agrees(t, q)
  <2>1. g \in Games \cup {NoGame}
    BY <1>1, <1>2 DEF IsLobby
  <2>2. Own(t)
    BY <1>6, OwnByRoster DEF Calm
  <2>3. \A q \in Names : Agrees(s, q) => Agrees(t, q)
    BY <1>6, AgreesCalm DEF Cuts
  <2>. QED  BY <1>6, <2>1, <2>2, <2>3 DEF Cuts
<1>7. CASE t \in remove_player_from_server(s, p)
  BY <1>1, <1>2, <1>6, <1>7, RemoveFromServerIsCalm, RemoveFromServerCuts
<1>8. CASE g # NoGame /\ t \in broadcast_buffer(s, g, s.fd[p])
  <2>1. g \in Games
    BY <1>1, <1>2, <1>8 DEF IsLobby
  <2>. QED  BY <1>1, <1>6, <1>8, <2>1, BroadcastIsCalm, BroadcastCuts
<1>. QED  BY <1>4, <1>5, <1>7, <1>8

\* The inductive invariant behind RolesAgree and FailuresStayInGame: the mapping, for a
\* message must reach the player it is meant for; and the unlinked nodes, for start_round
\* makes the player of such a node draw, whatever game that player is in by then.
RInv ==
  /\ MInv
  /\ lobby.history = {} =>
       /\ Own(lobby)
       /\ Running => \A p \in Names : Agrees(lobby, p)

\* What one step does to the players of the games.
Reaches ==
  /\ \E g \in Games \cup {NoGame} : FallsIn(lobby, lobby', g)
  /\ Own(lobby')
  /\ lobby'.status = "running" => \A p \in Names : Agrees(lobby', p)

LEMMA NextReaches == RInv /\ [Next]_vars /\ lobby'.history = {} => Reaches
<1> SUFFICES ASSUME RInv, [Next]_vars, lobby'.history = {} PROVE Reaches
  OBVIOUS
<1>1. Good(lobby) /\ IsLobby(lobby)
  BY DEF RInv, MInv, IInv, Good
<1>2. ASSUME lobby.history = {}
      PROVE  /\ Mapped(lobby) /\ Own(lobby)
             /\ Running => \A p \in Names : Agrees(lobby, p)
  BY <1>2 DEF RInv, MInv, Turned
<1>3. ASSUME NEW n \in Names, Connect(n) PROVE Reaches
  <2> DEFINE f == Min(Fds \ lobby.open)
  <2>1. f \in Fds \ lobby.open
    <3>1. lobby.open \in SUBSET Fds /\ lobby.open # Fds
      BY <1>1, <1>3, Zenon DEF Connect, IsLobby
    <3>2. Fds \in SUBSET Nat
      BY ConstantsAssumption DEF Fds
    <3>3. Fds \ lobby.open \in SUBSET Nat /\ Fds \ lobby.open # {}
      BY <3>1, <3>2
    <3>. QED  BY <3>3, MinIsLeast
  <2>2. Running /\ lobby.status = "running" /\ lobby' \in login(lobby, n, f)
    BY <1>3 DEF Connect, Running
  <2>. HIDE DEF f
  <2>3. lobby.history = {}
    BY <1>1, <2>1, <2>2, LoginMaps
  <2>. QED  BY <1>1, <1>2, <2>1, <2>2, <2>3, LoginTells DEF Reaches
<1>4. ASSUME NEW f \in Fds, Readable(f) PROVE Reaches
  <2>1. Running /\ f \in lobby.pfds /\ lobby' \in readable(lobby, f)
    BY <1>4 DEF Readable
  <2>2. lobby.history = {}
    BY <1>1, <2>1, ReadableKeeps DEF Keeps
  <2>. QED  BY <1>1, <1>2, <2>1, <2>2, ReadableTells DEF Reaches
<1>5. ASSUME NEW g \in Games, EndRound(g) PROVE Reaches
  <2>1. Running /\ lobby.status = "running" /\ lobby' \in end_round(lobby, g)
    BY <1>5 DEF EndRound, Running
  <2>2. lobby.history = {}
    BY <1>1, <2>1, EndRoundKeeps DEF Keeps
  <2>3. /\ FallsIn(lobby, lobby', g) /\ Own(lobby')
        /\ \A p \in Names :
             IF lobby.game[p] = g THEN lobby'.status = "running" => Agrees(lobby', p)
             ELSE Untold(lobby, lobby', p)
    BY <1>1, <1>2, <2>1, <2>2, EndRoundTells
  <2>4. Elsewhere(lobby, lobby', g) /\ lobby'.game = lobby.game
    BY <1>1, <2>1, EndRoundDraws
  <2>5. ASSUME NEW p \in Names, lobby.game[p] # g, lobby'.is_online[p]
        PROVE  Agrees(lobby', p)
    <3>1. Untold(lobby, lobby', p) /\ lobby.is_online[p]
      BY <2>3, <2>5 DEF Untold
    <3>2. lobby.game[p] \in Games \ {g}
      BY <1>1, <1>2, <2>2, <2>5, <3>1 DEF Mapped, IsLobby
    <3>3. /\ lobby'.in_progress[lobby.game[p]] = lobby.in_progress[lobby.game[p]]
          /\ lobby'.roster[lobby.game[p]] = lobby.roster[lobby.game[p]]
      BY <2>4, <3>2 DEF Elsewhere
    <3>4. Agrees(lobby, p)
      BY <1>2, <2>1, <2>2
    <3>. QED  BY <2>4, <3>1, <3>3, <3>4, AgreesStill
  <2>6. lobby'.status = "running" => \A p \in Names : Agrees(lobby', p)
    BY <2>3, <2>5 DEF Agrees
  <2>. QED  BY <2>3, <2>6 DEF Reaches
<1>6. ASSUME NEW g \in Games, Tick(g) PROVE Reaches
  <2> DEFINE later == IF lobby.phase[g] = "countdown" THEN "drawing" ELSE "due"
  <2>1. lobby' = [lobby EXCEPT !.phase = [@ EXCEPT ![g] = later]] /\ Running
    BY <1>6, Zenon DEF Tick
  <2>. HIDE DEF later
  <2>2. /\ lobby'.fd = lobby.fd /\ lobby'.is_online = lobby.is_online
        /\ lobby'.game = lobby.game /\ lobby'.roster = lobby.roster
        /\ lobby'.in_progress = lobby.in_progress /\ lobby'.told = lobby.told
        /\ lobby'.history = lobby.history
    BY <1>1, <2>1, SMT DEF IsLobby
  <2>3. FallsIn(lobby, lobby', NoGame)
    BY <2>2 DEF FallsIn
  <2>4. \A p \in Names : Agrees(lobby, p) => Agrees(lobby', p)
    BY <2>2, Zenon DEF Agrees
  <2>. QED  BY <1>2, <2>1, <2>2, <2>3, <2>4, OwnByRoster DEF Reaches
<1>7. CASE UNCHANGED vars
  <2>1. lobby' = lobby
    BY <1>7 DEF vars
  <2>2. FallsIn(lobby, lobby', NoGame)
    BY <2>1 DEF FallsIn
  <2>. QED  BY <1>2, <2>1, <2>2 DEF Reaches, Running
<1>. QED  BY <1>3, <1>4, <1>5, <1>6, <1>7 DEF Next

LEMMA InitReaches == Init => RInv
<1>1. SUFFICES ASSUME lobby = initial_lobby
               PROVE  Own(lobby) /\ \A p \in Names : Agrees(lobby, p)
  BY InitIsMapped DEF RInv, Init
<1>2. /\ \A p \in Names : lobby.is_online[p] = FALSE
      /\ \A g \in Games : lobby.roster[g].dead = <<>>
  BY <1>1 DEF initial_lobby, new_players
<1>. QED  BY <1>2 DEF Own, Agrees, ToSet

THEOREM RolesInvariant == Spec => []RInv
<1>1. RInv /\ [Next]_vars => RInv'
  <2> SUFFICES ASSUME RInv, [Next]_vars PROVE RInv'
    OBVIOUS
  <2>1. MInv'
    BY NextKeepsGood, NextStays DEF RInv, MInv, Stays
  <2>2. lobby'.history = {} => Reaches
    BY NextReaches
  <2>. QED  BY <2>1, <2>2 DEF RInv, Reaches, Running
<1>. QED  BY <1>1, InitReaches, PTL DEF Spec

\* As long as nobody was refused a seat or moved to another game, exactly the player at
\* drawing_player_list of a running round was last told to draw, and everyone else who
\* is online in the game was told to guess: start_round, send_game_in_progress and the
\* cascades of removals between them cannot disagree.
THEOREM RolesAreAgreed == Spec => []RolesAgree
<1>1. ASSUME RInv, Running, lobby.history = {}, NEW g \in Games, lobby.in_progress[g],
             NEW p \in Online(lobby, g)
      PROVE  lobby.told[lobby.fd[p]] =
               IF p = Drawer(lobby.roster[g]) THEN "draw" ELSE "guess"
  <2>1. IsLobby(lobby) /\ Placed(lobby)
    BY <1>1 DEF RInv, MInv, IInv, Good
  <2>2. p \in Names /\ p \in Members(lobby.roster[g]) /\ lobby.is_online[p]
    BY <2>1, OnlineAreNames DEF Online
  <2>3. lobby.game[p] = g
    BY <2>1, <2>2, Zenon DEF Placed
  <2>. QED  BY <1>1, <2>2, <2>3 DEF RInv, Agrees
<1>2. RInv => RolesAgree
  BY <1>1 DEF RolesAgree
<1>. QED  BY <1>2, RolesInvariant, PTL

\* As long as no player has changed games or been turned away: whatever one handler sends,
\* and however deep the cascade of failed sends and removals it ends in, those who lose
\* their connection are of one game.
THEOREM FailuresAreContained == Spec => FailuresStayInGame
<1>1. RInv /\ [Next]_vars =>
        [lobby'.history = {} =>
           \A p, q \in {r \in Names : lobby.is_online[r] /\ ~lobby'.is_online[r]} :
             lobby.game[p] = lobby.game[q]]_vars
  <2> SUFFICES ASSUME RInv, [Next]_vars, lobby'.history = {},
                      NEW p \in Names, NEW q \in Names,
                      lobby.is_online[p], ~lobby'.is_online[p],
                      lobby.is_online[q], ~lobby'.is_online[q]
               PROVE  lobby.game[p] = lobby.game[q]
    OBVIOUS
  <2>. QED  BY NextReaches DEF Reaches, FallsIn
<1>. QED  BY <1>1, RolesInvariant, PTL DEF Spec, FailuresStayInGame

-----------------------------------------------------------------------------
(* Every game of the server implements GameRoster. *)

(* One game, of list r, before and after: the actions of GameRoster, of two lobbies *)

On(s) == {p \in Names : s.is_online[p]}

\* StartRound of GameRoster: t is a lobby in which it has been taken for game g.
Started(r, on, t, g) ==
  /\ t.in_progress[g]
  /\ On(t) \cap Members(r) \subseteq on
  /\ IF HasNextDrawer(r, on)
     THEN t.roster[g] = get_next_drawing(r, on) /\ t.status = "running"
     ELSE t.roster[g] = r /\ t.status # "running"

\* ValidateRound.
Validated(r, on, t, g) ==
  IF Cardinality(on \cap Members(r)) < MIN_PLAYERS
  THEN /\ t.roster[g] = r
       /\ ~t.in_progress[g]
       /\ t.status = "running"
       /\ On(t) \cap Members(r) \subseteq on
  ELSE Started(r, on, t, g)

\* Leave.
Left(s, t, g) ==
  /\ t.roster[g] = s.roster[g]
  /\ t.in_progress[g] = s.in_progress[g]
  /\ On(t) \cap Members(s.roster[g]) \subseteq On(s)

\* Depart.
Departed(s, t, g, n) ==
  /\ n \in Members(s.roster[g]) \ On(s)
  /\ t.roster[g] = remove_player(s.roster[g], n)
  /\ t.in_progress[g] = s.in_progress[g]
  /\ On(t) \cap Members(t.roster[g]) \subseteq On(s)

\* The rest of Enter, when list r holds the player n that has logged in.
Joined(s, t, g, n, r) ==
  IF s.in_progress[g]
  THEN /\ t.roster[g] = r
       /\ t.in_progress[g]
       /\ t.status = "running"
       /\ On(t) \cap Members(r) \subseteq On(s) \cup {n}
  ELSE \E on \in SUBSET Names :
         on \cap Members(r) \subseteq On(s) \cup {n} /\ Validated(r, on, t, g)

\* Enter.
Entered(s, t, g, n) ==
  /\ n \notin On(s)
  /\ \/ Joined(s, t, g, n, add_player(remove_player(s.roster[g], n), n))
     \/ /\ s.in_progress[g] /\ n \in Members(s.roster[g])
        /\ Joined(s, t, g, n, s.roster[g])

LEMMA ShrinksOn ==
  ASSUME NEW s, NEW t
  PROVE  Shrinks(s, t) <=> On(t) \subseteq On(s)
BY DEF Shrinks, On

\* Who is online in a list.
LEMMA OnlineIsOn ==
  ASSUME NEW s, IsLobby(s), NEW g \in Games
  PROVE  Online(s, g) = On(s) \cap Members(s.roster[g])
<1>1. Members(s.roster[g]) \in SUBSET Names
  BY OnlineAreNames
<1>. QED  BY <1>1 DEF Online, On

-----------------------------------------------------------------------------
(* Rounds *)

\* start_round is StartRound.
LEMMA StartRoundStarts ==
  ASSUME NEW s, Good(s), s.status = "running", NEW g \in Games, NEW t \in start_round(s, g)
  PROVE  Started(s.roster[g], On(s), t, g)
<1> DEFINE r == s.roster[g]
           next == get_next_drawing(r, On(s))
<1>1. IsLobby(s) /\ IsRoster(r, Names) /\ IsSound(r)
  BY DEF Good, IsLobby, Placed, Rotating, IsSound
<1>2. Shrinks(s, t) /\ t.in_progress[g]
  BY StartRoundDraws
<1>3. On(t) \cap Members(r) \subseteq On(s)
  BY <1>2, ShrinksOn
<1>4. CASE ~HasNextDrawer(r, On(s))
  <2>1. t = [s EXCEPT !.in_progress = [@ EXCEPT ![g] = TRUE], !.status = "exited"]
    BY <1>4, Zenon DEF start_round, On
  <2>2. t.roster = s.roster /\ t.status = "exited"
    BY <1>1, <2>1, SMT DEF IsLobby
  <2>. QED  BY <1>2, <1>3, <1>4, <2>2 DEF Started
<1>5. CASE HasNextDrawer(r, On(s))
  <2> DEFINE u == [s EXCEPT !.in_progress = [@ EXCEPT ![g] = TRUE],
                            !.roster = [@ EXCEPT ![g] = next]]
             drawing_fd == u.fd[Drawer(next)]
             sent == IF drawing_fd \in u.open
                     THEN {[u EXCEPT !.told = [@ EXCEPT ![drawing_fd] = "draw"]]}
                     ELSE {}
  <2>1. IsRoster(next, Names) /\ Drawer(next) \in Names
    BY <1>1, <1>5, NextKeepsSound DEF On
  <2>2. PICK v \in sent \cup remove_player_from_server(u, Drawer(next)) :
          t \in broadcast_role(v, g, drawing_fd, "guess")
    BY <1>5, Zenon DEF start_round, On
  <2>. HIDE DEF next, r
  <2>3. IsLobby(u)
    BY <1>1, <2>1, SMT DEF IsLobby
  <2>4. u.roster = [s.roster EXCEPT ![g] = next] /\ u.status = "running"
        /\ DOMAIN s.roster = Games
    BY <1>1, SMT DEF IsLobby
  <2>. HIDE DEF u
  <2>5. IsLobby(v) /\ Calm(u, v)
    <3>1. CASE v \in sent
      <4>1. /\ drawing_fd \in u.open
            /\ v = [u EXCEPT !.told = [@ EXCEPT ![drawing_fd] = "draw"]]
        BY <3>1, Zenon
      <4>2. drawing_fd \in Fds
        BY <2>3, <4>1 DEF IsLobby
      <4>. HIDE DEF drawing_fd
      <4>. QED  BY <2>3, <4>1, <4>2, SMT DEF IsLobby, Calm, Roles
    <3>2. CASE v \in remove_player_from_server(u, Drawer(next))
      BY <2>1, <2>3, <3>2, RemoveFromServerIsCalm
    <3>. QED  BY <2>2, <3>1, <3>2
  <2>6. Calm(v, t)
    BY <2>2, <2>5, BroadcastRoleIsCalm DEF Roles
  <2>7. t.roster = u.roster /\ t.status = u.status
    BY <2>5, <2>6, Zenon DEF Calm
  <2>8. t.roster[g] = next /\ t.status = "running"
    BY <2>4, <2>7
  <2>. QED  BY <1>2, <1>3, <1>5, <2>8 DEF Started, next, r
<1>. QED  BY <1>4, <1>5

\* validate_round is ValidateRound.
LEMMA ValidateRoundValidates ==
  ASSUME NEW s, Good(s), s.status = "running", NEW g \in Games, ~s.in_progress[g],
         NEW t \in validate_round(s, g)
  PROVE  Validated(s.roster[g], On(s), t, g)
<1>0. IsLobby(s) /\ Online(s, g) = On(s) \cap Members(s.roster[g])
  BY OnlineIsOn DEF Good
<1>1. CASE Cardinality(Online(s, g)) < MIN_PLAYERS
  <2>1. t \in broadcast_buffer(s, g, Listener)
    BY <1>1, Zenon DEF validate_round
  <2>2. Calm(s, t)
    BY <1>0, <2>1, BroadcastIsCalm
  <2>3. /\ t.roster = s.roster /\ t.in_progress = s.in_progress /\ t.status = s.status
        /\ Shrinks(s, t)
    BY <2>2, Zenon DEF Calm, Shrinks
  <2>4. On(t) \cap Members(s.roster[g]) \subseteq On(s)
    BY <2>3, ShrinksOn
  <2>. QED  BY <1>0, <1>1, <2>3, <2>4 DEF Validated
<1>2. CASE ~(Cardinality(Online(s, g)) < MIN_PLAYERS)
  <2> DEFINE u == [s EXCEPT !.phase = [@ EXCEPT ![g] = "countdown"]]
  <2>1. t \in start_round(u, g)
    BY <1>2, Zenon DEF validate_round
  <2>2. IsLobby(u)
    BY <1>0, SMT DEF IsLobby, Phases
  <2>3. /\ u.roster = s.roster /\ u.in_progress = s.in_progress /\ u.status = s.status
        /\ u.game = s.game /\ u.pfds = u.open /\ u.is_online = s.is_online
    BY <1>0, SMT DEF IsLobby, Good
  <2>. HIDE DEF u
  <2>4. Good(u)
    BY <2>2, <2>3, GoodByFields
  <2>5. Started(u.roster[g], On(u), t, g)
    BY <2>1, <2>3, <2>4, StartRoundStarts
  <2>6. On(u) = On(s)
    BY <2>3 DEF On
  <2>. QED  BY <1>0, <1>2, <2>3, <2>5, <2>6 DEF Validated
<1>. QED  BY <1>1, <1>2

\* end_round counts the players its two broadcasts have left.
LEMMA EndRoundValidates ==
  ASSUME NEW s, Good(s), s.status = "running", NEW g \in Games, NEW t \in end_round(s, g)
  PROVE  \E on \in SUBSET On(s) : Validated(s.roster[g], on, t, g)
<1> DEFINE stopped == [s EXCEPT !.in_progress = [@ EXCEPT ![g] = FALSE]]
<1>1. PICK u \in broadcast_heartbeat(stopped, g) :
        \E v \in broadcast_role(u, g, Listener, "idle") : t \in validate_round(v, g)
  BY Zenon DEF end_round
<1>2. PICK v \in broadcast_role(u, g, Listener, "idle") : t \in validate_round(v, g)
  BY <1>1
<1>3. IsLobby(s) /\ s.pfds = s.open /\ Placed(s) /\ Rotating(s)
  BY DEF Good
<1>4. IsLobby(stopped)
  BY <1>3, SMT DEF IsLobby
<1>5. /\ stopped.roster = s.roster /\ stopped.status = s.status
      /\ stopped.game = s.game /\ stopped.pfds = stopped.open
      /\ stopped.is_online = s.is_online
      /\ stopped.in_progress = [s.in_progress EXCEPT ![g] = FALSE]
      /\ s.in_progress \in [Games -> BOOLEAN]
  BY <1>3, SMT DEF IsLobby
<1>. HIDE DEF stopped
<1>6. Good(stopped)
  <2>1. Placed(stopped)
    BY <1>3, <1>5, PlacedByFields
  <2>2. Rotating(stopped)
    <3>1. \A h \in Games : stopped.in_progress[h] => s.in_progress[h]
      BY <1>5
    <3>. QED  BY <1>3, <1>5, <3>1, Zenon DEF Rotating
  <2>3. Excused(stopped)
    BY <1>5, Zenon DEF Excused, Good
  <2>. QED  BY <1>4, <1>5, <2>1, <2>2, <2>3 DEF Good
<1>7. Good(u) /\ Calm(stopped, u)
  BY <1>1, <1>4, <1>6, GoodBroadcast, BroadcastIsCalm DEF broadcast_heartbeat
<1>8. IsLobby(v) /\ Calm(u, v)
  <2>1. IsLobby(u) /\ "idle" \in Roles
    BY <1>7 DEF Good, Roles
  <2>. QED  BY <1>2, <2>1, BroadcastRoleIsCalm
<1>9. Good(v)
  BY <1>7, <1>8, CalmKeepsGood
<1>10. /\ v.roster = s.roster /\ v.in_progress = stopped.in_progress
       /\ v.status = s.status /\ Shrinks(s, v)
  BY <1>5, <1>7, <1>8, Zenon DEF Calm, Shrinks
<1>11. ~v.in_progress[g] /\ v.status = "running"
  BY <1>5, <1>10
<1>12. Validated(v.roster[g], On(v), t, g)
  BY <1>2, <1>9, <1>11, ValidateRoundValidates
<1>. QED  BY <1>10, <1>12, ShrinksOn
-----------------------------------------------------------------------------
(* Logins *)

\* A step that keeps lists and rounds, and loses players at most.
LEMMA CalmView ==
  ASSUME NEW s, NEW t, Calm(s, t)
  PROVE  /\ t.roster = s.roster /\ t.in_progress = s.in_progress
         /\ t.status = s.status /\ t.game = s.game /\ Shrinks(s, t)
BY Zenon DEF Calm, Shrinks

\* The rest of the listener branch, for player p of game g: other games only lose
\* players; g has a round that p joins, or p is removed again, or is counted by
\* validate_round.
LEMMA WelcomeView ==
  ASSUME NEW s, Seating(s), NEW p \in Names, s.game[p] \in Games,
         s.fd[p] \in Fds, s.open = s.pfds \cup {s.fd[p]},
         NEW t \in welcome(s, p), NEW g, g = s.game[p]
  PROVE  /\ Shrinks(s, t)
         /\ \A h \in Games \ {g} :
              t.roster[h] = s.roster[h] /\ t.in_progress[h] = s.in_progress[h]
         /\ s.in_progress[g] =>
              t.roster[g] = s.roster[g] /\ t.in_progress[g] /\ t.status = "running"
         /\ ~s.in_progress[g] =>
              \/ /\ t.roster[g] = s.roster[g] /\ ~t.in_progress[g]
                 /\ t.status = "running" /\ ~t.is_online[p]
              \/ \E on \in SUBSET On(s) : Validated(s.roster[g], on, t, g)
<1> DEFINE polled == [s EXCEPT !.pfds = @ \cup {s.fd[p]}]
<1>1. IsLobby(s) /\ Placed(s) /\ Rotating(s) /\ s.status = "running" /\ g \in Games
  BY DEF Seating
<1>2. IsLobby(polled)
  BY <1>1, SMT DEF IsLobby
<1>3. /\ polled.roster = s.roster /\ polled.game = s.game
      /\ polled.in_progress = s.in_progress /\ polled.status = s.status
      /\ polled.pfds = s.pfds \cup {s.fd[p]} /\ polled.open = s.open
      /\ polled.is_online = s.is_online
  BY <1>1, SMT DEF IsLobby
<1>4. \/ t \in remove_player_from_server(polled, p)
      \/ \E u \in broadcast_buffer(polled, g, s.fd[p]) :
           t \in (IF u.in_progress[g] THEN send_game_in_progress(u, p)
                  ELSE validate_round(u, g))
  BY Zenon DEF welcome
<1>. HIDE DEF polled
<1>5. Good(polled)
  <2>1. Placed(polled) /\ Rotating(polled)
    BY <1>1, <1>3, PlacedByFields, RotatingByFields
  <2>2. Excused(polled)
    BY <1>1, <1>3 DEF Excused
  <2>. QED  BY <1>2, <1>3, <2>1, <2>2 DEF Good
<1>6. CASE t \in remove_player_from_server(polled, p)
  <2>1. Calm(polled, t) /\ ~t.is_online[p]
    BY <1>2, <1>6, RemoveFromServerIsCalm, RemovedIsOffline
  <2>2. /\ t.roster = s.roster /\ t.in_progress = s.in_progress
        /\ t.status = s.status /\ Shrinks(s, t)
    BY <1>3, <2>1, Zenon DEF Calm, Shrinks
  <2>. QED  BY <1>1, <2>1, <2>2
<1>7. ASSUME NEW u \in broadcast_buffer(polled, g, s.fd[p]),
             t \in (IF u.in_progress[g] THEN send_game_in_progress(u, p)
                    ELSE validate_round(u, g))
      PROVE  /\ Shrinks(s, t)
             /\ \A h \in Games \ {g} :
                  t.roster[h] = s.roster[h] /\ t.in_progress[h] = s.in_progress[h]
             /\ s.in_progress[g] =>
                  t.roster[g] = s.roster[g] /\ t.in_progress[g] /\ t.status = "running"
             /\ ~s.in_progress[g] =>
                  \E on \in SUBSET On(s) : Validated(s.roster[g], on, t, g)
  <2>1. Good(u) /\ Calm(polled, u)
    BY <1>1, <1>2, <1>5, <1>7, GoodBroadcast, BroadcastIsCalm
  <2>2. /\ u.roster = s.roster /\ u.in_progress = s.in_progress /\ u.status = s.status
        /\ Shrinks(s, u)
    BY <1>3, <2>1, Zenon DEF Calm, Shrinks
  <2>3. CASE u.in_progress[g]
    <3>1. Calm(u, t)
      BY <1>7, <2>1, <2>3, SendGameInProgressIsCalm
    <3>2. /\ t.roster = s.roster /\ t.in_progress = s.in_progress
          /\ t.status = s.status /\ Shrinks(s, t)
      BY <2>2, <3>1, Zenon DEF Calm, Shrinks
    <3>. QED  BY <1>1, <2>2, <2>3, <3>2
  <2>4. CASE ~u.in_progress[g]
    <3>1. t \in validate_round(u, g)
      BY <1>7, <2>4
    <3>2. Elsewhere(u, t, g) /\ Shrinks(u, t)
      BY <1>1, <2>1, <3>1, ValidateRoundDraws
    <3>3. Validated(u.roster[g], On(u), t, g)
      BY <1>1, <2>1, <2>2, <2>4, <3>1, ValidateRoundValidates
    <3>4. On(u) \subseteq On(s) /\ Shrinks(s, t)
      BY <2>2, <3>2, ShrinksOn, Zenon DEF Shrinks
    <3>. QED  BY <2>2, <2>4, <3>2, <3>3, <3>4 DEF Elsewhere
  <2>. QED  BY <2>3, <2>4
<1>. QED  BY <1>4, <1>6, <1>7

\* Removing who is not in the list changes nothing.
LEMMA RemoveOfNobody ==
  ASSUME NEW r, IsRoster(r, Names), IsSound(r), NEW p \in Names, p \notin Members(r)
  PROVE  LET left == remove_player(r, p)
         IN  left.list = r.list /\ left.dead = r.dead /\ left.live = r.live
<1>1. PICK list \in Seq(Names), live \in Seq(Names) : list = r.list /\ live = r.live
  BY DEF IsRoster
<1>2. \A i \in 1..Len(list) : list[i] # p
  BY <1>1 DEF Members, ToSet
<1>3. \A i \in 1..Len(live) : live[i] # p
  <2>1. IsTail(live, list)
    BY <1>1 DEF IsSound
  <2>2. \A i \in 1..Len(live) :
          /\ live[i] = list[Len(list) - Len(live) + i]
          /\ Len(list) - Len(live) + i \in 1..Len(list)
    BY <2>1 DEF IsTail
  <2>. QED  BY <1>2, <2>2
<1>4. FirstIn(list, {p}) = 0 /\ FirstIn(live, {p}) = 0
  BY <1>2, <1>3, FirstInIsFirst
<1>5. Without(list, p) = list /\ Without(live, p) = live
  BY <1>4, WithoutCuts
<1>. QED  BY <1>1, <1>4, <1>5 DEF remove_player

\* What a seat does to the lists: the player is added to the list of its game, from
\* which it was removed first if it was there, and removed from the one it leaves.
LEMMA SeatView ==
  ASSUME NEW s, Seating(s), NEW p \in Names, FreeGames(s) # {}, NEW g \in Games
  PROVE  LET t == seat(s, p)
         IN  IF g = t.game[p]
             THEN t.roster[g] = add_player(remove_player(s.roster[g], p), p)
             ELSE IF g = s.game[p] THEN t.roster[g] = remove_player(s.roster[g], p)
             ELSE t.roster[g] = s.roster[g]
<1> DEFINE to == Min(FreeGames(s))
           from == s.game[p]
           u == unlink(s, p)
           longer == add_player(u.roster[to], p)
           t == seat(s, p)
           history == IF s.game[p] \in {NoGame, to} THEN u.history
                      ELSE u.history \cup {"displaced"}
<1>1. to \in Games
  <2>1. FreeGames(s) \in SUBSET Nat
    BY ConstantsAssumption DEF FreeGames, Games
  <2>2. to \in FreeGames(s)
    BY <2>1, MinIsLeast
  <2>. QED  BY <2>2 DEF FreeGames
<1>2. IsLobby(s) /\ IsLobby(u)
  BY UnlinkIsGood DEF Seating
<1>3. t = [u EXCEPT !.game = [@ EXCEPT ![p] = to],
                    !.cur_capacity = [@ EXCEPT ![to] = u.cur_capacity[to] + 1],
                    !.roster = [@ EXCEPT ![to] = longer],
                    !.history = history]
  BY Zenon DEF seat
<1>4. IF from = NoGame THEN u.roster = s.roster
      ELSE u.roster = [s.roster EXCEPT ![from] = remove_player(s.roster[from], p)]
  <2>1. CASE from = NoGame
    BY <2>1, Zenon DEF unlink
  <2>2. CASE from # NoGame
    <3>1. u = [s EXCEPT !.roster = [@ EXCEPT ![from] = remove_player(s.roster[from], p)],
                        !.game = [@ EXCEPT ![p] = NoGame]]
      BY <2>2, Zenon DEF unlink
    <3>. HIDE DEF u, from
    <3>. QED  BY <1>2, <2>2, <3>1, SMT DEF IsLobby
  <2>. QED  BY <2>1, <2>2
<1>5. from = NoGame \/ from \in Games
  BY <1>2 DEF IsLobby
<1>6. NoGame \notin Games /\ DOMAIN s.roster = Games
  BY <1>2 DEF Games, NoGame, IsLobby
<1>7. \A h \in Games :
        u.roster[h] = IF h = from THEN remove_player(s.roster[h], p) ELSE s.roster[h]
  BY <1>4, <1>5, <1>6
<1>8. /\ t.game[p] = to /\ t.roster[to] = add_player(u.roster[to], p)
      /\ \A h \in Games \ {to} : t.roster[h] = u.roster[h]
  <2>. HIDE DEF to, u, longer, history
  <2>1. /\ t.game[p] = to /\ t.roster[to] = longer
        /\ \A h \in Games \ {to} : t.roster[h] = u.roster[h]
    BY <1>1, <1>2, <1>3, SMT DEF IsLobby
  <2>. QED  BY <2>1 DEF longer
<1>9. to # from => add_player(remove_player(s.roster[to], p), p) = add_player(s.roster[to], p)
  <2>1. ASSUME to # from PROVE p \notin Members(s.roster[to])
    BY <1>1, <2>1, Zenon DEF Seating, Placed
  <2>2. IsRoster(s.roster[to], Names) /\ IsSound(s.roster[to])
    BY <1>1, <1>2 DEF Seating, IsLobby, Placed, Rotating, IsSound
  <2>. QED  BY <2>1, <2>2, RemoveOfNobody DEF add_player
<1>. HIDE DEF to, from, u, t
<1>10. IF g = to THEN t.roster[g] = add_player(remove_player(s.roster[g], p), p)
       ELSE IF g = from THEN t.roster[g] = remove_player(s.roster[g], p)
       ELSE t.roster[g] = s.roster[g]
  <2>1. CASE g = to
    BY <1>1, <1>7, <1>8, <1>9, <2>1, Zenon
  <2>2. CASE g # to
    <3>1. t.roster[g] = u.roster[g]
      BY <1>8, <2>2
    <3>. QED  BY <1>7, <2>2, <3>1, Zenon
  <2>. QED  BY <2>1, <2>2
<1>. QED  BY <1>8, <1>10 DEF t, from
\* A login that is not turned away, of a client found at its own descriptor: whichever
\* game is looked at, the player enters it or departs from it, or it is left alone.
LEMMA LoginView ==
  ASSUME NEW s, Good(s), Mapped(s), Quiet(s), s.status = "running", NEW n \in Names,
         NEW f \in Fds, f \notin s.open, NEW t \in login(s, n, f),
         ~Turned(t.history), NEW g \in Games
  PROVE  Left(s, t, g) \/ Departed(s, t, g, n) \/ Entered(s, t, g, n)
<1> DEFINE accepted == [s EXCEPT !.open = @ \cup {f}]
           u == update_players(accepted, n, f)
           p == get_player_by_fd(u, f)
           closed == disconnect_fds(accepted, {f})
<1>1. IsLobby(s) /\ Placed(s) /\ Rotating(s) /\ s.pfds = s.open
  BY DEF Good
<1>2. IsLobby(accepted)
  BY <1>1, SMT DEF IsLobby
<1>3. /\ accepted.roster = s.roster /\ accepted.game = s.game
      /\ accepted.in_progress = s.in_progress /\ accepted.status = s.status
      /\ accepted.pfds = s.pfds /\ accepted.open = s.open \cup {f}
      /\ accepted.fd = s.fd /\ accepted.is_online = s.is_online
      /\ accepted.all_players = s.all_players
  BY <1>1, SMT DEF IsLobby
<1>4. \/ t = closed
      \/ /\ ~s.is_online[n]
         /\ \/ t \in welcome(u, p) /\ ~NeedsGame(u, p)
            \/ t = disconnect_fds(turn_away(u, p), {f})
            \/ FreeGames(u) # {} /\ t \in welcome(seat(u, p), p)
  BY Zenon DEF login, already_online
<1>. HIDE DEF accepted
<1>5. CASE t = closed
  <2>1. Calm(accepted, t)
    BY <1>2, <1>5, DisconnectIsCalm
  <2>2. t.roster = s.roster /\ t.in_progress = s.in_progress /\ Shrinks(s, t)
    BY <1>3, <2>1, Zenon DEF Calm, Shrinks
  <2>. QED  BY <2>2, ShrinksOn DEF Left
<1>6. Seating(accepted)
  BY <1>1, <1>2, <1>3, PlacedByFields, RotatingByFields DEF Seating
<1>7. /\ Seating(u) /\ u.open = s.open \cup {f} /\ u.fd[n] = f /\ n \in Known(u)
      /\ u.fd = [s.fd EXCEPT ![n] = f] /\ u.is_online = [s.is_online EXCEPT ![n] = TRUE]
      /\ u.game = s.game /\ u.pfds = s.pfds /\ u.in_progress = s.in_progress
      /\ u.roster = s.roster /\ Known(s) \subseteq Known(u)
  <2>1. Known(accepted) = Known(s)
    BY <1>3, Zenon DEF Known
  <2>2. /\ Seating(u) /\ u.open = accepted.open /\ u.fd[n] = f /\ n \in Known(u)
    BY <1>6, UpdatePlayersIsGood
  <2>3. /\ u.fd = [accepted.fd EXCEPT ![n] = f]
        /\ u.is_online = [accepted.is_online EXCEPT ![n] = TRUE]
        /\ u.game = accepted.game /\ u.pfds = accepted.pfds
        /\ u.in_progress = accepted.in_progress
        /\ Known(accepted) \subseteq Known(u)
    BY <1>2, UpdateFields
  <2>4. u.roster = accepted.roster
    BY <1>2, SMT DEF update_players, IsLobby
  <2>. HIDE DEF u
  <2>. QED  BY <1>3, <2>1, <2>2, <2>3, <2>4
<1>. HIDE DEF u
<1>8. ASSUME ~s.is_online[n] PROVE p = n
  <2>1. Pending(u, n, f)
    BY <1>1, <1>7, <1>8, UpdateIsPending DEF Seating
  <2>. QED  BY <1>7, <2>1, PendingIsFound DEF Seating
<1>. HIDE DEF p
<1>9. On(u) = On(s) \cup {n}
  BY <1>1, <1>7 DEF On, IsLobby
<1>10. n \in Members(s.roster[g]) <=> s.game[n] = g
  BY <1>1, Zenon DEF Placed
<1>11. ~s.is_online[n] => n \notin On(s)
  BY DEF On
<1>12. CASE ~s.is_online[n] /\ t \in welcome(u, p) /\ ~NeedsGame(u, p)
  <2>1. p = n
    BY <1>8, <1>12
  <2>2. u.game[n] \in Games /\ u.in_progress[u.game[n]]
    BY <1>7, <1>12, <2>1 DEF NeedsGame, Seating, IsLobby
  <2>3. u.open = u.pfds \cup {u.fd[n]}
    BY <1>1, <1>7
  <2>4. /\ Shrinks(u, t)
        /\ \A h \in Games \ {u.game[n]} :
             t.roster[h] = u.roster[h] /\ t.in_progress[h] = u.in_progress[h]
        /\ t.roster[u.game[n]] = u.roster[u.game[n]] /\ t.in_progress[u.game[n]]
        /\ t.status = "running"
    <3> DEFINE to == u.game[n]
    <3>1. Seating(u) /\ to \in Games /\ u.fd[n] \in Fds /\ t \in welcome(u, n)
      BY <1>7, <1>12, <2>1, <2>2
    <3>2. /\ Shrinks(u, t)
          /\ \A h \in Games \ {to} :
               t.roster[h] = u.roster[h] /\ t.in_progress[h] = u.in_progress[h]
          /\ u.in_progress[to] =>
               t.roster[to] = u.roster[to] /\ t.in_progress[to] /\ t.status = "running"
      BY <2>3, <3>1, WelcomeView
    <3>. QED  BY <2>2, <3>2
  <2>5. On(t) \subseteq On(s) \cup {n}
    BY <1>9, <2>4, ShrinksOn
  <2>6. CASE g = s.game[n]
    <3>1. Joined(s, t, g, n, s.roster[g])
      BY <1>7, <2>2, <2>4, <2>5, <2>6 DEF Joined
    <3>. QED  BY <1>7, <1>10, <1>11, <1>12, <2>2, <2>6, <3>1 DEF Entered
  <2>7. CASE g # s.game[n]
    BY <1>7, <1>10, <2>4, <2>5, <2>7 DEF Left
  <2>. QED  BY <2>6, <2>7
<1>13. CASE t = disconnect_fds(turn_away(u, p), {f})
  <2>1. p \in Names
    BY <1>7, PlayerByFd DEF p, Seating
  <2>. QED  BY <1>7, <1>13, <2>1, TurnAwayFields
<1>14. CASE ~s.is_online[n] /\ FreeGames(u) # {} /\ t \in welcome(seat(u, p), p)
  <2> DEFINE v == seat(u, n)
             r == add_player(remove_player(s.roster[g], n), n)
  <2>1. p = n
    BY <1>8, <1>14
  <2>2. Seating(v) /\ v.game[n] \in Games /\ v.open = u.open
    BY <1>7, <1>14, SeatIsGood
  <2>3. /\ v.fd = u.fd /\ v.is_online = u.is_online /\ v.pfds = u.pfds
        /\ v.in_progress = u.in_progress
    <3>1. Seating(u) /\ FreeGames(u) # {}
      BY <1>7, <1>14
    <3>. QED  BY <3>1, SeatFields, Zenon
  <2>4. IF g = v.game[n] THEN v.roster[g] = r
        ELSE IF g = u.game[n] THEN v.roster[g] = remove_player(s.roster[g], n)
        ELSE v.roster[g] = s.roster[g]
    <3>1. Seating(u) /\ FreeGames(u) # {}
      BY <1>7, <1>14
    <3>2. IF g = v.game[n] THEN v.roster[g] = add_player(remove_player(u.roster[g], n), n)
          ELSE IF g = u.game[n] THEN v.roster[g] = remove_player(u.roster[g], n)
          ELSE v.roster[g] = u.roster[g]
      BY <3>1, SeatView
    <3>. QED  BY <1>7, <3>2, Zenon
  <2>5. t \in welcome(v, n)
    BY <1>14, <2>1
  <2>6. /\ IsRoster(s.roster[g], Names) /\ IsSound(s.roster[g])
        /\ Members(remove_player(s.roster[g], n)) = Members(s.roster[g]) \ {n}
        /\ Members(r) = Members(s.roster[g]) \cup {n}
    <3>1. IsRoster(s.roster[g], Names) /\ IsSound(s.roster[g])
      BY <1>1 DEF IsLobby, Placed, Rotating, IsSound
    <3>2. /\ IsRoster(remove_player(s.roster[g], n), Names)
          /\ IsSound(remove_player(s.roster[g], n))
          /\ Members(remove_player(s.roster[g], n)) = Members(s.roster[g]) \ {n}
      BY <3>1, RemoveKeepsSound, RosterTypes
    <3>3. n \notin Members(remove_player(s.roster[g], n))
      BY <3>2
    <3>4. Members(r) = Members(remove_player(s.roster[g], n)) \cup {n}
      BY <3>2, <3>3, AddKeepsSound
    <3>5. Members(s.roster[g]) \in SUBSET Names
      BY <1>1, OnlineAreNames
    <3>. QED  BY <3>1, <3>2, <3>4
  <2>. HIDE DEF v, r
  <2>7. v.open = v.pfds \cup {v.fd[n]} /\ v.fd[n] \in Fds
    BY <1>1, <1>7, <2>2, <2>3
  <2> DEFINE to == v.game[n]
  <2>8. /\ Shrinks(v, t)
        /\ \A h \in Games \ {to} :
             t.roster[h] = v.roster[h] /\ t.in_progress[h] = v.in_progress[h]
        /\ v.in_progress[to] =>
             t.roster[to] = v.roster[to] /\ t.in_progress[to] /\ t.status = "running"
        /\ ~v.in_progress[to] =>
             \/ /\ t.roster[to] = v.roster[to] /\ ~t.in_progress[to]
                /\ t.status = "running" /\ ~t.is_online[n]
             \/ \E on \in SUBSET On(v) : Validated(v.roster[to], on, t, to)
    BY <2>2, <2>5, <2>7, WelcomeView
  <2>9. On(v) = On(s) \cup {n}
    BY <1>9, <2>3 DEF On
  <2>10. On(t) \subseteq On(s) \cup {n}
    BY <2>8, <2>9, ShrinksOn
  <2>11. CASE g = to
    <3>1. v.roster[g] = r /\ v.in_progress[g] = s.in_progress[g]
      BY <1>7, <2>3, <2>4, <2>11
    <3>2. CASE s.in_progress[g]
      <4>1. Joined(s, t, g, n, r)
        BY <2>8, <2>10, <2>11, <3>1, <3>2 DEF Joined
      <4>. QED  BY <1>11, <1>14, <4>1 DEF Entered, r
    <3>3. ASSUME ~s.in_progress[g], NEW on \in SUBSET On(v), Validated(r, on, t, g)
          PROVE  Entered(s, t, g, n)
      <4>1. on \in SUBSET Names /\ on \cap Members(r) \subseteq On(s) \cup {n}
        BY <2>9 DEF On
      <4>2. Joined(s, t, g, n, r)
        BY <3>3, <4>1 DEF Joined
      <4>. QED  BY <1>11, <1>14, <4>2 DEF Entered, r
    <3>4. CASE /\ ~s.in_progress[g]
               /\ t.roster[g] = r /\ ~t.in_progress[g]
               /\ t.status = "running" /\ ~t.is_online[n]
      <4>1. n \notin On(t)
        BY <3>4 DEF On
      <4>2. On(t) \cap Members(r) \subseteq Seats(s, g)
        <5>1. Seats(s, g) = On(s) \cap Members(s.roster[g])
          BY <1>1, SeatsAreOnline, OnlineIsOn
        <5>. QED  BY <2>6, <2>10, <4>1, <5>1
      <4>3. Cardinality(Seats(s, g)) < MIN_PLAYERS /\ Seats(s, g) \in SUBSET Names
        BY <3>4 DEF Quiet, Seats
      <4>4. Cardinality(On(t) \cap Members(r)) < MIN_PLAYERS
        BY <4>2, <4>3, FewerAreFew
      <4>5. Validated(r, On(t), t, g)
        BY <3>4, <4>4 DEF Validated
      <4>6. On(t) \in SUBSET On(v)
        BY <2>8, ShrinksOn
      <4>. QED  BY <3>3, <3>4, <4>5, <4>6
    <3>. QED  BY <2>8, <2>11, <3>1, <3>2, <3>3, <3>4
  <2>12. CASE g # to /\ g = s.game[n]
    <3>1. t.roster[g] = remove_player(s.roster[g], n) /\ t.in_progress[g] = s.in_progress[g]
      BY <1>7, <2>3, <2>4, <2>8, <2>12
    <3>. QED  BY <1>10, <1>11, <1>14, <2>6, <2>10, <2>12, <3>1 DEF Departed
  <2>13. CASE g # to /\ g # s.game[n]
    <3>1. t.roster[g] = s.roster[g] /\ t.in_progress[g] = s.in_progress[g]
      BY <1>7, <2>3, <2>4, <2>8, <2>13
    <3>. QED  BY <1>10, <2>10, <2>13, <3>1 DEF Left
  <2>. QED  BY <2>11, <2>12, <2>13
<1>. QED  BY <1>4, <1>5, <1>12, <1>13, <1>14

LEMMA ReadableView ==
  ASSUME NEW s, Good(s), NEW f, NEW t \in readable(s, f), NEW g \in Games
  PROVE  Left(s, t, g)
<1> DEFINE p == get_player_by_fd(s, f)
<1>1. IsLobby(s)
  BY DEF Good
<1>2. p # NULL => p \in Names
  BY <1>1, PlayerByFd
<1>3. ASSUME Calm(s, t) PROVE Left(s, t, g)
  <2>1. t.roster = s.roster /\ t.in_progress = s.in_progress /\ Shrinks(s, t)
    BY <1>3, CalmView
  <2>. QED  BY <2>1, ShrinksOn DEF Left
<1>4. \/ t = disconnect_fds(s, {f})
      \/ t = [s EXCEPT !.status = "segfault"]
      \/ p # NULL /\ t \in remove_player_from_server(s, p)
      \/ p # NULL /\ s.game[p] # NoGame /\ t \in broadcast_buffer(s, s.game[p], s.fd[p])
  BY Zenon DEF readable, manage_player_action
<1>5. CASE t = disconnect_fds(s, {f})
  BY <1>1, <1>3, <1>5, DisconnectIsCalm
<1>6. CASE t = [s EXCEPT !.status = "segfault"]
  <2>1. t.roster = s.roster /\ t.in_progress = s.in_progress /\ t.is_online = s.is_online
    BY <1>1, <1>6, SMT DEF IsLobby
  <2>. QED  BY <2>1 DEF Left, On
<1>7. CASE p # NULL /\ t \in remove_player_from_server(s, p)
  BY <1>1, <1>2, <1>3, <1>7, RemoveFromServerIsCalm
<1>8. CASE p # NULL /\ s.game[p] # NoGame /\ t \in broadcast_buffer(s, s.game[p], s.fd[p])
  <2>1. s.game[p] \in Games
    BY <1>1, <1>2, <1>8 DEF IsLobby
  <2>. QED  BY <1>1, <1>3, <1>8, <2>1, BroadcastIsCalm
<1>. QED  BY <1>4, <1>5, <1>6, <1>7, <1>8
-----------------------------------------------------------------------------
(* The refinement *)

\* The operators of PlayerList as GameRoster has them.
LEMMA SameOperators ==
  /\ \A r : Game!Members(r) = Members(r)
  /\ \A r, p : Game!add_player(r, p) = add_player(r, p)
  /\ \A r, p : Game!remove_player(r, p) = remove_player(r, p)
  /\ \A r, on : Game!HasNextDrawer(r, on) <=> HasNextDrawer(r, on)
  /\ \A r, on : Game!get_next_drawing(r, on) = get_next_drawing(r, on)
  /\ \A S : Game!Cardinality(S) = Cardinality(S)
<1>1. \A r : Game!Members(r) = Members(r)
  BY DEF Game!Members, Members, Game!ToSet, ToSet
<1>2. \A seq, S : Game!FirstIn(seq, S) = FirstIn(seq, S)
  BY DEF Game!FirstIn, FirstIn, Game!Min, Min
<1>3. \A seq, k : Game!From(seq, k) = From(seq, k)
  BY DEF Game!From, From
<1>4. \A seq, p : Game!Without(seq, p) = Without(seq, p)
  BY <1>2 DEF Game!Without, Without
<1>5. \A r, p : Game!add_player(r, p) = add_player(r, p)
  BY DEF Game!add_player, add_player
<1>6. \A r, p : Game!remove_player(r, p) = remove_player(r, p)
  BY <1>2, <1>4, Zenon DEF Game!remove_player, remove_player
<1>7. \A r : Game!Rotation(r) = Rotation(r)
  BY DEF Game!Rotation, Rotation
<1>8. \A r : Game!Ahead(r) = Ahead(r)
  BY <1>3, <1>7, Zenon DEF Game!Ahead, Ahead
<1>9. \A r, on : Game!NextAhead(r, on) = NextAhead(r, on)
  BY <1>2, <1>8, Zenon DEF Game!NextAhead, NextAhead
<1>10. \A r, on : Game!NextAround(r, on) = NextAround(r, on)
  BY <1>2, Zenon DEF Game!NextAround, NextAround
<1>11. \A r, on : Game!HasNextDrawer(r, on) <=> HasNextDrawer(r, on)
  BY <1>8, <1>9, <1>10, Zenon
  DEF Game!HasNextDrawer, HasNextDrawer, Game!Wraps, Wraps
<1>12. \A r, k : Game!PointAt(r, k) = PointAt(r, k)
  BY <1>3, Zenon DEF Game!PointAt, PointAt
<1>13. \A r, k : Game!Advance(r, k) = Advance(r, k)
  BY <1>3, Zenon DEF Game!Advance, Advance
<1>14. \A r, on : Game!get_next_drawing(r, on) = get_next_drawing(r, on)
  BY <1>7, <1>9, <1>10, <1>12, <1>13, Zenon
  DEF Game!get_next_drawing, get_next_drawing
<1>15. \A S : Game!Cardinality(S) = Cardinality(S)
  BY DEF Game!Cardinality, Cardinality
<1>. QED  BY <1>1, <1>5, <1>6, <1>11, <1>14, <1>15, Zenon

\* The actions of GameRoster, by the predicates on two lobbies.
LEMMA ValidatedMaps ==
  ASSUME NEW r, NEW on, Validated(r, on, lobby', Watched)
  PROVE  Game!ValidateRound(r, on)
<1>1. On(lobby') \in SUBSET Names /\ On(lobby') = {p \in Names : lobby'.is_online[p]}
  BY DEF On
<1>2. On(lobby') \cap Members(r) \subseteq on => Game!OnlyLost(r, on)
  BY <1>1, SameOperators DEF Game!OnlyLost
<1>3. Started(r, on, lobby', Watched) => Game!StartRound(r, on)
  BY <1>2, SameOperators DEF Started, Game!StartRound
<1>. QED  BY <1>2, <1>3, SameOperators
     DEF Validated, Game!ValidateRound, MIN_PLAYERS, Game!MIN_PLAYERS

LEMMA LeftMaps ==
  ASSUME lobby.status = "running", Left(lobby, lobby', Watched)
  PROVE  Game!Next
<1>1. Game!OnlyLost(lobby.roster[Watched], On(lobby))
  BY SameOperators DEF Left, On, Game!OnlyLost
<1>2. Game!Leave
  BY <1>1 DEF Left, On, Game!Leave
<1>. QED  BY <1>2 DEF Game!Next

LEMMA DepartedMaps ==
  ASSUME lobby.status = "running", NEW n \in Names,
         Departed(lobby, lobby', Watched, n)
  PROVE  Game!Next
<1>1. Game!OnlyLost(lobby'.roster[Watched], On(lobby))
  BY SameOperators DEF Departed, On, Game!OnlyLost
<1>2. Game!Depart(n)
  BY <1>1, SameOperators DEF Departed, On, Game!Depart
<1>. QED  BY <1>2 DEF Game!Next

LEMMA EnteredMaps ==
  ASSUME lobby.status = "running", lobby.in_progress[Watched] \in BOOLEAN,
         lobby'.in_progress[Watched] \in BOOLEAN, NEW n \in Names,
         Entered(lobby, lobby', Watched, n)
  PROVE  Game!Next
<1> DEFINE roster == lobby.roster[Watched]
           seated == add_player(remove_player(roster, n), n)
           lists == {Game!add_player(Game!remove_player(roster, n), n)}
                      \cup {old \in {roster} : /\ lobby.in_progress[Watched]
                                               /\ n \in Game!Members(roster)}
\* Whoever may be in the list afterwards.
<1>1. PICK r \in lists : Joined(lobby, lobby', Watched, n, r)
  <2>1. CASE Joined(lobby, lobby', Watched, n, seated)
    BY <2>1, SameOperators
  <2>2. CASE /\ lobby.in_progress[Watched] /\ n \in Members(roster)
             /\ Joined(lobby, lobby', Watched, n, roster)
    BY <2>2, SameOperators
  <2>. QED  BY <2>1, <2>2 DEF Entered
<1>2. n \notin On(lobby)
  BY DEF Entered
<1>3. CASE lobby.in_progress[Watched]
  <2>1. /\ lobby'.roster[Watched] = r /\ lobby'.in_progress[Watched]
        /\ lobby'.status = "running"
        /\ On(lobby') \cap Members(r) \subseteq On(lobby) \cup {n}
    BY <1>1, <1>3 DEF Joined
  <2>2. Game!OnlyLost(r, On(lobby) \cup {n})
    BY <2>1, SameOperators DEF On, Game!OnlyLost
  <2>. HIDE DEF lists
  <2>3. Game!Enter(n)
    BY <1>1, <1>2, <1>3, <2>1, <2>2 DEF Game!Enter, On, lists
  <2>. QED  BY <2>3 DEF Game!Next
<1>4. CASE ~lobby.in_progress[Watched]
  <2>1. PICK on \in SUBSET Names :
          /\ on \cap Members(r) \subseteq On(lobby) \cup {n}
          /\ Validated(r, on, lobby', Watched)
    BY <1>1, <1>4 DEF Joined
  <2>2. on \in Game!Counted(r, On(lobby) \cup {n}) /\ Game!ValidateRound(r, on)
    BY <2>1, SameOperators, ValidatedMaps DEF Game!Counted
  <2>3. Game!Enter(n)
    BY <1>1, <1>2, <1>4, <2>2 DEF Game!Enter, On
  <2>. QED  BY <2>3 DEF Game!Next
<1>. QED  BY <1>3, <1>4

\* Every handler of the server is a step of GameRoster, for any one of its games.
LEMMA NextIsRoster ==
  QInv /\ [Next]_vars /\ ~Turned(lobby'.history) => Game!Next \/ UNCHANGED Game!vars
<1> SUFFICES ASSUME QInv, [Next]_vars, ~Turned(lobby'.history)
             PROVE  Game!Next \/ UNCHANGED Game!vars
  OBVIOUS
<1> DEFINE g == Watched
<1>1. /\ Good(lobby) /\ IsLobby(lobby) /\ lobby.pfds = lobby.open /\ g \in Games
      /\ Turned(lobby.history) \/ (Mapped(lobby) /\ Quiet(lobby))
  BY WatchedAssumption DEF QInv, MInv, IInv, Good
<1>2. Turned(lobby.history) => Turned(lobby'.history)
  BY NextStays DEF Stays, QInv, MInv
<1>3. Mapped(lobby) /\ Quiet(lobby)
  BY <1>1, <1>2
<1>4. IsLobby(lobby')
  BY NextKeepsGood DEF QInv, MInv, IInv, Good
<1>5. lobby.in_progress[g] \in BOOLEAN /\ lobby'.in_progress[g] \in BOOLEAN
  BY <1>1, <1>4 DEF IsLobby
<1>6. ASSUME NEW n \in Names, Connect(n) PROVE Game!Next
  <2> DEFINE f == Min(Fds \ lobby.open)
  <2>1. f \in Fds \ lobby.open
    <3>1. lobby.open \in SUBSET Fds /\ lobby.open # Fds
      BY <1>1, <1>6, Zenon DEF Connect, IsLobby
    <3>2. Fds \in SUBSET Nat
      BY ConstantsAssumption DEF Fds
    <3>3. Fds \ lobby.open \in SUBSET Nat /\ Fds \ lobby.open # {}
      BY <3>1, <3>2
    <3>. QED  BY <3>3, MinIsLeast
  <2>2. lobby.status = "running" /\ lobby' \in login(lobby, n, f)
    BY <1>6 DEF Connect, Running
  <2>. HIDE DEF f
  <2>3. \/ Left(lobby, lobby', g) \/ Departed(lobby, lobby', g, n)
        \/ Entered(lobby, lobby', g, n)
    BY <1>1, <1>3, <2>1, <2>2, LoginView
  <2>. QED  BY <1>5, <2>2, <2>3, LeftMaps, DepartedMaps, EnteredMaps
<1>7. ASSUME NEW f \in Fds, Readable(f) PROVE Game!Next
  <2>1. lobby.status = "running" /\ Left(lobby, lobby', g)
    BY <1>1, <1>7, ReadableView DEF Readable, Running
  <2>. QED  BY <2>1, LeftMaps
<1>8. ASSUME NEW h \in Games, EndRound(h) PROVE Game!Next
  <2>1. lobby.status = "running" /\ lobby.in_progress[h] /\ lobby' \in end_round(lobby, h)
    BY <1>8 DEF EndRound, Running
  <2>2. CASE g = h
    <3>1. PICK on \in SUBSET On(lobby) : Validated(lobby.roster[g], on, lobby', g)
      BY <1>1, <2>1, <2>2, EndRoundValidates
    <3>2. PICK r : r = lobby.roster[g]
      OBVIOUS
    <3>3. Game!ValidateRound(r, on)
      <4>1. Validated(r, on, lobby', Watched)
        BY <3>1, <3>2
      <4>. QED  BY <4>1, ValidatedMaps
    <3>4. on \in Game!Counted(lobby.roster[g], {p \in Names : lobby.is_online[p]})
      BY DEF Game!Counted, On
    <3>5. Game!EndRound
      BY <2>1, <2>2, <3>2, <3>3, <3>4
      DEF Game!EndRound, Game!ValidateRound, Game!StartRound, Game!OnlyLost
    <3>. QED  BY <3>5 DEF Game!Next
  <2>3. CASE g # h
    <3>1. Elsewhere(lobby, lobby', h) /\ Shrinks(lobby, lobby')
      BY <1>1, <2>1, EndRoundDraws
    <3>2. Left(lobby, lobby', g)
      BY <1>1, <2>3, <3>1, ShrinksOn DEF Left, Elsewhere
    <3>. QED  BY <2>1, <3>2, LeftMaps
  <2>. QED  BY <2>2, <2>3
<1>9. ASSUME NEW h \in Games, Tick(h) PROVE UNCHANGED Game!vars
  <2> DEFINE later == [lobby.phase EXCEPT ![h] =
                         IF lobby.phase[h] = "countdown" THEN "drawing" ELSE "due"]
  <2>1. lobby' = [lobby EXCEPT !.phase = later]
    BY <1>9, Zenon DEF Tick
  <2>. HIDE DEF later
  <2>2. /\ lobby'.roster = lobby.roster /\ lobby'.in_progress = lobby.in_progress
        /\ lobby'.status = lobby.status /\ lobby'.is_online = lobby.is_online
    BY <1>1, <2>1, SMT DEF IsLobby
  <2>. QED  BY <2>2 DEF Game!vars
<1>10. CASE UNCHANGED vars
  BY <1>10 DEF vars, Game!vars
<1>. QED  BY <1>6, <1>7, <1>8, <1>9, <1>10 DEF Next

LEMMA InitIsRoster == Init => Game!Init
<1> SUFFICES ASSUME Init PROVE Game!Init
  OBVIOUS
<1>1. /\ lobby.roster = [g \in Games |-> new_players] /\ lobby.status = "running"
      /\ lobby.in_progress = [g \in Games |-> FALSE]
      /\ lobby.is_online = [p \in Names |-> FALSE]
  BY DEF Init, initial_lobby
<1>2. Game!new_players = new_players
  BY DEF Game!new_players, new_players
<1>. QED  BY <1>1, <1>2, WatchedAssumption DEF Game!Init

\* The server implements GameRoster, whichever game is looked at: what the handlers,
\* their cascades and the logins into other games do to a game is to lose players, to
\* let one enter or depart, and to end its round.  No step merges two of these, takes a
\* player out of the list otherwise, or moves the drawing pointer but by
\* get_next_drawing_fd, until a login is answered SERVER_FULL.
THEOREM GamesImplementTheRoster == Spec => GameIsARoster
<1>1. QInv /\ [Next]_vars =>
        [~Turned(lobby'.history) => Game!Next \/ UNCHANGED Game!vars]_vars
  BY NextIsRoster
<1>. QED  BY <1>1, InitIsRoster, QuietInvariant, PTL DEF Spec, GameIsARoster
=============================================================================
