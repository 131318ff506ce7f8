----------------------------- MODULE GameServer -----------------------------
(***************************************************************************)
(* The single-threaded server: the lobby (lobby.c), its players and games  *)
(* (model/player.c, game.c), the handlers of the poll loop and the rounds  *)
(* (server.c), and the broadcasts that may remove players (the second half *)
(* of utils/stream_handlers.c).                                            *)
(*                                                                         *)
(* The C functions work on one global struct and call each other deeply: a *)
(* send that fails in a broadcast removes a player, which broadcasts       *)
(* again.  Each function is an operator here that takes the lobby it finds *)
(* and returns the set of the lobbies it may leave, one for each way the   *)
(* sends and receives inside it can turn out; an action picks one of the   *)
(* lobbies its whole handler may leave.                                    *)
(*                                                                         *)
(* Outside the program: accept returns the lowest free descriptor (POSIX), *)
(* a send or receive on an open descriptor may succeed or fail, one on a   *)
(* closed descriptor fails.  A failed send returns -1; that it may also    *)
(* raise SIGPIPE is left out.                                              *)
(***************************************************************************)
EXTENDS PlayerList

CONSTANTS
  Names,      \* the usernames clients log in with
  NULL,       \* no player
  LobbySize,  \* lobby_size: the number of games
  GameSize,   \* game_size: the seats of a game
  MaxFd,      \* client descriptors are 1..MaxFd
  MaxDrift    \* bound: no login while a seat count is below -MaxDrift

ASSUME ConstantsAssumption ==
  /\ IsFiniteSet(Names)
  /\ NULL \notin Names
  /\ LobbySize \in Nat
  /\ GameSize \in Nat
  /\ MaxFd \in Nat
  /\ MaxDrift \in Nat

VARIABLE lobby

vars == <<lobby>>

MIN_PLAYERS == 2
Games == 0..(LobbySize - 1)
NoGame == -1
Fds == 1..MaxFd
Listener == 0
NoFd == -1

\* What the client at the end of a connection was last told to do: START_AND_DRAW,
\* START_AND_GUESS, or neither since it logged in or since GAME_ENDS.
Roles == {"idle", "guess", "draw"}

\* The position of the clock in the round of a game: before start_sec, between the
\* two, or with less than SOCKOPT_TIMEOUT_SEC left until end_sec.
Phases == {"countdown", "drawing", "due"}

\* The process runs, has called exit() in start_round, or was killed by SIGSEGV.
Statuses == {"running", "exited", "segfault"}

\* What may have happened to a login, remembered for the properties only: it was
\* answered SERVER_FULL; it took a player out of the list of its game for good.
Mishaps == {"turned_away", "displaced"}

\* The type of the lobby.
IsLobby(s) ==
  /\ DOMAIN s = {"all_players", "fd", "is_online", "game", "roster",
                 "cur_capacity", "in_progress", "phase", "open", "pfds",
                 "told", "status", "history"}
  /\ s.all_players \in Seq(Names)
  /\ s.fd \in [Names -> Fds \cup {NoFd}]
  /\ s.is_online \in [Names -> BOOLEAN]
  /\ s.game \in [Names -> Games \cup {NoGame}]
  /\ DOMAIN s.roster = Games
  /\ \A g \in Games : IsRoster(s.roster[g], Names)
  /\ s.cur_capacity \in [Games -> Int]
  /\ \A g \in Games : s.cur_capacity[g] <= GameSize
  /\ s.in_progress \in [Games -> BOOLEAN]
  /\ s.phase \in [Games -> Phases]
  /\ s.open \in SUBSET Fds
  /\ s.pfds \in SUBSET Fds
  /\ s.told \in [Fds -> Roles]
  /\ s.status \in Statuses
  /\ s.history \in SUBSET Mishaps

\* initialize_lobby: no player, every game as new_game makes it, only the listener
\* polled.  start_sec and end_sec are 0, long past.
initial_lobby ==
  [all_players  |-> <<>>,
   fd           |-> [p \in Names |-> NoFd],
   is_online    |-> [p \in Names |-> FALSE],
   game         |-> [p \in Names |-> NoGame],
   roster       |-> [g \in Games |-> new_players],
   cur_capacity |-> [g \in Games |-> 0],
   in_progress  |-> [g \in Games |-> FALSE],
   phase        |-> [g \in Games |-> "due"],
   open         |-> {},
   pfds         |-> {},
   told         |-> [f \in Fds |-> "idle"],
   status       |-> "running",
   history      |-> {}]

Known(s) == ToSet(s.all_players)

\* Mutant: every online player is counted and sent to, whatever its game.
Online_anywhere(s, g) == {p \in Names : s.is_online[p]}

\* The players get_active_players counts, and those a broadcast reaches.
Online(s, g) == {p \in Members(s.roster[g]) : s.is_online[p]}

\* The first player of all_players with descriptor f, NULL if there is none.
get_player_by_fd(s, f) ==
  LET k == FirstIn(s.all_players, {p \in Names : s.fd[p] = f})
  IN  IF k = 0 THEN NULL ELSE s.all_players[k]

-----------------------------------------------------------------------------
(* Descriptors and removals *)

\* Mutant: the descriptor is closed and stays in pfds.
disconnect_fds_without_del(s, F) == [s EXCEPT !.open = @ \ F]

\* close() and del_from_pfds_by_fd, for each descriptor of F.
disconnect_fds(s, F) ==
  [s EXCEPT !.open = @ \ F,
            !.pfds = @ \ F,
            !.told = [f \in Fds |-> IF f \in F THEN "idle" ELSE s.told[f]]]

\* Mutant: a removed player keeps its descriptor.
Removal_keeping_fd(s, S) ==
  [disconnect_fds(s, {s.fd[p] : p \in S}) EXCEPT
     !.is_online = [p \in Names |-> p \notin S /\ s.is_online[p]],
     !.cur_capacity =
       [g \in Games |-> s.cur_capacity[g] - Cardinality({p \in S : s.game[p] = g})]]

\* Mutant: a removed player keeps its seat.
Removal_keeping_seat(s, S) ==
  [disconnect_fds(s, {s.fd[p] : p \in S}) EXCEPT
     !.is_online = [p \in Names |-> p \notin S /\ s.is_online[p]],
     !.fd = [p \in Names |-> IF p \in S THEN NoFd ELSE s.fd[p]]]

\* What remove_player_from_server does itself, for each player of S.
Removal(s, S) ==
  [disconnect_fds(s, {s.fd[p] : p \in S}) EXCEPT
     !.is_online = [p \in Names |-> p \notin S /\ s.is_online[p]],
     !.fd = [p \in Names |-> IF p \in S THEN NoFd ELSE s.fd[p]],
     !.cur_capacity =
       [g \in Games |-> s.cur_capacity[g] - Cardinality({p \in S : s.game[p] = g})]]

\* The sets of players that one broadcast to game g may remove.  A send that fails
\* removes its player, and that removal broadcasts to the whole game, sparing
\* nobody; so whoever is left at the end has been sent to after the last removal
\* and has an open descriptor.  Only when nobody is removed has the player at
\* sender_fd not been sent to.
Casualties(s, g, sender_fd) ==
  {S \in SUBSET Online(s, g) :
     /\ S # {} => \E p \in S : s.fd[p] # sender_fd
     /\ \A p \in Online(s, g) \ S :
          \/ s.fd[p] \in s.open \ {s.fd[q] : q \in S}
          \/ S = {} /\ s.fd[p] = sender_fd}

broadcast_buffer(s, g, sender_fd) ==
  {Removal(s, S) : S \in Casualties(s, g, sender_fd)}

\* broadcast_buffer with a message that gives those it reaches a new role.
broadcast_role(s, g, sender_fd, role) ==
  {[t EXCEPT !.told =
      [f \in Fds |-> IF f # sender_fd /\ \E p \in Online(t, g) : t.fd[p] = f
                     THEN role ELSE t.told[f]]] :
     t \in broadcast_buffer(s, g, sender_fd)}

\* Every online player is sent HEART_BEAT and must answer with it in time: each of
\* them may be removed, as in a broadcast that spares nobody.
broadcast_heartbeat(s, g) == broadcast_buffer(s, g, Listener)

remove_player_from_server(s, p) ==
  LET t == Removal(s, {p})
  IN  IF s.game[p] = NoGame THEN {t} ELSE broadcast_buffer(t, s.game[p], NoFd)

-----------------------------------------------------------------------------
(* Rounds *)

\* The drawing player is sent START_AND_DRAW, or removed when that fails; the others
\* are sent START_AND_GUESS.  Without a next drawing player the process exits.
start_round(s, g) ==
  IF ~HasNextDrawer(s.roster[g], {p \in Names : s.is_online[p]})
  THEN {[s EXCEPT !.in_progress = [@ EXCEPT ![g] = TRUE], !.status = "exited"]}
  ELSE LET r == get_next_drawing(s.roster[g], {p \in Names : s.is_online[p]})
           t == [s EXCEPT !.in_progress = [@ EXCEPT ![g] = TRUE],
                          !.roster = [@ EXCEPT ![g] = r]]
           drawing_fd == t.fd[Drawer(r)]
           sent == IF drawing_fd \in t.open
                   THEN {[t EXCEPT !.told = [@ EXCEPT ![drawing_fd] = "draw"]]}
                   ELSE {}
       IN  UNION {broadcast_role(u, g, drawing_fd, "guess") :
                    u \in sent \cup remove_player_from_server(t, Drawer(r))}

\* Mutant: MIN_PLAYERS are still too few.
validate_round_one_more(s, g) ==
  IF Cardinality(Online(s, g)) <= MIN_PLAYERS
  THEN broadcast_buffer(s, g, Listener)
  ELSE start_round([s EXCEPT !.phase = [@ EXCEPT ![g] = "countdown"]], g)

\* Too few players wait (WAITING_FOR_PLAYERS); enough of them get a word and a
\* round that starts in TIME_BEFORE_START_SEC seconds.
validate_round(s, g) ==
  IF Cardinality(Online(s, g)) < MIN_PLAYERS
  THEN broadcast_buffer(s, g, Listener)
  ELSE start_round([s EXCEPT !.phase = [@ EXCEPT ![g] = "countdown"]], g)

end_round(s, g) ==
  LET stopped == [s EXCEPT !.in_progress = [@ EXCEPT ![g] = FALSE]]
      ended == UNION {broadcast_role(t, g, Listener, "idle") :
                        t \in broadcast_heartbeat(stopped, g)}
  IN  UNION {validate_round(t, g) : t \in ended}

-----------------------------------------------------------------------------
(* Logins *)

\* Mutant: nobody is ever found to be online already.
already_online_never(s, n) == FALSE

\* update_players returns PLAYER_ALREADY_ONLINE.
already_online(s, n) == s.is_online[n]

\* A known player that is offline takes the new descriptor; an unknown one becomes
\* the head of all_players.
update_players(s, n, new_fd) ==
  [s EXCEPT !.all_players = IF n \in Known(s) THEN @ ELSE <<n>> \o @,
            !.fd = [@ EXCEPT ![n] = new_fd],
            !.is_online = [@ EXCEPT ![n] = TRUE]]

\* Mutant: the player stays in the list of the game it leaves.
unlink_from_player_only(s, p) == [s EXCEPT !.game = [@ EXCEPT ![p] = NoGame]]

\* The player leaves the list of its game.
unlink(s, p) ==
  IF s.game[p] = NoGame THEN s
  ELSE LET g == s.game[p]
       IN  [s EXCEPT !.roster = [@ EXCEPT ![g] = remove_player(s.roster[g], p)],
                     !.game = [@ EXCEPT ![p] = NoGame]]

\* Mutant: a full game takes one more.
FreeGames_one_more(s) == {g \in Games : s.cur_capacity[g] <= GameSize}

\* The games reassign_player may choose.
FreeGames(s) == {g \in Games : s.cur_capacity[g] < GameSize}

\* reassign_player returns 0: the player takes a seat of the first game with one.
seat(s, p) ==
  LET g == Min(FreeGames(s))
      t == unlink(s, p)
  IN  [t EXCEPT !.game = [@ EXCEPT ![p] = g],
                !.cur_capacity = [@ EXCEPT ![g] = t.cur_capacity[g] + 1],
                !.roster = [@ EXCEPT ![g] = add_player(t.roster[g], p)],
                !.history = IF s.game[p] \in {NoGame, g} THEN @
                            ELSE @ \cup {"displaced"}]

\* reassign_player returns -1 after SERVER_FULL: the player keeps the descriptor.
turn_away(s, p) ==
  LET t == unlink(s, p)
  IN  [t EXCEPT !.is_online = [@ EXCEPT ![p] = FALSE],
                !.history = @ \cup {"turned_away"} \cup
                              (IF s.game[p] = NoGame THEN {} ELSE {"displaced"})]

\* A returning player keeps its place in a game that is not full and in progress.
NeedsGame(s, p) ==
  \/ s.game[p] = NoGame
  \/ s.cur_capacity[s.game[p]] >= GameSize
  \/ ~s.in_progress[s.game[p]]

\* Mutant: whoever joins a running round is told to guess.
send_game_in_progress_guess(s, p) ==
  IF s.fd[p] \in s.open
  THEN {[s EXCEPT !.told = [@ EXCEPT ![s.fd[p]] = "guess"]]}
       \cup remove_player_from_server(s, p)
  ELSE remove_player_from_server(s, p)

\* The player is told its role in the running round, or removed when that fails,
\* even if a broadcast has removed it already.
send_game_in_progress(s, p) ==
  LET drawing_fd == s.fd[Drawer(s.roster[s.game[p]])]
      role == IF drawing_fd = s.fd[p] THEN "draw" ELSE "guess"
      sent == IF s.fd[p] \in s.open
              THEN {[s EXCEPT !.told = [@ EXCEPT ![s.fd[p]] = role]]}
              ELSE {}
  IN  sent \cup remove_player_from_server(s, p)

\* The listener branch of the poll loop after a login that succeeded, for the
\* player it finds under the new descriptor.
welcome(s, p) ==
  LET g == s.game[p]
      polled == [s EXCEPT !.pfds = @ \cup {s.fd[p]}]
      join(t) == IF t.in_progress[g] THEN send_game_in_progress(t, p)
                 ELSE validate_round(t, g)
  IN  remove_player_from_server(polled, p)
      \cup UNION {join(t) : t \in broadcast_buffer(polled, g, s.fd[p])}

\* manage_logging_player and the rest of the listener branch, for a client that logs
\* in as n on new_fd.  A malformed, incomplete or duplicate login only closes it.
login(s, n, new_fd) ==
  LET accepted == [s EXCEPT !.open = @ \cup {new_fd}]
      t == update_players(accepted, n, new_fd)
      p == get_player_by_fd(t, new_fd)
      closed == disconnect_fds(accepted, {new_fd})
  IN  IF already_online(s, n) THEN {closed}
      ELSE {closed} \cup
           (IF n \in Known(s) /\ ~NeedsGame(t, p) THEN welcome(t, p)
            ELSE IF FreeGames(t) = {}
            THEN {disconnect_fds(turn_away(t, p), {new_fd})}
            ELSE welcome(seat(t, p), p))

-----------------------------------------------------------------------------
(* Messages of clients *)

\* manage_player_action returns a positive number: the drawing player sent CANVAS, or
\* another one CHAT and was answered, and the rest of the game is sent the result.
manage_player_action(s, p) == broadcast_buffer(s, s.game[p], s.fd[p])

\* The other branch of the poll loop.  Whatever arrives while no round runs removes
\* its sender, and so does a hang-up, an incomplete message or one that does not
\* fit the sender's role.
readable(s, f) ==
  LET p == get_player_by_fd(s, f)
      g == s.game[p]
  IN  IF p = NULL THEN {disconnect_fds(s, {f})}
      ELSE IF g = NoGame THEN {[s EXCEPT !.status = "segfault"]}
      ELSE IF ~s.in_progress[g] \/ s.phase[g] = "countdown"
      THEN remove_player_from_server(s, p)
      ELSE remove_player_from_server(s, p) \cup manage_player_action(s, p)

-----------------------------------------------------------------------------
(* The poll loop *)

Init == lobby = initial_lobby

Running == lobby.status = "running"

\* accept and the login that follows.
Connect(n) ==
  /\ Running
  /\ lobby.open # Fds
  /\ \A g \in Games : lobby.cur_capacity[g] >= -MaxDrift
  /\ lobby' \in login(lobby, n, Min(Fds \ lobby.open))

\* A polled descriptor other than the listener, readable or thought to be.
Readable(f) ==
  /\ Running
  /\ f \in lobby.pfds
  /\ lobby' \in readable(lobby, f)

\* A pass of the loop finds the round of g within SOCKOPT_TIMEOUT_SEC of its end.
EndRound(g) ==
  /\ Running
  /\ lobby.in_progress[g]
  /\ lobby.phase[g] = "due"
  /\ lobby' \in end_round(lobby, g)

\* Time passes start_sec, or comes close enough to end_sec.
Tick(g) ==
  /\ Running
  /\ lobby.in_progress[g]
  /\ lobby.phase[g] # "due"
  /\ lobby' = [lobby EXCEPT !.phase =
                 [@ EXCEPT ![g] = IF lobby.phase[g] = "countdown" THEN "drawing" ELSE "due"]]

Next ==
  \/ \E n \in Names : Connect(n)
  \/ \E f \in Fds : Readable(f)
  \/ \E g \in Games : EndRound(g)
  \/ \E g \in Games : Tick(g)

Spec == Init /\ [][Next]_vars

-----------------------------------------------------------------------------
(* What the server promises *)

Turned(h) == "turned_away" \in h

\* The lobby has its type; cur_capacity never exceeds game_size, since every seat is
\* taken by reassign_player, which looks for a free one.
TypeOK == IsLobby(lobby)

\* No descriptor leaks: whichever way a handler ends, and however deep in a cascade
\* of failed broadcasts, exactly the open connections are polled (disconnect_fd
\* against the bare close of a failed login).
NoFdLeak == lobby.pfds = lobby.open

\* Player.game and the linked lists of the games agree: a player is in the list of
\* its game and in no other, once, through every reassignment.
OneGameEach ==
  \A g \in Games :
    /\ IsInjective(lobby.roster[g].list)
    /\ \A p \in Names : p \in Members(lobby.roster[g]) <=> lobby.game[p] = g

\* What drawing_player_list reaches, unlinked nodes apart, is always the end of the
\* linked list; and a round in progress has a drawing node, so that the message
\* handler and send_game_in_progress may dereference it.
RotationIsSound ==
  \A g \in Games :
    /\ IsTail(lobby.roster[g].live, lobby.roster[g].list)
    /\ lobby.in_progress[g] /\ Running => Rotation(lobby.roster[g]) # <<>>

\* "FD (SERVER) - PLAYER (CLIENT) Mapping" (game.c): the polled descriptors and the
\* players online are in bijection, a player offline has no descriptor, and one that
\* is online has a game.
Mapping ==
  /\ \A p \in Names : lobby.is_online[p] =>
       lobby.fd[p] \in lobby.pfds /\ lobby.game[p] # NoGame
  /\ \A p \in Names : ~lobby.is_online[p] => lobby.fd[p] = NoFd
  /\ \A p, q \in Names : lobby.is_online[p] /\ lobby.fd[p] = lobby.fd[q] => p = q
  /\ \A f \in lobby.pfds : \E p \in Names : lobby.fd[p] = f

\* The mapping holds as long as nobody was answered SERVER_FULL (who keeps the number
\* of a descriptor that is closed and used again).
FdIdentifiesPlayer == ~Turned(lobby.history) => Mapping

\* A seat that is counted is taken: cur_capacity never exceeds the players online,
\* so that no login is refused for a seat nobody holds.
SeatsAreTaken ==
  ~Turned(lobby.history) =>
    \A g \in Games : lobby.cur_capacity[g] <= Cardinality(Online(lobby, g))

\* Nobody waits needlessly: a game without a round has fewer than MIN_PLAYERS players
\* online when a handler has returned, whoever joined or failed within it.
NobodyWaitsNeedlessly ==
  Running /\ ~Turned(lobby.history) =>
    \A g \in Games :
      ~lobby.in_progress[g] => Cardinality(Online(lobby, g)) < MIN_PLAYERS

\* The clients agree with the server on who draws: in a running round the player at
\* drawing_player_list, and nobody else in the game, was last told to draw, also
\* after it left and came back.
RolesAgree ==
  Running /\ lobby.history = {} =>
    \A g \in Games : lobby.in_progress[g] =>
      \A p \in Online(lobby, g) :
        lobby.told[lobby.fd[p]] =
          IF p = Drawer(lobby.roster[g]) THEN "draw" ELSE "guess"

\* start_round finds a drawing player, and does not exit, unless reassignments have
\* left two or more unlinked nodes on the way from drawing_player_list.
ExitNeedsUnlinkedNodes ==
  lobby.status = "exited" => \E g \in Games : Len(lobby.roster[g].dead) >= 2

\* end_round starts the next round of g in this step.
NewRound(g) == lobby.phase[g] = "due" /\ lobby'.phase[g] = "countdown"

\* Nobody draws in two rounds that follow each other, as long as drawing_player_list
\* is in the list.
DrawerRotates ==
  [][\A g \in Games :
       /\ lobby.in_progress[g] /\ lobby'.in_progress[g] /\ NewRound(g)
       /\ lobby'.status = "running"
       /\ lobby.roster[g].dead = <<>>
       => Drawer(lobby'.roster[g]) # Drawer(lobby.roster[g])]_vars

\* "we don't care if drawing player is offline, he might reconnect": nothing that
\* happens within a round makes somebody else the drawing player.
DrawerStays ==
  [][\A g \in Games :
       lobby.in_progress[g] /\ lobby'.in_progress[g] /\ ~NewRound(g)
       => Drawer(lobby'.roster[g]) = Drawer(lobby.roster[g])]_vars

\* A connected player stays in its game: only a login reassigns, and only who was
\* offline.
PlayersStayPut ==
  [][~Turned(lobby'.history) =>
       \A p \in Names :
         lobby.is_online[p] /\ lobby'.is_online[p] => lobby'.game[p] = lobby.game[p]]_vars

\* Failures stay in a game: the players one handler removes, all cascades included,
\* are of one game, as long as no player has changed games or been turned away.
FailuresStayInGame ==
  [][lobby'.history = {} =>
       \A p, q \in {r \in Names : lobby.is_online[r] /\ ~lobby'.is_online[r]} :
         lobby.game[p] = lobby.game[q]]_vars

-----------------------------------------------------------------------------
(* What the repository says, and the program does not do *)

\* server.c:176 "player %s reconnected": the handler goes on with the player it has just
\* put on the new descriptor.  Whoever is online is the player its descriptor finds.
PlayerIsFoundByFd ==
  \A p \in Names : lobby.is_online[p] => get_player_by_fd(lobby, lobby.fd[p]) = p

\* server.c:179 "game is full": a game of game_size players takes no more.
NoGameOverfull ==
  \A g \in Games : Cardinality(Online(lobby, g)) <= GameSize

\* server.c:307 "there should be available players for drawing" when a round starts.
RoundFindsDrawer == lobby.status # "exited"
=============================================================================
