------------------------------- MODULE Session -------------------------------
(***************************************************************************)
(* The clients of one game and the server, with the messages between them  *)
(* in flight: the poll loop over its array of descriptors (server.c,       *)
(* PollSet), the heartbeats at the end of a round, on which the loop waits *)
(* (utils/stream_handlers.c), and the canvas that drawing messages change  *)
(* (model/canvas.c).                                                       *)
(*                                                                         *)
(* The server is single-threaded, but its clients are not part of it: they *)
(* read, draw, guess and hang up between any two of its steps.  A handler  *)
(* is one step; end_round is several, since it waits for every answer.     *)
(* What logins, seats and the rotation do is in GameServer: here a login   *)
(* finds a place or fails, and any player online may draw next.            *)
(*                                                                         *)
(* A client does what the shared headers tell it: it plays its role from   *)
(* start_sec until it reads GAME_ENDS, answers HEART_BEAT at once, and     *)
(* shows its own strokes as it draws them.                                 *)
(***************************************************************************)
EXTENDS PollSet, SequencesExt

CONSTANTS
  Clients,         \* the clients, each with the descriptor of its connection
  None,            \* no client
  PFDS_INIT_SIZE,  \* the slots allocated at the start
  CANVAS_SIZE,     \* canvas indices are 0..(CANVAS_SIZE - 1)
  Strokes,         \* the sequences of indices clients send
  MaxUnread,       \* bound: a client plays only with fewer messages unread by the server
  MaxBehind        \* bound: nobody plays while a client has more messages to read

ASSUME SessionAssumption ==
  /\ None \notin Clients
  /\ 0 \notin Clients
  /\ PFDS_INIT_SIZE \in Nat \ {0}
  /\ CANVAS_SIZE \in Nat
  /\ Strokes \subseteq Seq(Int)
  /\ MaxUnread \in Nat \ {0}
  /\ MaxBehind \in Nat

VARIABLES
  s,         \* what the server and the connections hold, see IsSession
  backlog,   \* the clients that wait to be accepted
  at,        \* where the loop is
  i,         \* the entry it looks at
  beats,     \* the players still to be sent HEART_BEAT
  asked      \* the player whose answer it waits for

vars == <<s, backlog, at, i, beats, asked>>

MIN_PLAYERS == 2
Listener == 0
Canvas == SUBSET (0..(CANVAS_SIZE - 1))
Roles == {"idle", "guess", "draw"}
Phases == {"countdown", "drawing", "due"}

\* Client to server.  The text of a guess does not matter: right or wrong, the
\* server answers the sender and tells the others.
HeartBeat == [flag |-> "HEART_BEAT"]
Chat == [flag |-> "CHAT"]
Drawing(diffs) == [flag |-> "CANVAS", diffs |-> diffs]
ToServer == {HeartBeat, Chat} \cup {Drawing(d) : d \in Strokes}

\* Server to client, as far as it changes what the client does or shows.
GameEnds == [flag |-> "GAME_ENDS"]
Start(role) == [flag |-> "START", role |-> role]
InProgress(role, canvas) ==
  [flag |-> "GAME_IN_PROGRESS", role |-> role, canvas |-> canvas]
ToClient ==
  {HeartBeat, GameEnds} \cup {Start(r) : r \in Roles \ {"idle"}}
  \cup {InProgress(r, c) : r \in Roles \ {"idle"}, c \in Canvas}
  \cup {Drawing(d) : d \in Strokes}

\* online is is_online, and being in the list of the game; hung are connections the
\* client has closed; view is what a client shows; spoiled and crossed only serve
\* the properties: the canvas has changes of a rejected message; the client has sent
\* a message that meets the end of the round on its way.
IsSession(t) ==
  /\ DOMAIN t = {"pfds", "online", "in_progress", "phase", "drawer", "canvas",
                 "toServer", "toClient", "view", "hung", "spoiled", "crossed"}
  /\ IsPollSet(t.pfds, Clients \cup {Listener})
  /\ t.online \subseteq Clients
  /\ t.in_progress \in BOOLEAN
  /\ t.phase \in Phases
  /\ t.drawer \in Clients \cup {None}
  /\ t.canvas \in Canvas
  /\ t.toServer \in [Clients -> Seq(ToServer)]
  /\ t.toClient \in [Clients -> Seq(ToClient)]
  /\ t.view \in [Clients -> [role : Roles, canvas : Canvas]]
  /\ t.hung \subseteq t.online
  /\ t.spoiled \in BOOLEAN
  /\ t.crossed \subseteq t.online

Blank == [role |-> "idle", canvas |-> {}]

-----------------------------------------------------------------------------
(* The canvas *)

toggle_bit(canvas, index) ==
  IF index \in canvas THEN canvas \ {index} ELSE canvas \cup {index}

ToggleAll(canvas, diffs) == FoldLeft(toggle_bit, canvas, diffs)

\* Mutant: the first index after the canvas is let through.
InRange_off_by_one(index) == index >= 0 /\ index <= CANVAS_SIZE

InRange(index) == index >= 0 /\ index < CANVAS_SIZE

\* The indices manage_drawing_player toggles: all up to the first it rejects.
Accepted(diffs) ==
  LET bad == {k \in 1..Len(diffs) : ~InRange(diffs[k])}
  IN  IF bad = {} THEN diffs ELSE SubSeq(diffs, 1, Min(bad) - 1)

-----------------------------------------------------------------------------
(* Sending and losing connections *)

\* A message to a client that has hung up is lost.
Send(t, C, m) ==
  [t EXCEPT !.toClient =
     [c \in Clients |-> IF c \in C \ t.hung THEN Append(t.toClient[c], m)
                        ELSE t.toClient[c]]]

\* Mutant: the player is taken out of the game and stays in pfds.
disconnect_without_del(t, c) ==
  [t EXCEPT !.online = @ \ {c}, !.hung = @ \ {c}, !.crossed = @ \ {c},
            !.toServer[c] = <<>>, !.toClient[c] = <<>>, !.view[c] = Blank]

\* What remove_player_from_server does itself; what was in flight is gone, and the
\* client sees the connection close.
disconnect(t, c) ==
  [t EXCEPT !.pfds = del_from_pfds_by_fd(@, c),
            !.online = @ \ {c}, !.hung = @ \ {c}, !.crossed = @ \ {c},
            !.toServer[c] = <<>>, !.toClient[c] = <<>>, !.view[c] = Blank]

\* A broadcast may find out that a client has hung up; the removal broadcasts to the
\* whole game, which may find out about another, now also the sender.  Bound: no
\* broadcast loses a third connection.
FirstLoss(t, sender) == {disconnect(t, c) : c \in t.hung \ {sender}}
SecondLoss(t) == {disconnect(t, c) : c \in t.hung}
broadcast(t, sender) ==
  {t} \cup FirstLoss(t, sender) \cup UNION {SecondLoss(u) : u \in FirstLoss(t, sender)}

\* broadcast_buffer with message m.
broadcast_buffer(t, sender, m) == broadcast(Send(t, t.online \ {sender}, m), sender)

\* The removal, and the PLAYER_LIST_CHANGE it broadcasts.
remove_player_from_server(t, c) == broadcast(disconnect(t, c), None)

-----------------------------------------------------------------------------
(* Rounds *)

start_round(t) ==
  UNION {LET drawn == [t EXCEPT !.in_progress = TRUE, !.phase = "countdown", !.drawer = d]
             unsent == IF d \in t.hung THEN remove_player_from_server(drawn, d) ELSE {}
         IN  UNION {broadcast_buffer(u, d, Start("guess")) :
                      u \in {Send(drawn, {d}, Start("draw"))} \cup unsent} :
         d \in t.online}

validate_round(t) ==
  IF Cardinality(t.online) < MIN_PLAYERS THEN broadcast(t, None) ELSE start_round(t)

\* end_round after the heartbeats.
finish_round(t) ==
  UNION {validate_round([u EXCEPT !.canvas = {}, !.spoiled = FALSE]) :
           u \in broadcast_buffer(t, None, GameEnds)}

-----------------------------------------------------------------------------
(* The branches of the loop over the entries *)

\* Mutant: whoever joins a running round starts with an empty canvas.
send_game_in_progress_blank(t, c) ==
  {Send(t, {c}, InProgress(IF c = t.drawer THEN "draw" ELSE "guess", {}))}

\* The role and the canvas of the round, for a client that has just logged in.
send_game_in_progress(t, c) ==
  {Send(t, {c}, InProgress(IF c = t.drawer THEN "draw" ELSE "guess", t.canvas))}

\* The listener branch, for a login that succeeds.
join(t, c) ==
  LET polled == [t EXCEPT !.online = @ \cup {c}, !.pfds = add_to_pfds(@, c)]
  IN  UNION {IF u.in_progress THEN send_game_in_progress(u, c) ELSE validate_round(u) :
               u \in broadcast(polled, c)}

\* The drawing player's message: the others get it as it came, unless an index is
\* out of range.
manage_drawing_player(t, c, m) ==
  LET drawn == [t EXCEPT !.canvas = ToggleAll(@, Accepted(m.diffs))]
  IN  IF Accepted(m.diffs) = m.diffs THEN broadcast_buffer(drawn, c, m)
      ELSE remove_player_from_server(
             [drawn EXCEPT !.spoiled = @ \/ Accepted(m.diffs) # <<>>], c)

\* A guess is answered and broadcast; an answer that cannot be sent removes.
manage_guessing_player(t, c) ==
  broadcast(t, c) \cup (IF c \in t.hung THEN remove_player_from_server(t, c) ELSE {})

\* One message; none means the client has hung up, or sends nothing in time.
manage_player_action(t, c) ==
  LET m == Head(t.toServer[c])
      u == [t EXCEPT !.toServer[c] = Tail(@)]
  IN  IF t.toServer[c] = <<>> THEN remove_player_from_server(t, c)
      ELSE IF c = t.drawer /\ m.flag = "CANVAS" THEN manage_drawing_player(u, c, m)
      ELSE IF c # t.drawer /\ m.flag = "CHAT" THEN manage_guessing_player(u, c)
      ELSE remove_player_from_server(u, c)

\* The other branch.
readable(t, c) ==
  IF ~t.in_progress \/ t.phase = "countdown"
  THEN remove_player_from_server(t, c)
  ELSE manage_player_action(t, c)

-----------------------------------------------------------------------------
(* The server *)

Init ==
  /\ s = [pfds |-> add_to_pfds(new_pfds(PFDS_INIT_SIZE), Listener),
          online |-> {}, in_progress |-> FALSE, phase |-> "due", drawer |-> None,
          canvas |-> {},
          toServer |-> [c \in Clients |-> <<>>], toClient |-> [c \in Clients |-> <<>>],
          view |-> [c \in Clients |-> Blank],
          hung |-> {}, spoiled |-> FALSE, crossed |-> {}]
  /\ backlog = <<>>
  /\ at = "poll"
  /\ i = 1
  /\ beats = {}
  /\ asked = None

\* What poll finds to read: a connection to accept, messages, or the end of a stream.
ReadableFds ==
  {c \in s.online : s.toServer[c] # <<>> \/ c \in s.hung}
  \cup (IF backlog = <<>> THEN {} ELSE {Listener})

RoundIsDue == s.in_progress /\ s.phase = "due"

\* poll returns with something to read, or at its timeout.
Poll ==
  /\ at = "poll"
  /\ ReadableFds # {} \/ RoundIsDue
  /\ s' = [s EXCEPT !.pfds = poll(@, ReadableFds)]
  /\ at' = "rounds"
  /\ UNCHANGED <<backlog, i, beats, asked>>

SkipRound ==
  /\ at = "rounds"
  /\ ~RoundIsDue
  /\ at' = "walk"
  /\ i' = 1
  /\ UNCHANGED <<s, backlog, beats, asked>>

\* end_round begins: the players of the game are asked one by one.  In which order is
\* left open.
EndRound ==
  /\ at = "rounds"
  /\ RoundIsDue
  /\ s' = [s EXCEPT !.in_progress = FALSE]
  /\ at' = "beat"
  /\ beats' = s.online
  /\ UNCHANGED <<backlog, i, asked>>

\* HEART_BEAT is sent; it may find out that the client has hung up.
Beat(c) ==
  /\ at = "beat"
  /\ asked = None
  /\ c \in beats
  /\ beats' = beats \ {c}
  /\ \/ /\ c \in s.online
        /\ s' = [Send(s, {c}, HeartBeat) EXCEPT
                   !.crossed = IF s.toServer[c] = <<>> THEN @ ELSE @ \cup {c}]
        /\ asked' = c
     \/ /\ c \in s.hung
        /\ s' \in remove_player_from_server(s, c)
        /\ asked' = None
     \/ /\ c \notin s.online
        /\ UNCHANGED <<s, asked>>
  /\ UNCHANGED <<backlog, at, i>>

\* Mutant: whatever the client sends is taken for the answer.
IsAnswer_any(m) == TRUE

\* The header received is the answer to HEART_BEAT.
IsAnswer(m) == m.flag = "HEART_BEAT"

\* The next message of the client asked, or the end of its stream.
Answer ==
  /\ at = "beat"
  /\ asked # None
  /\ \/ /\ s.toServer[asked] # <<>>
        /\ IsAnswer(Head(s.toServer[asked]))
        /\ s' = [s EXCEPT !.toServer[asked] = Tail(@)]
     \/ /\ s.toServer[asked] # <<>>
        /\ ~IsAnswer(Head(s.toServer[asked]))
        /\ s' \in remove_player_from_server(s, asked)
     \/ /\ s.toServer[asked] = <<>>
        /\ asked \in s.hung
        /\ s' \in remove_player_from_server(s, asked)
  /\ asked' = None
  /\ UNCHANGED <<backlog, at, i, beats>>

FinishRound ==
  /\ at = "beat"
  /\ asked = None
  /\ beats = {}
  /\ s' \in finish_round(s)
  /\ at' = "walk"
  /\ i' = 1
  /\ UNCHANGED <<backlog, beats, asked>>

Entry == s.pfds.slots[i]
Walking == at = "walk" /\ i <= s.pfds.fd_count

\* An entry without POLLIN; junk may look like that.
SkipEntry ==
  /\ Walking
  /\ Entry.revents # "POLLIN"
  /\ i' = i + 1
  /\ UNCHANGED <<s, backlog, at, beats, asked>>

\* accept, which waits for a connection, and a login that succeeds or fails.
Accept ==
  /\ Walking
  /\ backlog # <<>>
  /\ Entry.revents # "none"
  /\ Entry.fd = Listener
  /\ s' \in join(s, Head(backlog)) \cup {s}
  /\ backlog' = Tail(backlog)
  /\ i' = i + 1
  /\ UNCHANGED <<at, beats, asked>>

Receive ==
  /\ Walking
  /\ Entry.revents # "none"
  /\ Entry.fd # Listener
  /\ s' \in readable(s, Entry.fd)
  /\ i' = i + 1
  /\ UNCHANGED <<backlog, at, beats, asked>>

EndWalk ==
  /\ at = "walk"
  /\ i > s.pfds.fd_count
  /\ at' = "poll"
  /\ UNCHANGED <<s, backlog, i, beats, asked>>

\* Time passes start_sec, or comes close enough to end_sec.
Tick ==
  /\ s.in_progress
  /\ s.phase # "due"
  /\ s' = [s EXCEPT !.phase = IF @ = "countdown" THEN "drawing" ELSE "due"]
  /\ UNCHANGED <<backlog, at, i, beats, asked>>

-----------------------------------------------------------------------------
(* The clients *)

Dial(c) ==
  /\ c \notin s.online
  /\ c \notin ToSet(backlog)
  /\ backlog' = Append(backlog, c)
  /\ UNCHANGED <<s, at, i, beats, asked>>

HangUp(c) ==
  /\ c \in s.online \ s.hung
  /\ s' = [s EXCEPT !.hung = @ \cup {c}, !.toClient[c] = <<>>, !.view[c] = Blank]
  /\ UNCHANGED <<backlog, at, i, beats, asked>>

\* What a message from the server does to what the client shows.
Show(view, m) ==
  CASE m.flag = "GAME_ENDS" -> Blank
    [] m.flag = "START" -> [role |-> m.role, canvas |-> {}]
    [] m.flag = "GAME_IN_PROGRESS" -> [role |-> m.role, canvas |-> m.canvas]
    [] m.flag = "CANVAS" -> [view EXCEPT !.canvas = ToggleAll(@, m.diffs)]
    [] OTHER -> view

Read(c) ==
  /\ c \in s.online \ s.hung
  /\ s.toClient[c] # <<>>
  /\ LET m == Head(s.toClient[c])
     IN  s' = [s EXCEPT !.toClient[c] = Tail(@),
                        !.view[c] = Show(@, m),
                        !.toServer[c] = IF m = HeartBeat THEN Append(@, m) ELSE @]
  /\ UNCHANGED <<backlog, at, i, beats, asked>>

\* HEART_BEAT has been sent to c, and it has not read GAME_ENDS.
RoundIsEndingFor(c) ==
  \/ GameEnds \in ToSet(s.toClient[c])
  \/ at = "beat" /\ c \notin beats

\* A client in a round that has started, as it knows, draws or guesses.
Play(c) ==
  /\ c \in s.online \ s.hung
  /\ s.view[c].role # "idle"
  /\ Len(s.toServer[c]) < MaxUnread
  /\ \A d \in Clients : Len(s.toClient[d]) <= MaxBehind
  /\ GameEnds \in ToSet(s.toClient[c]) \/ s.phase # "countdown"
  /\ \E m \in IF s.view[c].role = "draw" THEN {Drawing(d) : d \in Strokes} ELSE {Chat} :
       s' = [s EXCEPT
               !.toServer[c] = Append(@, m),
               !.view[c].canvas = IF m = Chat THEN @ ELSE ToggleAll(@, Accepted(m.diffs)),
               !.crossed = IF RoundIsEndingFor(c) THEN @ \cup {c} ELSE @]
  /\ UNCHANGED <<backlog, at, i, beats, asked>>

-----------------------------------------------------------------------------
Server ==
  \/ Poll \/ SkipRound \/ EndRound \/ (\E c \in Clients : Beat(c)) \/ Answer \/ FinishRound
  \/ SkipEntry \/ Accept \/ Receive \/ EndWalk

Next ==
  \/ Server
  \/ Tick
  \/ \E c \in Clients : Dial(c) \/ HangUp(c) \/ Read(c) \/ Play(c)

Spec == Init /\ [][Next]_vars
FairSpec == Spec /\ WF_vars(Server) /\ \A c \in Clients : WF_vars(Read(c))

-----------------------------------------------------------------------------
(* What the server promises its clients *)

TypeOK ==
  /\ IsSession(s)
  /\ backlog \in Seq(Clients)
  /\ at \in {"poll", "rounds", "beat", "walk"}
  /\ i \in Nat
  /\ beats \subseteq Clients
  /\ asked \in Clients \cup {None}

\* The array of descriptors is exactly the listener and the players online, each
\* once, whichever entries a handler adds, deletes and moves while the loop is on its
\* way through them.
PollSetIsExact == IsExactly(s.pfds, s.online \cup {Listener})

\* No blind receive: where the loop is still to look and poll has found something to
\* read, there is something to read, although heartbeats have been received and
\* entries moved since poll returned; so only junk can make the server wait for a
\* client that sends nothing.
NoBlindReceive ==
  at \in {"rounds", "walk"} =>
    \A k \in 1..s.pfds.fd_count :
      (at = "rounds" \/ k >= i) /\ s.pfds.slots[k].revents = "POLLIN"
      => s.pfds.slots[k].fd \in ReadableFds

\* What a client shows when it has read everything that is on its way to it.
CaughtUp(c) == FoldLeft(Show, s.view[c], s.toClient[c])

\* What a message on its way from the drawing player will do to the canvas.
Stroke(canvas, m) ==
  IF m.flag = "CANVAS" THEN ToggleAll(canvas, Accepted(m.diffs)) ELSE canvas

\* The canvas with the drawings that are on their way from c.
WithStrokesOf(c) == FoldLeft(Stroke, s.canvas, s.toServer[c])

\* Clients catch up: in a running round every client that reads on ends up in the role
\* the server has it in, and with the canvas the server has, whether it saw the round
\* from its start or was sent GAME_IN_PROGRESS; for the drawing player, the canvas
\* with what it has drawn since.  A rejected message may have left changes on the
\* canvas nobody was told of; a drawing sent while the last round ended may count in
\* this one.
ClientsCatchUp ==
  s.in_progress /\ ~s.spoiled =>
    \A c \in s.online \ s.hung :
      IF c = s.drawer
      THEN c \notin s.crossed => CaughtUp(c) = [role |-> "draw", canvas |-> WithStrokesOf(c)]
      ELSE CaughtUp(c) = [role |-> "guess", canvas |-> s.canvas]

\* The message the server takes from c is a drawing it rejects.
SentOutOfRange(c) ==
  /\ s.toServer[c] # <<>>
  /\ LET m == Head(s.toServer[c]) IN m.flag = "CANVAS" /\ Accepted(m.diffs) # m.diffs

\* The loop looks at an entry of c whose revents nobody has written.
MetJunk(c) == Walking /\ Entry = [fd |-> c, revents |-> "junk"]

\* A client that reads, answers and keeps to its role is removed only if one of its
\* messages met the end of the round on its way, or it sent an index out of range, or
\* its entry in the grown array was never cleared.
RemovedForAReason ==
  [][\A c \in s.online \ s.hung :
       c \notin s'.online =>
         c \in s.crossed \/ SentOutOfRange(c) \/ MetJunk(c)]_vars

\* No message waits for ever: although deleting an entry lets the loop pass over the
\* one it moves, each client is looked at again and again.
MessagesAreRead ==
  \A c \in Clients : []<>(Len(s.toServer[c]) < MaxUnread)

-----------------------------------------------------------------------------
(* What the repository says, and the program does not do *)

\* sock_header.h:9, 10: CANVAS and CHAT are messages a client may send.  One that is
\* on its way when HEART_BEAT is sent does not remove a client that answers.
HeartbeatSparesPlayers ==
  [][at = "beat" /\ asked \in s.online \ s.hung => asked \in s'.online]_vars
=============================================================================
