# Verification of ups-server-c

The server runs rounds of a draw-and-guess game over TCP for the players of a
*lobby* of several *games*. It is one process with one thread: a `poll` loop that
accepts logins, reads messages, broadcasts them to the game of their sender, and
starts and ends timed rounds. There is no concurrency inside the program; what makes
it hard is that every send and receive may fail and remove a player in the middle of
a handler, that players return under new descriptors, that descriptor numbers are
used again, that a list node may leave the list while a pointer still holds it, and
that every blocking call takes time from the rounds of all games.

Paths and line numbers are those of the repository (`server.c:303`).

## 1. Inventory

| Part | State | Operations | What makes it correct |
|---|---|---|---|
| Player list and drawing rotation (`model/player.c`, `game.c`) | `Players.player_list`, `count`, `Game.drawing_player_list` | `add_player`, `remove_player`, `get_next_drawing_fd`, `get_active_players` | nobody twice in a list; the drawing pointer reaches the end of the list; the next drawing player is found when one is online; everyone gets to draw |
| Lobby and logins (`lobby.c`, `server.c`, `model/player.c`) | `all_players`, `Player.fd / is_online / game`, `Game.cur_capacity` | `update_players`, `get_player_by_fd`, `reassign_player`, `manage_logging_player`, `remove_player_from_server` | descriptors and players match; a player is in one game; seats counted are seats taken |
| Rounds (`server.c`) | `in_progress`, `guess_word`, `start_sec`, `end_sec`, canvas | `validate_round`, `start_round`, `end_round` | no game waits that could play; clients and server agree on who draws |
| Poll loop and its clock (`server.c`) | `pfds`, `fd_count`, poll timeout | listener branch, client branch, end of rounds | exactly the open connections are polled; rounds end, in time |
| Broadcasts, heartbeat (`utils/stream_handlers.c`) | none of its own | `broadcast_buffer`, `broadcast_heartbeat`, `send_game_in_progress`, senders | failures remove only those who failed, of one game |
| Messages (`server.c`) | canvas, guesses | `manage_drawing_player`, `manage_guessing_player` | the canvas that late players get is the one the others saw |
| Poll set (`utils/sock_utils.c`) | `pollfd` array, its size and count | `add_to_pfds`, `del_from_pfds_by_fd` | no entry lost or doubled, none stale |
| Byte streams (`utils/sock_utils.c`) | none | `recvall`, `sendall`, timeouts | all bytes or an error |
| Serialization (`utils/serialization.c`, `shared/`) | `Buffer` | `serialize_*`, `unpack_*`, `reserve_space` | the layouts of `sock_header.h` |
| Words (`model/word_generator.c`) | word array | `read_words`, `get_random_word` | a word for each round |
| Start-up, signals, logger, debug, build files | — | — | not modelled |

How they interact: `start` (the loop) calls everything. A login goes through
`manage_logging_player`, which updates `all_players`, may move the player between
games with `reassign_player`, and then back in the listener branch broadcasts to the
game and either tells the player about the running round or calls `validate_round`.
Every broadcast may call `remove_player_from_server`, which broadcasts again: a
recursion through four functions that ends because each removal leaves one player
fewer online. `end_round` calls the heartbeat and two broadcasts, then
`validate_round`, which may call `start_round`, which advances the rotation and
broadcasts once more. The games share only `all_players`, the descriptors, and
players whose node is left behind in a game they are no longer in.

The hard behaviours, each listed with its line under `hazards` in `PROJECT.json`:
cascading removals, descriptor reuse after a refused login, a seat count that drifts
over reconnections, the iteration limit of the rotation after re-entries, rounds that
outlast their end while the loop blocks, a heartbeat answered by another message, an
array of descriptors that changes while it is walked, transfers cut anywhere, a buffer
that is received into and sent from.

## 2. Modules

| Module | Models |
|---|---|
| `PlayerList` | a game's list and rotation as operators on a *roster* `[list, dead, live]`: the list, the unlinked nodes the drawing pointer goes through first, and the part of the list it reaches |
| `PlayerHeap` | the same as nodes, `next` pointers, `count` and `drawing_player_list`, with the loops of the C code |
| `GameServer` | the whole server as one transition per handler: logins, messages, rounds, ticks |
| `GameRoster` | abstract specification of one game: who is in it, who draws, when the process may end |
| `RosterTurns` | `GameRoster` with a history variable that remembers who drew while whom waited |
| `ServerRotation` | the refinement: every game of `GameServer` behaves as `GameRoster` |
| `RoundClock` | the poll timeout, the early end of rounds and blocking, in seconds |
| `PollSet` | the `pollfd` array: growth, deletion, lookup, what `poll` writes |
| `Session` | the clients of one game with messages in flight, the loop over the `PollSet`, heartbeats, the canvas |
| `Buffer` | `struct Buffer` and the procedures that write and read it, over symbolic bytes |
| `Messages` | the layouts of the server's messages, and a client that reads them |
| `Wire` | the connections of one game as byte streams: every `recv` and `send` |
| `MCGameServer`, `MCGameRoster`, `MCPlayerHeap`, `MCRoundClock`, `MCSession`, `MCWire` | instances for TLC |
| `LibraryLemmas`, `PlayerList_proofs`, `RosterTurns_proofs`, `PlayerHeap_proofs`, `GameServer_proofs`, `RoundClock_proofs`, `Session_proofs`, `Wire_proofs` | lemmas and theorems; those about the refinement of `ServerRotation` are in `GameServer_proofs`, those about the poll set in `Session_proofs`, those about buffers in `Wire_proofs` |

The three models of the server look at it from different distances. `GameServer` has
every login, seat and rotation, and takes a handler as one step with any outcome of its
sends. `Session` has one game, takes a handler as one step too, but has the messages
between server and clients in flight, the order in which the loop visits descriptors,
and a heartbeat that is several steps because it waits. `Wire` has what happens inside
one handler, `recv` by `recv` and `send` by `send`, and leaves open which message the
server sends next.

### GameServer

The state is one record, `lobby`, as in the C code (`struct Lobby lobby` and what it
points to); a player is its username, since `update_players` finds it by name and
never frees it. `open` are the descriptors the process holds, `told` is what the
client at the other end was last told to do, `phase` is where the clock is in the
round of a game. `history` remembers two things for the properties only: a login was
answered SERVER_FULL, a player changed games.

Each C function is an operator from a lobby to the *set* of lobbies it may leave, one
for each outcome of the sends and receives inside; so `start_round`, `end_round`,
`remove_player_from_server` call each other as they do in the code, and an action
(`Connect`, `Readable`, `EndRound`, `Tick`) is a whole handler. The one place where
many calls are taken together is `Casualties`: a broadcast and the removals its
failures cause, in whatever order they nest, remove some set of the players online.
`disconnect_fds` and `Removal` therefore take sets. Which sets are possible follows
from the code: a removal sends to everyone in the game, so whoever survives one has
an open descriptor, and the sender is spared only while nobody is removed.

Descriptors are the lowest free number, as `accept` gives them, because the reuse of
a number matters. A send on an open descriptor may fail at any time; on a closed one
it fails. The order in which one pass visits the descriptors is left open.

### GameRoster, RosterTurns, ServerRotation

`GameRoster` says what one game does when everything else (descriptors, seats, other
games) may do anything: `Enter` and `Depart` are the logins that put a player into
the list or take it out, `EndRound` the end of a round with any losses in between,
`Leave` whatever else loses players. `GameIsARoster` (in `ServerRotation`) takes
`roster`, `online`, `playing` and `stopped` of the game `Watched` from the lobby and says
that every step of the server is a step of `GameRoster` or a stutter, until a login is
answered SERVER_FULL: whoever was turned away keeps its descriptor's number, and may then
be found in place of the next player to log in, so that a login in one game removes a
player from another. Steps of the abstract specification allow a game's `Depart` to end
the process, since the same login may start a round elsewhere.

### PlayerHeap

Nodes are numbered as they are allocated and never freed, as in the code. `View` is
the roster of a heap. The actions are the three ways `server.c` uses the list:
`Enter` (unlink and add), `Depart` (unlink), `StartRound` (advance the drawing
pointer; the set of players online is any).

### RoundClock

`left[g]` is `end_sec - time(NULL)`. The loop is modelled step by step because the
time is read again for every game; `Block` is one second spent in a send, a receive
or a heartbeat; `Blocking` bounds the seconds of one pass. A timeout below zero does
not run out, as for `poll`.

### PollSet, Session

`PollSet` is the array as a value: `slots` and `fd_count`. A slot of the half that
`realloc` added has the revents `junk`, which the loop may take for anything.

`Session` adds the world around it: `toServer` and `toClient` are the messages in
flight, `view` is what a client shows, `hung` the connections the client has closed.
The loop is a small machine (`at`): `Poll`, the rounds (`SkipRound`, or `EndRound`
with `Beat` and `Answer` per player and `FinishRound`), then the walk over the entries
(`SkipEntry`, `Accept`, `Receive`, `EndWalk`), during which clients read, play, dial and
hang up at any point. Handlers are operators that return a set of outcomes, as in
`GameServer`; here a send fails exactly when the client has hung up.

The client is not in the repository. It is modelled as the shared headers tell it to
behave: it plays its role from `start_sec` until it reads GAME_ENDS, answers HEART_BEAT
at once, shows its own strokes. Clients that misbehave are the subject of `Wire`.
`spoiled` and `crossed` are history variables for the exceptions of the properties: a
rejected drawing has left changes on the canvas; a message of the client meets the end
of the round on its way.

### Buffer, Messages, Wire

A byte of `Buffer` is what it stands for: which part of which value of which kind. That
is enough to tell a byte in its place from one out of place; the order of bytes within
a number (`htonl`) is left out. `reserve_space` doubles or grows to what is asked and
clears the rest, as in the code, so `strcpy` finds a zero or runs over the end, where it
finds anything (`Stray`). `next`, sizes and the sums and products made of them are ints:
`AsInt` is what is left of a number in one, and `NewSize` leaves the buffer as it is when
`min_size` wraps around (`serialization.c:113`).

`Messages` has one definition per message of `stream_handlers.c`, as the sequence of the
values it serializes, and the table of `sock_header.h` as a client that reads byte by byte
and knows which kind it waits for (`Row`). For GAME_IN_PROGRESS the table has a time only
(`sock_header.h:20`) while the server sends a second header, for the drawing player the
word, the time and the canvas (`stream_handlers.c:125-147`). The client of the model goes
by the table, so this message misleads it (`Misled`) and it stays misled until it connects
again: here the code and the table disagree, and a client can follow only one of them. A
byte out of place in any other message makes it `Confused`, which `ClientsUnderstand`
excludes.

In `Wire` the server receives field by field (`recving`), each `recv` taking any part of
what is there, and sends from a stack (`stack`, `sending`): a send that fails in a
broadcast removes the player and puts the broadcast of the removal on top of the one
that goes on later, as the C stack does. `Modes` is what a caller does about a failure.
Clients may send texts of any of the `Lengths`, usernames with characters that are not
allowed, drawings, lengths below zero with nothing behind them, messages of the wrong
kind, or stop after any byte. A login ends in one of four ways: the receiving fails, the
connection is closed without an answer for a character of the name (`InvalidUsername`,
`server.c:150-162`), it is answered with a refusal and closed, or it is let in
(`LoggedIn`).

A drawing is `Miscounted` when its number of indices is below zero or when an int does not
count its bytes and those before them. Nothing in the code checks this. Below zero nothing
is received and the unwritten result of `recvall` decides whether the header and a part of
the number are sent on; where the product (`server.c:212`) or the sum
(`serialization.c:113`) wraps around, C leaves open what follows: the buffer is too small,
or the size asked for is not the one announced. The model reaches this state and goes on
from it only by giving the player up; the properties say nothing of it.

## 3. Runs

Passing runs (`PROJECT.json` lists the properties of each):

| Run | Instance | Distinct states | Shows |
|---|---|---|---|
| `lobby` | 3 names, 3 descriptors, 2 games of 2 seats | 105,925 | descriptors, seats, lists, roles and rotation stay consistent; the game watched is a `GameRoster` until a login is answered SERVER_FULL |
| `crowded` | 3 names, 3 descriptors, 1 game of 2 seats | 133,021 | what survives refused logins |
| `turns` | 1 game, 3 players | 9,760 | nobody is passed over; whoever stays draws again and again |
| `heap` | 3 players, 7 nodes | 286,800 | the pointer code does what `PlayerList` says |
| `clock` | 2 games, the durations of the code (60, 5, 3), 4 s of blocking | 324,876 | poll is bounded, rounds end in time |
| `session` | 2 clients, an array of 2 slots that grows, 1 canvas index and one outside | 470,017 | the array is exact, nobody is waited for in vain, late players catch up, removals have a reason, messages are read |
| `wire` | 2 clients, field sizes scaled to 1 or 2 bytes, an int up to 11, texts of -1 to 3, four drawings | 654,320 | buffers hold, both ends stay in step through every partial transfer, clients are given up for a reason, the server returns to its loop |

Runs that show a disagreement (the `findings` of `PROJECT.json`):

| Run | Statement | What happens |
|---|---|---|
| `mapping` | `server.c:176` "player %s reconnected", said of the player the handler goes on with | a player answered SERVER_FULL keeps the number of a descriptor that is closed; the next player to log in gets that number, `get_player_by_fd` finds the other in its place, and the one that has logged in is online and not found |
| `overfull` | `server.c:179` "game is full" | returning to a running game takes no seat, so a game of two admits three |
| `round_start` | `server.c:307` "there should be available players for drawing" | after two re-entries the search gives up at `count` iterations with players online, and the server exits |
| `endless_poll` | `server.c:104` "round starts at %s and ends at %s" | five seconds of blocking in one pass make the timeout negative: with nobody sending, poll never returns and the round never ends |
| `heartbeat` | `sock_header.h:9-10` CANVAS and CHAT are messages a client may send | one that is on its way when HEART_BEAT is sent is read as the answer and removes a client that answers |

`CHECK_DEADLOCK FALSE` is set where the modelled process may really stop (it exits in
`start_round`, or all its descriptors and nodes are used up, or, in `Session`, waits for
an answer from a client that does nothing more); `RoundClock` and `Wire` never stop and
are checked for deadlock.

Bounds, and why they are enough. Three names are the least with which one player
can be lost, one return and a third still play; the exit in `start_round`, the drift
of the seats and the shared descriptor all appear with three. Two games let a player
move while its old node is still a drawing node; one game of two seats makes logins
fail. `MaxFd` equals the number of names: one more connection is never admitted.
`MaxDrift` stops logins while a seat count is below -1: each double removal lowers it
once more, and the program does not behave differently at -2, it only compares the
count with `game_size`. Seven nodes let three players re-enter four times, enough for
several unlinked nodes in a row. The names are interchangeable (symmetry) in runs
without liveness; descriptors, games and nodes are not.

`Session`: two slots are full with the listener and one client, so the second client
makes the array grow. `MaxUnread` = 1: a client sends the next message when the server
has taken the one before (the answer to HEART_BEAT comes on top of it); `MaxBehind` = 2:
nobody plays while a client has more than two messages to read, which stops behaviours in
which a client never reads. A broadcast loses at most two connections, which with two
clients is all of them. Any player online may draw next, and the players of a heartbeat
are asked in any order: which and in which order is `PlayerList`'s matter. A login
succeeds or fails as a whole.

`Wire`: sizes are scaled down (a buffer starts with 4 bytes, an int has 2, time and canvas
1, names 1, words 2), keeping what matters: header and int fit the new buffer, a longer
message makes it grow, once by doubling and once to what is asked, and one length of text
fills a buffer to its last byte. `INT_MAX` is 11, the least that counts the bytes of the
messages of the server with two clients (`WidthAssumption`), so that a drawing of five
indices, of 13 bytes with its header and its number, is already more than an int counts.
The four drawings are one without an index, one within the canvas, one outside and that
one; texts are of a length below zero, empty, let in, too long for a name and too long for
a guess. The theorems about `Buffer` and `Wire` hold for all sizes. A client writes only
while the server is in its loop or receives from it: what arrives earlier is not looked at
before. `MaxUnread` = 1: nobody begins a message while another is on its way with its
header unread; what waits in the stream of one client is not looked at in the handler of
another, and is only lost with its connection. Bytes that arrive too late for the timeout
count as never sent. A length that is not below zero says the truth. Heartbeats are in
`Session` only; `realloc` succeeds.

What the properties leave out, because the code does not promise it:

* After a login was answered SERVER_FULL nothing is said of descriptors, seats or
  waiting games (`FdIdentifiesPlayer`, `SeatsAreTaken`, `NobodyWaitsNeedlessly`): see
  the `mapping` run.
* `TakesTurns` starts anew when no round runs, when a drawing node is unlinked, and for
  a player that leaves: a player that draws, returns and is put at the head may draw again
  before others. TLC finds behaviours in which each of these exceptions is needed.
* `DrawerRotates` is stated for a drawing node that is in the list.
* `ClientsCatchUp` excepts rounds in which a drawing with an index out of range was
  rejected after valid ones (`server.c:217-224` toggles before it rejects), and a drawing
  player whose drawing crossed the end of the round before.
* `RemovedForAReason` lists the only ways a client that reads, answers and keeps to its
  role can be removed: a message of its own that meets the end of the round (as HEART_BEAT's
  answer, or read before the next `start_sec`), an index out of range, or junk revents in
  the grown array, after which the loop receives from a client that sends nothing until
  the timeout.
* `NoBlindReceive` says that POLLIN is still true when the loop comes to it, although
  a heartbeat may have received in between: what `poll` reported was there before
  HEART_BEAT and is not the answer, so the heartbeat has removed the client and its entry.
* `HeardAsSent` answers the TODO of `serialization.c:123` ("check if it's safe to remove
  memset"): it is not, the memset writes the terminator that `strcpy` needs. And where the
  text fills the buffer to its last byte there is no terminator even with it; with the
  sizes of the code these are texts of 5 and 15 bytes.
* `ReceivesFit`, the part of `TypeOK` of `Wire` about memory, excepts drawings that are
  `Miscounted`, as does `ServerReturns`.
* `ClientsUnderstand` excepts a client that GAME_IN_PROGRESS has misled; the other messages
  must be as the table says.
* `KeptIfRegular` leaves out empty messages and lengths below zero: `recvall` returns an
  uninitialised variable for them, and either outcome is in the model. It leaves out
  usernames with a character that is not allowed, whose connection is closed without an
  answer (`server.c:150-162`), and those that fill the buffer to its last byte: `strcpy`
  reads on, and may find such a character behind the end.
* `FailuresStayInGame` and `RolesAgree` are stated until a player has changed games or was
  turned away: a list node left behind in the old game makes a broadcast of one game
  reach, and lose, a player of another.

## 4. Fairness

`RoundClock!FairSpec` assumes that the loop goes on when it can (weak fairness of its
steps) and that time passes while it waits in `poll` (strong fairness of `Wait`:
infinitely many passes take infinitely long). Nothing is assumed of clients: logins
and messages may never come. Under this `RoundsEnd` holds while one pass blocks no
longer than `SOCKOPT_TIMEOUT_SEC + 1` seconds, and fails at one second more.
`GameRoster!FairSpec` assumes weak fairness of `EndRound` only, which is what
`RoundsEnd` justifies, under the same premise. Its `EveryoneDraws` fails without
this fairness and with a search that always starts at the head.

`Session!FairSpec` assumes that the server goes on whenever it can and that each client
goes on reading; clients need not draw, guess, log in or hang up, and time need not
pass. `MessagesAreRead` says that a client's message does not stay unread for ever.

`Wire!Spec` assumes that a handler goes on: `recv` and `send` return within
`SOCKOPT_TIMEOUT_SEC`. `HandlersGoOn` is weak fairness of `Handler` written out with
`Idle` in place of ENABLED, which is the same since a handler has a next step exactly when
the server is not idle. While a drawing is `Miscounted` it assumes nothing, and
`ServerReturns` promises nothing: a server that stays there is not one the code excludes.
That it returns to its loop (`ServerReturns`) does not follow at once: a failed send
starts another broadcast.

## 5. Proofs

TLAPS proves, for every set of names, number of games, seats and descriptors:

* `GameServer_proofs`: `TypeCorrect`, `DescriptorsDoNotLeak`, `PlayersAreInOneGame`,
  `DrawingPointerIsSound`, `ExitIsExplained`, `FdsIdentifyPlayers`,
  `CountedSeatsAreTaken`, `NobodyWaits`, `RolesAreAgreed`, and the action properties
  `PlayersKeepTheirGame`, `DrawerStaysForTheRound`, `NobodyDrawsTwice` and
  `FailuresAreContained`; and `GamesImplementTheRoster`, the refinement: initial states
  map to initial states, every step to a step of `GameRoster` or a stutter;
* `PlayerHeap_proofs`: `PointersAreGood`, `CountIsKept`, and `HeapImplementsThePlayerList`,
  that the operations on nodes and pointers do what `PlayerList` says, for any number of
  nodes and players;
* `RosterTurns_proofs`: `RotationTakesTurns`, that nobody is passed over, for any number
  of players that leave, return and are unlinked in any pattern;
* `PlayerList_proofs`: `NextDrawerExists`, that `get_next_drawing_fd` succeeds with two
  members online and at most one unlinked node on its way;
* `RoundClock_proofs`: `TypeCorrect`, `PollIsAlwaysBounded`, `RoundsEndInTime`, for every
  number of games and all durations;
* `Session_proofs`: `PollSetStaysExact`, `LoopReadsWhatIsThere`, `RemovalsHaveReasons`,
  `ClientsSeeTheRound` and `TypeCorrect`, for every set of clients, initial size and
  bound on messages;
* `Wire_proofs`: `SerializeAppends` and `HisIsInOrder`, for every buffer and all sizes, as
  long as an int counts the bytes;
  `ReceivesStayInBounds`, `RegularClientsAreKept`, `ServerStaysInStep`,
  `TextsAreHeardAsSent`, `ClientsAreUnderstood` and `TypeCorrect`, for all sizes, lengths
  and clients and every way to cut transfers.

The assumptions are those of the `ASSUME`s: the names are finitely many and not
`NULL`, the sizes are natural numbers (zero included: `handle_arguments` compares
pointers and rejects nothing). `WidthAssumption` is that an int counts the bytes of every
message the server makes, for all players in one list, and of the texts it lets in; it does
not say so of what clients announce, which is any int. With the sizes of the code a list of
more than a hundred million players would break it.

*GameServer.* `IInv` is the predicate `Good` of the lobby: its type, `Placed` (a
player is in the list of its game and in no other, once), `Rotating` (what the
drawing pointer reaches is the end of the list, and a round has a drawing node),
polled = open, and `Excused` (a process that exited has two unlinked nodes in some
game). No part is inductive alone: a removed node drops out of the drawing chain only
because lists have no duplicates, a round may start only where the chain ends in the
list, and an exit is impossible with fewer unlinked nodes only because `Rotating` lets
`NextDrawerExists` apply. One lemma per C function shows that each of the lobbies it
may leave is good. Broadcasts and removals are *calm*: they touch nothing the
invariant is about except polled and open descriptors, so the lemmas about them are
about `Calm` alone. `NextKeepsGood` has one step per action.

*PlayerList.* Lemmas about `FirstIn`, `From`, `Without` and `IsTail`, then about each
operation. `NextDrawerExists` counts: with at most one unlinked node, the first loop
visits fewer nodes than the list has after the first player online, which leaves the
second loop enough iterations to reach it.

*PlayerHeap.* A node points to older nodes only. So the recursion in `Chain` has a solution
(`ChainExists`, by `UpTo` of `LibraryLemmas`, strong induction over a set of numbers), and
`Path` says without recursion which sequence it returns. `Shape` describes what the two
pointers of a heap reach: the list, the unlinked nodes before it, and how many of the last
nodes of the list are reached behind them; every heap of the invariant has a shape, each
operation leads from a shape to a shape, and the views of both are related as `PlayerList`
says. `LoopEnd` is the closed form of the second loop, which gives up at `count`
iterations. The invariant `IsSoundHeap` has, besides pointers and `count`, that nobody is in
the list twice: otherwise `remove_player`, which stops at the first node with the name,
would not do what the operation on rosters does.

*RoundClock.* `Margin` says, at each place of the loop, what a round in progress has
left: a game whose time was looked at has the early seconds less what was blocked
since, the others what was left when `poll` returned. The premise `BlocksBriefly` is
part of the two properties, so nothing is claimed of a pass that blocks longer.

*The mapping.* `FdsIdentifyPlayers` and `PlayersKeepTheirGame` need a second invariant,
`MInv`: `IInv`, and the lobby is `Mapped` or a login was turned away. `Mapped` is the
property `Mapping` with one conjunct more, that who is online is in `all_players`, where
`get_player_by_fd` looks; without it the first descriptor to become readable could belong
to nobody. Removals, broadcasts and rounds *keep* the mapping (one lemma per function). A
login breaks it for a while: between `update_players` and `add_to_lobby_pfds` the new
player has a descriptor that is not polled. `Pending` describes that state; the lemmas
`UpdateIsPending`, `PendingIsFound` (`get_player_by_fd` finds the new player and nobody
else) and `PolledIsMapped` lead through it. `MInv` also has `Seated`, that a game counts
no more seats than it has players online: with `Mapped`, who is removed by descriptor is
the player that goes offline, so the seat given back is its own (`RemovalKeeps`), and a
login counts a seat for a player that was offline before (`SeatedTakes`).

*Who draws.* `DrawerStaysForTheRound` and `NobodyDrawsTwice` follow from one relation
between a lobby and the next, `Draws`, which `IInv` makes true of every step. A removal
or a broadcast is calm and moves no drawing pointer (`CalmKeepsDrawers`); taking a node
out of a list leaves the drawing node where it is and may only mark it dead
(`UnlinkDraws`), which is why `NobodyDrawsTwice` has a premise about `dead` and the other
has none; `start_round` moves it in one game (`Elsewhere`) and to another player
(`Rotated`, from `NextDrawerDiffers` of `PlayerList_proofs`).

*Who waits.* `NobodyWaits` needs a third invariant, `QInv`: `MInv`, and the lobby is
`Quiet` or a login was turned away. Removals keep it, since nobody comes online in them
(`QuietShrinks`). In a login the new player is online before `validate_round` has run;
`QuietBut` says the same of everybody else, and `WelcomeIsQuiet` that the player is
removed, joins a round, or is counted by `validate_round`. `Mapped` makes sure that it is
the player who has logged in, and no other, that is welcomed.

*Roles and failures.* `RInv` is `MInv` with two parts more, until somebody changes games:
`Own`, that the nodes a game has unlinked belong to players who are back in that game's
list, so that `start_round` cannot make a player of another game draw; and, while the
server runs, `Agrees` of every player. Within a handler the roles agree only where its
broadcasts have been: the lemmas say for each function which game's players it may lose
(`FallsIn`), whom it tells nothing new (`Untold`), and that it brings its own game back to
agreement. `Reaches` puts this together for a step, and from its first part, that the
players a step loses are of one game, `FailuresAreContained` follows: a broadcast removes
players of its own game, since they are found by descriptors (`Mapped`) of that game's
list. Its premise, that nobody has changed games or been turned away, is needed: without
it failures do cross games.

*The refinement.* The abstract actions are predicates on the view of one game before and
after; a lemma per C function says which of them it is for the game it works on, and that
it stutters for all others. `QInv` supplies what the guards of `GameRoster` ask for: who
logs in was not online in another game, and the player unlinked from its old game is the
one that is linked into the new.

*Turns.* `RosterTurns_proofs` looks at the list in the order in which the search would look
at it from the drawing node (`Start`, `Precedes`). Its invariant: whoever has drawn while
`p` waited comes after `p` in that order. Joining at the head, unlinking and moving the
pointer keep the order between any two nodes that stay (`AddKeepsOrder`,
`RemoveKeepsOrder`, `NextKeepsOrder`), so the next drawer cannot be one who has drawn since.

*Poll set and sessions.* `IsExactly(p, F)`: the entries are the descriptors of `F`, each
once; adding a descriptor not in `F`, deleting one by number and polling keep it.
`LoopReadsWhatIsThere` and `RemovalsHaveReasons` need `SInv`. `Worths` says that `POLLIN` is
still true of the entries the loop has not visited. It survives the handlers because of
`Frame`, what a handler that accepts nobody does: some connections are lost, the others may
be sent more, what they have sent stays, and an entry that says `POLLIN` was there before,
at its place or a later one (`Moves`). `Told`: every client that has not hung up is told the
role the server has it in; `InStep`: what a client that keeps to its role may then have in
flight; `Beating`: a heartbeat message is in flight at most once, and only for the client
that is being asked.

*What clients show.* `ClientsSeeTheRound` needs `CInv`: `SInv`, that every client
`Catches` up (`Follows`), and that the canvas is empty and unspoiled between rounds.
`Catches` has three parts. The messages on their way, folded into what the client shows,
give the role and the canvas of the server (for the drawing player with the drawings it
has on their way). `Fresh`: a role is sent only to a client that shows none or has been
told that the last round ended. `Settled`: drawings of an earlier round that are on their
way to the drawing player will be forgotten before it draws. `Told` and `InStep` supply
that nothing of an old round is left when one starts. `FoldLeft` is defined by a CHOOSE
over functions on sets of indices and by `Max`, so where a fold leads has to be shown
before it can be used: `Through` and `Iterates` of `LibraryLemmas` do so by induction over
a set of numbers (`UpTo`), for a fold of any operator with values in a set. `SeenMore` and
`StrokedMore` say what one message more on its way does to the fold, `SeenRest` and
`StrokedRest` what one message read does.

*Buffer and Wire.* `SerializeAppends`: serializing appends, for every size of the buffer
before, so the growth never loses or moves a byte, as long as an int counts what is in use
(`SpaceIsReserved`: doubling may wrap around, but then what is asked for is not more than
the size or is more than what it has wrapped to); `HisIsInOrder` applies it three times.
`ReceivesStayInBounds` follows from `reserve_space` leaving room for what is asked, and
from `recvall` never taking more than is left of the field. Names and guesses are short
enough for an int (`TooLong` comes before the text is received); of a drawing that is not
`Miscounted` neither the product nor the sum has wrapped around. The invariant ties the
field being received to `recving.size` and the buffer to its type through every partial
`recv`. `StepLosesFew` sorts the steps by whom they may lose, from which
`RegularClientsAreKept` follows. `ServerStaysInStep` rests on the *stream* of a client:
the bytes of its message that are in the buffer, followed by those on their way. A `recv`
moves bytes from one part to the other and leaves the stream unchanged; only a client that
writes extends it, and only the end of a handler cuts a message off its front. `Framed`
says that the stream is a row of messages: behind every byte of the kind header is the
message it begins, complete unless the client has stopped. The last field ends where the
message ends, because the length in the buffer is the one in the message
(`MessageReceived`). `InField` adds that nothing but zeros is behind what has been
received, from which `TextsAreHeardAsSent` follows.

*What clients hear.* `ClientsAreUnderstood` has two halves.

The first is about messages: a client that waits for nothing and reads one of them waits
for nothing afterwards or is `Misled`, in one word `Well` (`Understood`). The one that
misleads is GAME_IN_PROGRESS (`JoiningMisleads`), and what is read after it changes nothing
(`MisledForEver`). `HearAll` and the serializing of a message are
folds, shown as above to be functions that lead from one value to the next
(`HearingsLead`, `PoursLead`); `HeardInTurn` then says that hearing `a` followed by `b` is
hearing `b` after `a`. `FieldHeard` is about one field: all its bytes are of the kind the
client waits for, and if it is the count or the length of what follows, the client knows
it after the last byte. `Says` collects what is serialized so far, its bytes by
`SerializeAppends`, and what the client waits for after them; `SaysOneMore` adds a field,
and one lemma for each message goes through it field by field. `ListUnderstood`
is an induction over the players of a list; `FlattenSeq`, which the client uses to repeat
what it waits for, is a recursive function and therefore a CHOOSE, and `LibraryLemmas` shows
that there is such a function and what it yields for one sequence more. A text passed on
from a client is made of characters wherever `strcpy` stops, also when it runs over the
end of the buffer (`GuessIsChars`), and a drawing is sent out of the buffer as it came in,
where by `MessageReceived` it is the client's message.

The second half is the invariant `UInv`, which joins to `FInv`, the invariant of the
streams, that every entry of the stack is such a message (`GoodSends`), that only
the client being sent to waits for anything, and that what is left to send to it is what
it waits for (`Listens`). Three facts of the code carry it through the steps. A failed send
removes the player, and a player who comes back is a new connection that waits for
nothing. A broadcast that interrupts another starts only after such a removal, so no client
hears it in the middle of a message. And where the code ignores the failure of a send, the
message has one byte at most, so that nothing of it is half sent (`SendFailsIsUnderstood`).
What a client reads in error it never gets over (`ConfusedForEver`), so it is enough that
everybody is `Well` when nothing is left to send.

Every invariant and every action property of a run that passes is thus proved. Liveness
(`EveryoneDraws`, `RoundsEnd`, `MessagesAreRead`, `ServerReturns`) is out of the
prover's reach and stays with TLC.

## 6. Not modelled

Allocation failures, SIGTERM and SIGPIPE, the byte order of numbers, the content of the
file of words and its reading, socket set-up, arguments, the logger and debug output,
clients that announce a length other than what they send (unless it is below zero), and
what a drawing that is `Miscounted` leads to. With the debug output goes a memory limit:
`recv_buffer` and `send_buffer` write what they transfer in hexadecimal into an array of
10000 bytes without looking at its size (`stream_handlers.c:21`), so that a drawing of more
than 832 indices runs over its end. The three seconds a heartbeat waits for its answer
(`stream_handlers.c:242`) are not in `Session`, where a client that is slow is waited for.
`PROJECT.json` gives the reason for each part. `remove_offline_player_lists` is never called
(`server.c:352` is a comment). Buffers not freed on early returns (`server.c:136`, `148`,
`281`) and list nodes that `remove_player` leaves behind (`model/player.c:74`) are listed
under `hazards` without a property: they change nothing the models have.

## 7. What is done, and what could follow

Done: `PlayerList`, `GameServer`, `GameRoster`, `ServerRotation`, `PlayerHeap`,
`RoundClock`; then `PollSet` and `Session` (messages in flight, heartbeats, the canvas),
`Buffer`, `Messages` and `Wire` (byte streams and serialization); proofs of all their
invariants and action properties.

What could follow: `PollSetIsExact` shown to implement the set `pfds` of
`GameServer` step by step, where now both are stated as invariants of their own.
