--------------------------- MODULE ServerRotation ---------------------------
(***************************************************************************)
(* A game of the server behaves as GameRoster says, however its handlers,  *)
(* their cascades of removals and the other games interleave.              *)
(***************************************************************************)
EXTENDS GameServer

CONSTANT Watched  \* the game looked at, any one of them

ASSUME WatchedAssumption == Watched \in Games

Game == INSTANCE GameRoster WITH
  roster  <- lobby.roster[Watched],
  online  <- {p \in Names : lobby.is_online[p]},
  playing <- lobby.in_progress[Watched],
  stopped <- lobby.status # "running"

\* A game starts as GameRoster starts, and each handler of the server is, seen from the
\* game, a step of GameRoster or none at all: so what is shown of GameRoster, its
\* liveness apart, holds of every game.  It holds until a login is answered
\* SERVER_FULL: whoever was turned away keeps the number of a closed descriptor, and
\* is found in place of the player that logs in on it later, who comes online but is
\* neither placed nor welcomed.
GameIsARoster ==
  /\ Game!Init
  /\ [][~Turned(lobby'.history) => Game!Next \/ UNCHANGED Game!vars]_vars
=============================================================================
