----------------------------- MODULE RoundClock -----------------------------
(***************************************************************************)
(* The clock of the poll loop (start, server.c): how long poll may wait,   *)
(* when the rounds are ended, and the seconds that sends, receives and     *)
(* heartbeats block in between.  Time is counted in the whole seconds of   *)
(* time(), as what is left until end_sec.  Who plays is left out: whether  *)
(* enough players are online for a round is a choice.                      *)
(***************************************************************************)
EXTENDS Integers, FiniteSetsExt

CONSTANTS
  LobbySize,              \* lobby_size: the number of games
  GAME_DURATION_SEC,
  TIME_BEFORE_START_SEC,
  SOCKOPT_TIMEOUT_SEC,
  Blocking,               \* the seconds one pass of the loop may block in all
  MaxLate                 \* bound: how late a round is, is counted up to here

ASSUME ClockAssumption ==
  /\ LobbySize \in Nat
  /\ GAME_DURATION_SEC \in Nat
  /\ TIME_BEFORE_START_SEC \in Nat
  /\ SOCKOPT_TIMEOUT_SEC \in Nat
  /\ Blocking \in Nat
  /\ MaxLate \in Nat
  /\ Blocking < MaxLate

VARIABLES
  pc,           \* where the loop is
  i,            \* the game the loop over the games looks at
  in_progress,
  left,         \* end_sec - time(NULL)
  timeout,      \* what is left of timeout_sec, negative for a poll without end
  blocked       \* the seconds this pass has blocked

vars == <<pc, i, in_progress, left, timeout, blocked>>

Games == 0..(LobbySize - 1)

Init ==
  /\ pc = "top" /\ i = 0
  /\ in_progress = [g \in Games |-> FALSE]
  /\ left = [g \in Games |-> 0]
  /\ timeout = 0
  /\ blocked = 0

\* Mutant: only the last game is waited for.
PollTimeout_of_last ==
  IF in_progress[LobbySize - 1] THEN left[LobbySize - 1] ELSE GAME_DURATION_SEC

\* Mutant: as long as the first round to end has left, countdowns included.
PollTimeout_with_countdown ==
  Min({TIME_BEFORE_START_SEC + GAME_DURATION_SEC}
      \cup {left[g] : g \in {h \in Games : in_progress[h]}})

\* timeout_sec: as long as the first round to end has left, but no longer than a round.
PollTimeout == Min({GAME_DURATION_SEC} \cup {left[g] : g \in {h \in Games : in_progress[h]}})

\* The top of the loop, and the call of poll.
Poll ==
  /\ pc = "top"
  /\ pc' = "poll"
  /\ timeout' = PollTimeout
  /\ UNCHANGED <<i, in_progress, left, blocked>>

\* One second passes.
Second ==
  left' = [g \in Games |-> IF left[g] > -MaxLate THEN left[g] - 1 ELSE left[g]]

\* A second of waiting in poll; a negative timeout does not run out.
Wait ==
  /\ pc = "poll"
  /\ timeout # 0
  /\ timeout' = IF timeout > 0 THEN timeout - 1 ELSE timeout
  /\ Second
  /\ UNCHANGED <<pc, i, in_progress, blocked>>

PollReturns ==
  /\ pc' = "rounds" /\ i' = 0 /\ blocked' = 0
  /\ UNCHANGED <<in_progress, left, timeout>>

\* poll returns because of a descriptor, or because its timeout has run out.
PollEvent == pc = "poll" /\ PollReturns
PollExpires == pc = "poll" /\ timeout = 0 /\ PollReturns

\* Mutant: a round is ended when its time is over, and not before.
Due_when_over(g) == in_progress[g] /\ left[g] <= 0

\* Less than SOCKOPT_TIMEOUT_SEC is left of the round.
Due(g) == in_progress[g] /\ left[g] <= SOCKOPT_TIMEOUT_SEC

\* The loop passes over a game whose round goes on.
SkipRound ==
  /\ pc = "rounds" /\ i \in Games /\ ~Due(i)
  /\ i' = i + 1
  /\ UNCHANGED <<pc, in_progress, left, timeout, blocked>>

\* end_round, up to the heartbeats.
EndRound ==
  /\ pc = "rounds" /\ i \in Games /\ Due(i)
  /\ in_progress' = [in_progress EXCEPT ![i] = FALSE]
  /\ pc' = "ending"
  /\ UNCHANGED <<i, left, timeout, blocked>>

\* start_sec and end_sec of a round that starts now.
StartRound(g) ==
  /\ in_progress' = [in_progress EXCEPT ![g] = TRUE]
  /\ left' = [left EXCEPT ![g] = TIME_BEFORE_START_SEC + GAME_DURATION_SEC]

\* validate_round at the end of end_round: players wait, or the next round starts.
ValidateRound ==
  /\ pc = "ending"
  /\ \/ StartRound(i)
     \/ UNCHANGED <<in_progress, left>>
  /\ pc' = "rounds" /\ i' = i + 1
  /\ UNCHANGED <<timeout, blocked>>

\* The loop over the games is done.
RoundsDone ==
  /\ pc = "rounds" /\ i \notin Games
  /\ pc' = "handlers"
  /\ UNCHANGED <<i, in_progress, left, timeout, blocked>>

\* A login to a game that was waiting starts a round.
Login(g) ==
  /\ pc = "handlers" /\ ~in_progress[g]
  /\ StartRound(g)
  /\ UNCHANGED <<pc, i, timeout, blocked>>

\* The descriptors of this pass are handled.
Again ==
  /\ pc = "handlers"
  /\ pc' = "top"
  /\ UNCHANGED <<i, in_progress, left, timeout, blocked>>

\* A second spent in a send, a receive or a heartbeat.
Block ==
  /\ pc \in {"rounds", "ending", "handlers"}
  /\ blocked < Blocking
  /\ blocked' = blocked + 1
  /\ Second
  /\ UNCHANGED <<pc, i, in_progress, timeout>>

Loop == Poll \/ PollExpires \/ SkipRound \/ EndRound \/ ValidateRound \/ RoundsDone \/ Again

Next == Loop \/ PollEvent \/ Wait \/ Block \/ \E g \in Games : Login(g)

Spec == Init /\ [][Next]_vars

\* The loop goes on, and time with it: passes that take no time do not follow each
\* other for ever.  Nothing is assumed of the clients.
FairSpec == Spec /\ WF_vars(Loop) /\ SF_vars(Wait)

-----------------------------------------------------------------------------
TypeOK ==
  /\ pc \in {"top", "poll", "rounds", "ending", "handlers"}
  /\ i \in 0..LobbySize
  /\ pc = "ending" => i \in Games
  /\ in_progress \in [Games -> BOOLEAN]
  /\ left \in [Games -> (-MaxLate)..(TIME_BEFORE_START_SEC + GAME_DURATION_SEC)]
  /\ timeout \in (-MaxLate)..GAME_DURATION_SEC
  /\ blocked \in 0..Blocking

\* The premise of what follows: a pass of the loop blocks no longer than the seconds
\* by which a round is ended early, and one more.
BlocksBriefly ==
  /\ Blocking <= SOCKOPT_TIMEOUT_SEC + 1
  /\ SOCKOPT_TIMEOUT_SEC < TIME_BEFORE_START_SEC + GAME_DURATION_SEC

\* poll never waits without end: no round that is in progress has less than nothing
\* left at the top of the loop, whatever was blocked on since its time was looked at.
PollIsBounded == BlocksBriefly => timeout >= 0

\* No round goes on past end_sec for longer than one pass of the loop blocks.
EndsInTime ==
  BlocksBriefly => \A g \in Games : in_progress[g] => left[g] >= -Blocking

\* Every round ends.
RoundsEnd == \A g \in Games : in_progress[g] ~> ~in_progress[g]
=============================================================================
