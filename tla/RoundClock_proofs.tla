-------------------------- MODULE RoundClock_proofs --------------------------
(***************************************************************************)
(* The clock of the poll loop, for every number of games and every length  *)
(* of rounds: as long as a pass of the loop blocks briefly, poll is never  *)
(* called without an end and no round goes on long past end_sec.           *)
(***************************************************************************)
EXTENDS RoundClock, LibraryLemmas

\* Round g is in progress and has at least n seconds left.
HasLeft(g, n) == in_progress[g] => left[g] >= n

\* A game whose time was looked at in this pass still has the seconds by which rounds
\* are ended early, less what was blocked since; the others have at least what was
\* left when poll returned, less what was blocked since.
Margin ==
  /\ timeout >= 0
  /\ pc \in {"handlers", "top"} =>
       \A g \in Games : HasLeft(g, SOCKOPT_TIMEOUT_SEC + 1 - blocked)
  /\ pc = "poll" => \A g \in Games : HasLeft(g, timeout)
  /\ pc \in {"rounds", "ending"} =>
       \A g \in Games :
         /\ g < i => HasLeft(g, SOCKOPT_TIMEOUT_SEC + 1 - blocked)
         /\ HasLeft(g, -blocked)
  /\ pc = "ending" => ~in_progress[i]

\* The inductive invariant.
IInv == TypeOK /\ (BlocksBriefly => Margin)

\* The timeout of poll is the least of what the rounds in progress have left, and of
\* the length of a round.
LEMMA PollTimeoutIsLeast ==
  ASSUME TypeOK
  PROVE  /\ PollTimeout \in (-MaxLate)..GAME_DURATION_SEC
         /\ \A g \in Games : in_progress[g] => PollTimeout <= left[g]
         /\ \/ PollTimeout = GAME_DURATION_SEC
            \/ \E g \in Games : in_progress[g] /\ PollTimeout = left[g]
<1> DEFINE S == {GAME_DURATION_SEC} \cup {left[g] : g \in {h \in Games : in_progress[h]}}
<1>1. \A g \in Games : left[g] \in Int /\ -MaxLate <= left[g]
  BY ClockAssumption DEF TypeOK
<1>2. S \in SUBSET Int /\ S # {} /\ -MaxLate \in Int
  BY <1>1, ClockAssumption
<1>3. \A x \in S : -MaxLate <= x
  BY <1>1, ClockAssumption
<1>4. PollTimeout = Min(S)
  BY Zenon DEF PollTimeout
<1>5. GAME_DURATION_SEC \in S /\ \A g \in Games : in_progress[g] => left[g] \in S
  OBVIOUS
<1>6. \A x \in S : x = GAME_DURATION_SEC \/ \E g \in Games : in_progress[g] /\ x = left[g]
  OBVIOUS
<1>. HIDE DEF S
<1>7. PollTimeout \in S /\ \A x \in S : PollTimeout <= x
  BY <1>2, <1>3, <1>4, MinOfBounded, Zenon
<1>8. PollTimeout \in (-MaxLate)..GAME_DURATION_SEC
  BY <1>2, <1>3, <1>5, <1>7, ClockAssumption
<1>. QED  BY <1>5, <1>6, <1>7, <1>8

\* start establishes the invariant.
LEMMA InitHasMargin == Init => IInv
BY ClockAssumption DEF Init, IInv, TypeOK, Margin, HasLeft, Games

\* Every step keeps the type.
LEMMA NextKeepsType == TypeOK /\ [Next]_vars => TypeOK'
<1> SUFFICES ASSUME TypeOK, [Next]_vars PROVE TypeOK'
  OBVIOUS
<1>. USE ClockAssumption DEF TypeOK, Games
<1>1. CASE Poll
  BY <1>1, PollTimeoutIsLeast DEF Poll
<1>2. CASE PollExpires \/ PollEvent
  BY <1>2 DEF PollExpires, PollEvent, PollReturns
<1>3. CASE SkipRound
  BY <1>3 DEF SkipRound
<1>4. CASE EndRound
  BY <1>4 DEF EndRound
<1>5. CASE ValidateRound
  <2>1. i \in Games /\ i + 1 \in 0..LobbySize
    BY <1>5 DEF ValidateRound
  <2>2. /\ in_progress' \in [Games -> BOOLEAN]
        /\ left' \in [Games -> (-MaxLate)..(TIME_BEFORE_START_SEC + GAME_DURATION_SEC)]
    <3>1. CASE StartRound(i)
      BY <2>1, <3>1 DEF StartRound
    <3>2. CASE UNCHANGED <<in_progress, left>>
      BY <3>2
    <3>. QED  BY <1>5, <3>1, <3>2 DEF ValidateRound
  <2>. QED  BY <1>5, <2>1, <2>2 DEF ValidateRound
<1>6. CASE RoundsDone \/ Again
  BY <1>6 DEF RoundsDone, Again
<1>7. CASE Wait
  BY <1>7 DEF Wait, Second
<1>8. CASE Block
  BY <1>8 DEF Block, Second
<1>9. CASE \E g \in Games : Login(g)
  BY <1>9 DEF Login, StartRound
<1>10. CASE UNCHANGED vars
  BY <1>10 DEF vars
<1>. QED
  BY <1>1, <1>2, <1>3, <1>4, <1>5, <1>6, <1>7, <1>8, <1>9, <1>10 DEF Next, Loop

\* Every step keeps the margins, when a pass blocks briefly.
LEMMA NextKeepsMargin ==
  TypeOK /\ BlocksBriefly /\ Margin /\ [Next]_vars => Margin'
<1> SUFFICES ASSUME TypeOK, BlocksBriefly, Margin, [Next]_vars PROVE Margin'
  OBVIOUS
<1>. USE ClockAssumption DEF TypeOK, Games, BlocksBriefly, Margin, HasLeft
<1>1. CASE Poll
  <2>1. \A g \in Games : in_progress[g] => 0 <= left[g]
    BY <1>1 DEF Poll
  <2>2. 0 <= PollTimeout
    BY <2>1, PollTimeoutIsLeast
  <2>. QED  BY <1>1, <2>2, PollTimeoutIsLeast DEF Poll
<1>2. CASE PollExpires \/ PollEvent
  BY <1>2 DEF PollExpires, PollEvent, PollReturns
<1>3. CASE SkipRound
  BY <1>3 DEF SkipRound, Due
<1>4. CASE EndRound
  BY <1>4 DEF EndRound
<1>5. CASE ValidateRound
  BY <1>5 DEF ValidateRound, StartRound
<1>6. CASE RoundsDone \/ Again
  BY <1>6 DEF RoundsDone, Again
<1>7. CASE Wait
  BY <1>7 DEF Wait, Second
<1>8. CASE Block
  BY <1>8 DEF Block, Second
<1>9. CASE \E g \in Games : Login(g)
  BY <1>9 DEF Login, StartRound
<1>10. CASE UNCHANGED vars
  BY <1>10 DEF vars
<1>. QED
  BY <1>1, <1>2, <1>3, <1>4, <1>5, <1>6, <1>7, <1>8, <1>9, <1>10 DEF Next, Loop

\* The inductive invariant holds in every behaviour.
THEOREM InductiveInvariant == Spec => []IInv
<1>1. IInv /\ [Next]_vars => IInv'
  <2>1. BlocksBriefly' = BlocksBriefly
    BY DEF BlocksBriefly
  <2>. QED  BY <2>1, NextKeepsType, NextKeepsMargin DEF IInv
<1>. QED  BY <1>1, InitHasMargin, PTL DEF Spec

\* For every lobby and every length of rounds: the clock keeps its type, so the timeout
\* of poll is no longer than a round (start).
THEOREM TypeCorrect == Spec => []TypeOK
<1>1. IInv => TypeOK
  BY DEF IInv
<1>. QED  BY <1>1, InductiveInvariant, PTL

\* For every lobby and every length of rounds: a pass that blocks for no longer than
\* SOCKOPT_TIMEOUT_SEC and one second never makes the next poll one without an end.
THEOREM PollIsAlwaysBounded == Spec => []PollIsBounded
<1>1. IInv => PollIsBounded
  BY DEF IInv, Margin, PollIsBounded
<1>. QED  BY <1>1, InductiveInvariant, PTL

\* For every lobby and every length of rounds: under the same premise no round is
\* further past end_sec than the seconds one pass blocks.
THEOREM RoundsEndInTime == Spec => []EndsInTime
<1>1. IInv => EndsInTime
  BY ClockAssumption DEF IInv, Margin, EndsInTime, TypeOK, HasLeft, BlocksBriefly
<1>. QED  BY <1>1, InductiveInvariant, PTL
=============================================================================
