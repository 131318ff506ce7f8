------------------------------- MODULE Messages -------------------------------
(***************************************************************************)
(* The messages of the server as utils/stream_handlers.c serializes them,  *)
(* and the client that reads them by the table of shared/sock_header.h.    *)
(*                                                                         *)
(* The client is not part of the repository.  It reads byte after byte and *)
(* knows after each what it waits for: the kinds of the bytes left of the  *)
(* message, and arrays whose length it has not read yet.                   *)
(***************************************************************************)
EXTENDS Buffer, SequencesExt

CONSTANTS
  NAME_LEN,         \* the length of a username
  WORD_LEN          \* the length of the word to guess

ASSUME TextAssumption == NAME_LEN \in Nat \ {0} /\ WORD_LEN \in Nat \ {0}

OK == 1
CANVAS == 2
CHAT == 3
START_AND_GUESS == 4
START_AND_DRAW == 5
LOGIN == 6
CORRECT_GUESS == 7
WRONG_GUESS == 8
CORRECT_GUESS_ANNOUNCEMENT == 9
INVALID_USERNAME == 10
WAITING_FOR_PLAYERS == 11
GAME_ENDS == 12
GAME_IN_PROGRESS == 13
SERVER_ERROR == 14
PLAYER_LIST == 15
PLAYER_LIST_CHANGE == 16
SERVER_FULL == 17
HEART_BEAT == 18

\* Texts: all usernames, words and sentences of one length are alike.
Name == Text(1, NAME_LEN)
Word == Text(2, WORD_LEN)

-----------------------------------------------------------------------------
(* Serializing: the fields of each message in the order of the calls *)

his(flag, text) == <<Header(flag), Int32(Len(text)), text>>
player(online) == <<Int32(NAME_LEN), Name, Byte(online)>>

game_draw_start == Append(his(START_AND_DRAW, Word), Time)
game_guess_start == <<Header(START_AND_GUESS), Time>>

\* The role, with the word for the drawing player, the end of the round, the canvas.
game_in_progress(second_flag) ==
  <<Header(GAME_IN_PROGRESS), Header(second_flag)>>
  \o (IF second_flag = START_AND_DRAW THEN <<Int32(WORD_LEN), Word>> ELSE <<>>)
  \o <<Time, Bitarray>>

player_list(count) ==
  <<Header(PLAYER_LIST), Int32(count)>> \o FlattenSeq([k \in 1..count |-> player(1)])
player_list_change(online) == <<Header(PLAYER_LIST_CHANGE)>> \o player(online)
waiting_for_players(connected, min) ==
  <<Header(WAITING_FOR_PLAYERS), Int32(connected), Int32(min)>>

serialize_all(b, fields) == FoldLeft(serialize, b, fields)

\* What is sent of a buffer allocated for the message.
Message(fields) == Content(serialize_all(new_buffer, fields))

-----------------------------------------------------------------------------
(* The client *)

Ints(n) == [k \in 1..(n * INT_BYTES) |-> "int"]
All(kind, n) == [k \in 1..n |-> kind]
String == Append(Ints(1), "STR")
Player == Append(String, "byte")

\* What follows the header, as the table has it.  The time of GAME_IN_PROGRESS has a name
\* of its own: the server sends more, see Hear.
Row(flag) ==
  CASE flag \in {CHAT, CORRECT_GUESS_ANNOUNCEMENT} -> String
    [] flag = CANVAS -> Append(Ints(1), "DIFFS")
    [] flag = START_AND_GUESS -> All("time", TIME_BYTES)
    [] flag = START_AND_DRAW -> String \o All("time", TIME_BYTES)
    [] flag = GAME_IN_PROGRESS -> All("round_end", TIME_BYTES)
    [] flag = WAITING_FOR_PLAYERS -> Ints(2)
    [] flag = PLAYER_LIST -> Append(Ints(1), "PLAYERS")
    [] flag = PLAYER_LIST_CHANGE -> Player
    [] OTHER -> <<>>

\* An array whose length the client has just read.
Arrays == {"STR", "DIFFS", "PLAYERS"}
Items(array, n) ==
  CASE array = "STR" -> All("char", n)
    [] array = "DIFFS" -> Ints(n)
    [] array = "PLAYERS" -> FlattenSeq([k \in 1..n |-> Player])

\* The client has read a byte of another kind than the one it waits for: in the row of
\* GAME_IN_PROGRESS, or in any other.
Misled == <<"misled">>
Confused == <<"confused">>

\* The client waits for want and reads byte b.
Hear(want, b) ==
  IF want = <<>> THEN IF b.kind = "header" THEN Row(b.value) ELSE Confused
  ELSE IF want = Misled THEN Misled
  ELSE IF Head(want) = "round_end" THEN IF b.kind = "time" THEN Tail(want) ELSE Misled
  ELSE IF Head(want) # b.kind THEN Confused
  ELSE IF Len(want) > 1 /\ want[2] \in Arrays
       THEN Items(want[2], b.value) \o SubSeq(want, 3, Len(want))
  ELSE Tail(want)

HearAll(want, bytes) == FoldLeft(Hear, want, bytes)
=============================================================================
