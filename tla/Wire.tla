--------------------------------- MODULE Wire ---------------------------------
(***************************************************************************)
(* The connections of one game as streams of bytes: the server receives    *)
(* its messages field by field into a buffer and sends what it serialized, *)
(* and every recv and send may transfer a part only, or fail               *)
(* (utils/sock_utils.c, utils/stream_handlers.c, server.c).                *)
(*                                                                         *)
(* The server blocks in each of them, so that a handler is a sequence of   *)
(* steps: first what it receives, then a stack of the sends it still has   *)
(* to do.  A send that fails inside a broadcast removes the player, and    *)
(* the removal broadcasts before the first broadcast goes on.              *)
(*                                                                         *)
(* Who is told what and when is in GameServer and Session: here the server *)
(* may send any of its messages whenever it is in its loop, and handles    *)
(* the messages of clients as it does while a round is in progress.  Bytes *)
(* that arrive too late for the timeout count as never sent.               *)
(***************************************************************************)
EXTENDS Messages, FiniteSets

CONSTANTS
  Clients,           \* the clients
  None,              \* no client
  MAX_USERNAME_LEN,  \* the longest username that is let in
  MAX_GUESS_LEN,     \* the longest guess that is read
  CANVAS_SIZE,       \* canvas indices are 0..(CANVAS_SIZE - 1)
  Lengths,           \* the lengths of the texts clients send, or announce below zero
  Strokes,           \* the sequences of indices clients send
  MaxUnread          \* bound: nobody sends while a client has as many messages on the way

ASSUME WireAssumption ==
  /\ None \notin Clients
  /\ IsFiniteSet(Clients)
  /\ MAX_USERNAME_LEN \in Nat
  /\ MAX_GUESS_LEN \in Nat
  /\ CANVAS_SIZE \in Nat
  /\ Lengths \subseteq Ints32
  /\ Strokes \subseteq Seq(Int)
  /\ \A diffs \in Strokes : Len(diffs) <= INT_MAX
  /\ MaxUnread \in Nat \ {0}

\* An int counts the bytes of every message of the server, and of the texts it lets in.
ASSUME WidthAssumption ==
  /\ 1 + INT_BYTES + MAX_USERNAME_LEN <= INT_MAX
  /\ 1 + INT_BYTES + NAME_LEN + MAX_GUESS_LEN <= INT_MAX
  /\ 1 + 2 * INT_BYTES <= INT_MAX
  /\ 2 + INT_BYTES + WORD_LEN + TIME_BYTES + CANVAS_BYTES <= INT_MAX
  /\ 1 + INT_BYTES + Cardinality(Clients) * (INT_BYTES + NAME_LEN + 1) <= INT_MAX

VARIABLES
  status,   \* of each client: away, new while it logs in, in the game
  up,       \* the bytes from each client that the server has not received
  over,     \* the clients that send no more: hung up, or stopped within a message
  want,     \* what each client waits for, see Messages
  drawer,   \* the drawing player
  buffer,   \* the buffer of the message being handled
  recving,  \* the recv_buffer the server is in
  stack,    \* the sends still to be done, the innermost first
  sending   \* the send_buffer the server is in

conn == <<status, up, over, want, drawer>>
vars == <<status, up, over, want, drawer, buffer, recving, stack, sending>>

MIN_PLAYERS == 2
INT_OFFSET == 1
STRING_OFFSET == INT_OFFSET + INT_BYTES

\* What the server does about a send that fails, or after it.
\*   broadcast : the player is removed, the others are still told
\*   needed    : the player is removed, the handler ends
\*   ignored   : nothing
\*   last      : the connection is closed, whether it fails or not
Modes == {"broadcast", "needed", "ignored", "last"}

Idle == recving.from = None /\ stack = <<>>
In == {c \in Clients : status[c] = "in"}
NoRecv == [from |-> None, field |-> "header", size |-> 0, total |-> 0]
NoSend == [to |-> None, left |-> <<>>]
Sends(to, bytes, mode) == [to |-> to, bytes |-> bytes, mode |-> mode]

Init ==
  /\ status = [c \in Clients |-> "away"]
  /\ up = [c \in Clients |-> <<>>]
  /\ over = {}
  /\ want = [c \in Clients |-> <<>>]
  /\ drawer = None
  /\ buffer = new_buffer
  /\ recving = NoRecv
  /\ stack = <<>>
  /\ sending = NoSend

-----------------------------------------------------------------------------
(* Clients: what they send is [SOCK_HEADER][INT] and as much as that says *)

\* A text none or all of whose characters a username may have.
VALID == 1
INVALID == 3
Sentence == 2

ClientText(flag, text, n) == Header(flag) \o Int32(n) \o Text(text, n)
ClientDrawing(diffs) ==
  Header(CANVAS) \o Int32(Len(diffs))
  \o [k \in 1..(Len(diffs) * INT_BYTES) |->
        Int32(diffs[(k - 1) \div INT_BYTES + 1])[((k - 1) % INT_BYTES) + 1]]

\* A length below zero is followed by nothing.
FromClient == {ClientText(LOGIN, t, n) : t \in {VALID, INVALID}, n \in Lengths}
              \cup {ClientText(CHAT, Sentence, n) : n \in Lengths}
              \cup {ClientText(CANVAS, Sentence, n) : n \in {k \in Lengths : k < 0}}
              \cup {ClientDrawing(d) : d \in Strokes}

Headers(bytes) == Cardinality({k \in 1..Len(bytes) : bytes[k].kind = "header"})

\* The client sends a message, or only the first part of it, and then no more.  Only
\* while the server is in its loop, or receives from the client: what is sent while it
\* is busy with another is not looked at before.
Write(c) ==
  /\ status[c] # "away"
  /\ Idle \/ recving.from = c
  /\ c \notin over
  /\ \A d \in Clients : Headers(up[d]) < MaxUnread
  /\ \E m \in FromClient :
       \/ up' = [up EXCEPT ![c] = @ \o m] /\ UNCHANGED over
       \/ /\ \E n \in 0..(Len(m) - 1) : up' = [up EXCEPT ![c] = @ \o SubSeq(m, 1, n)]
          /\ over' = over \cup {c}
  /\ UNCHANGED <<status, want, drawer, buffer, recving, stack, sending>>

-----------------------------------------------------------------------------
(* Connections that end *)

Close(c) ==
  /\ status' = [status EXCEPT ![c] = "away"]
  /\ up' = [up EXCEPT ![c] = <<>>]
  /\ over' = over \ {c}
  /\ want' = [want EXCEPT ![c] = <<>>]

Others(c) == In \ {c}

\* The broadcast of a removal comes before the sends in rest.
RemovePlayer(c, rest) ==
  /\ Close(c)
  /\ stack' = <<Sends(Others(c), Message(player_list_change(0)), "broadcast")>> \o rest

\* A handler that gives up: a client that logs in is closed, a player removed.
GiveUp(c) ==
  /\ IF status[c] = "new" THEN Close(c) /\ stack' = <<>> ELSE RemovePlayer(c, <<>>)
  /\ recving' = NoRecv
  /\ buffer' = new_buffer
  /\ UNCHANGED <<drawer, sending>>

-----------------------------------------------------------------------------
(* Receiving *)

\* Mutant: recv into the space that happens to be there.
Receive_without_reserve(c, b, field, size) ==
  /\ buffer' = b
  /\ recving' = [from |-> c, field |-> field, size |-> size, total |-> 0]

\* recv_buffer begins.
Receive(c, b, field, size) ==
  /\ buffer' = reserve_space(b, size)
  /\ recving' = [from |-> c, field |-> field, size |-> size, total |-> 0]

\* accept: the login is read at once.
Accept(c) ==
  /\ Idle
  /\ status[c] = "away"
  /\ status' = [status EXCEPT ![c] = "new"]
  /\ Receive(c, new_buffer, "header", 1)
  /\ UNCHANGED <<up, over, want, drawer, stack, sending>>

\* manage_player_action: poll has seen bytes, or the end of the stream.
Action(c) ==
  /\ Idle
  /\ status[c] = "in"
  /\ up[c] # <<>> \/ c \in over
  /\ Receive(c, new_buffer, "header", 1)
  /\ UNCHANGED <<conn, stack, sending>>

\* The drawing to be received has a number of indices that nothing checks and the program
\* is not made for.  Below zero, nothing is received and the unwritten result decides
\* whether the header and a part of the number are passed on as a drawing.  When an int
\* does not count the bytes together with those before them, the product or the sum has
\* wrapped around: the buffer is too small, or recving.size not the size announced, and C
\* leaves open what follows.  So do the properties, in both cases; the model goes on only
\* if the player is given up.
Miscounted ==
  LET n == unpack_int_var(buffer, INT_OFFSET)
  IN  /\ recving.field = "diffs"
      /\ n < 0 \/ STRING_OFFSET + n * INT_BYTES > INT_MAX

\* One recv: some of the bytes that are there.
Recv ==
  LET c == recving.from
  IN  /\ c # None
      /\ ~Miscounted
      /\ \E n \in 1..(recving.size - recving.total) :
           /\ n <= Len(up[c])
           /\ buffer' = Copied(buffer, buffer.next + recving.total, SubSeq(up[c], 1, n))
           /\ up' = [up EXCEPT ![c] = SubSeq(@, n + 1, Len(@))]
           /\ recving' = [recving EXCEPT !.total = @ + n]
      /\ UNCHANGED <<status, over, want, drawer, stack, sending>>

\* recv returns 0 or -1 when nothing more comes; a length of zero or less leaves the
\* result of recvall unwritten.
RecvFails ==
  /\ recving.from # None
  /\ \/ recving.total < recving.size /\ up[recving.from] = <<>>
     \/ recving.size <= 0
     \/ Miscounted
  /\ GiveUp(recving.from)

\* Mutant: the first recv that returns something ends it.
Received_in_part(field) ==
  /\ recving.from # None
  /\ recving.field = field
  /\ recving.total > 0 \/ recving.size <= 0
  /\ ~Miscounted

\* recv_buffer ends well with the field received.
Received(field) ==
  /\ recving.from # None
  /\ recving.field = field
  /\ recving.total >= recving.size
  /\ ~Miscounted

Full == Advanced(buffer, recving.size)

-----------------------------------------------------------------------------
(* The handlers, after each field *)

ExpectedFlag(c) ==
  IF status[c] = "new" THEN LOGIN ELSE IF c = drawer THEN CANVAS ELSE CHAT

GotHeader ==
  LET c == recving.from
  IN  /\ Received("header")
      /\ \/ /\ buffer.data[1].value = ExpectedFlag(c)
            /\ Receive(c, Full, "int", INT_BYTES)
            /\ UNCHANGED <<conn, stack, sending>>
         \/ /\ buffer.data[1].value # ExpectedFlag(c)
            /\ GiveUp(c)

\* Mutant: the longest guess is too long.
TooLong_by_one(flag, n) ==
  \/ flag = LOGIN /\ n > MAX_USERNAME_LEN
  \/ flag = CHAT /\ n >= MAX_GUESS_LEN

TooLong(flag, n) ==
  \/ flag = LOGIN /\ n > MAX_USERNAME_LEN
  \/ flag = CHAT /\ n > MAX_GUESS_LEN

GotInt ==
  LET c == recving.from
      n == unpack_int_var(buffer, INT_OFFSET)
  IN  /\ Received("int")
      /\ \/ /\ ~TooLong(ExpectedFlag(c), n)
            /\ IF ExpectedFlag(c) = CANVAS
               THEN Receive(c, Full, "diffs", AsInt(n * INT_BYTES))
               ELSE Receive(c, Full, "text", n)
            /\ UNCHANGED <<conn, stack, sending>>
         \/ /\ TooLong(ExpectedFlag(c), n)
            /\ GiveUp(c)

\* Every character is a letter, a digit, _ or -.  What strcpy finds behind the buffer may
\* be one of them or not.
MayPass(username) == \A k \in 1..Len(username) : username[k].value # INVALID
MayNotPass(username) ==
  \E k \in 1..Len(username) : username[k].value = INVALID \/ username[k] = Stray

\* A login with another character is closed.
InvalidUsername ==
  /\ Received("text")
  /\ status[recving.from] = "new"
  /\ \E username \in strcpy(Full, STRING_OFFSET) : MayNotPass(username)
  /\ GiveUp(recving.from)

\* A login is refused, or answered and announced.
LoggedIn ==
  LET c == recving.from
  IN  /\ Received("text")
      /\ status[c] = "new"
      /\ \E username \in strcpy(Full, STRING_OFFSET) : MayPass(username)
      /\ \/ /\ status' = [status EXCEPT ![c] = "in"]
            /\ stack' = <<Sends({c}, Message(<<Header(OK)>>), "ignored"),
                          Sends({c}, Message(player_list(Cardinality(In) + 1)), "needed"),
                          Sends(Others(c), Message(player_list_change(1)), "broadcast")>>
         \/ /\ \E flag \in {INVALID_USERNAME, SERVER_ERROR, SERVER_FULL} :
                 stack' = <<Sends({c}, Message(<<Header(flag)>>), "last")>>
            /\ UNCHANGED status
      /\ recving' = NoRecv
      /\ buffer' = new_buffer
      /\ UNCHANGED <<up, over, want, drawer, sending>>

\* The buffer of the guess is used again for what the others are told.
Announcement(b, flag, text) == serialize_all(clear_buffer(b), his(flag, text))

\* The text is cut behind MAX_GUESS_LEN.
Cut(text) == IF Len(text) > MAX_GUESS_LEN THEN SubSeq(text, 1, MAX_GUESS_LEN) ELSE text

\* The sender is answered, then the others hear of the guess.
Guessed ==
  LET c == recving.from
  IN  /\ Received("text")
      /\ status[c] = "in"
      /\ \E guess \in strcpy(Full, STRING_OFFSET) :
           LET correct == Cut(guess) = Word
               answer == Header(IF correct THEN CORRECT_GUESS ELSE WRONG_GUESS)
               told == IF correct THEN Announcement(Full, CORRECT_GUESS_ANNOUNCEMENT, Name)
                       ELSE Announcement(Full, CHAT, Name \o Cut(guess))
           IN  stack' = <<Sends({c}, Message(<<answer>>), "needed"),
                          Sends(Others(c), Content(told), "broadcast")>>
      /\ recving' = NoRecv
      /\ buffer' = new_buffer
      /\ UNCHANGED <<conn, sending>>

\* Every index of the drawing received is on the canvas.
OnCanvas ==
  \A k \in 1..unpack_int_var(Full, INT_OFFSET) :
    unpack_int_var(Full, STRING_OFFSET + INT_BYTES * (k - 1)) \in 0..(CANVAS_SIZE - 1)

\* The drawing is sent on as it came, unless an index is out of range.
Drawn ==
  /\ Received("diffs")
  /\ \/ /\ OnCanvas
        /\ buffer' = new_buffer
        /\ stack' = <<Sends(Others(recving.from), Content(Full), "broadcast")>>
        /\ recving' = NoRecv
        /\ UNCHANGED <<conn, sending>>
     \/ /\ ~OnCanvas
        /\ GiveUp(recving.from)

-----------------------------------------------------------------------------
(* Rounds: who is sent what, whenever the server is in its loop *)

Notify ==
  /\ Idle
  /\ \/ /\ drawer' = drawer
        /\ stack' = <<Sends(In, Message(waiting_for_players(Cardinality(In), MIN_PLAYERS)),
                            "broadcast")>>
     \/ /\ drawer' = drawer
        /\ stack' = <<Sends(In, Message(<<Header(GAME_ENDS)>>), "broadcast")>>
     \/ \E c \in In :
          /\ drawer' = c
          /\ stack' = <<Sends({c}, Message(game_draw_start), "broadcast"),
                        Sends(Others(c), Message(game_guess_start), "broadcast")>>
     \/ \E c \in In :
          /\ drawer' = drawer
          /\ stack' = <<Sends({c},
                              Message(game_in_progress(IF c = drawer THEN START_AND_DRAW
                                                       ELSE START_AND_GUESS)), "needed")>>
  /\ UNCHANGED <<status, up, over, want, buffer, recving, sending>>

-----------------------------------------------------------------------------
(* Sending *)

Top == Head(stack)
\* Whom the innermost loop has still to send to: is_online is read as it gets there.
Pending == {c \in Top.to : status[c] # "away"}

\* send_buffer begins; the loop of broadcast_buffer ends.
NextReceiver ==
  /\ stack # <<>>
  /\ sending.to = None
  /\ \/ \E c \in Pending :
          /\ sending' = [to |-> c, left |-> Top.bytes]
          /\ stack' = [stack EXCEPT ![1].to = @ \ {c}]
          /\ UNCHANGED conn
     \/ /\ Pending = {}
        /\ stack' = Tail(stack)
        /\ UNCHANGED <<conn, sending>>
  /\ UNCHANGED <<buffer, recving>>

\* One send: some of the bytes that are left.
Send ==
  LET c == sending.to
  IN  /\ c # None
      /\ \E n \in 1..Len(sending.left) :
           LET left == SubSeq(sending.left, n + 1, Len(sending.left))
           IN  /\ sending' = IF left = <<>> THEN NoSend ELSE [to |-> c, left |-> left]
               /\ IF left = <<>> /\ Top.mode = "last" THEN Close(c)
                  ELSE /\ want' = [want EXCEPT ![c] = HearAll(@, SubSeq(sending.left, 1, n))]
                       /\ UNCHANGED <<status, up, over>>
      /\ UNCHANGED <<drawer, buffer, recving, stack>>

\* Mutant: the message is sent again from its start.
SendFails_starting_over ==
  /\ sending.to # None
  /\ sending' = [sending EXCEPT !.left = Top.bytes]
  /\ UNCHANGED <<conn, buffer, recving, stack>>

\* The client has hung up, or has not read enough in time.
SendFails ==
  LET c == sending.to
  IN  /\ c # None
      /\ \/ Top.mode = "broadcast" /\ RemovePlayer(c, stack)
         \/ Top.mode = "needed" /\ RemovePlayer(c, <<>>)
         \/ Top.mode = "ignored" /\ UNCHANGED <<status, up, over, want, stack>>
         \/ Top.mode = "last" /\ Close(c) /\ UNCHANGED stack
      /\ sending' = NoSend
      /\ UNCHANGED <<drawer, buffer, recving>>

-----------------------------------------------------------------------------
Handler == Recv \/ RecvFails \/ GotHeader \/ GotInt \/ InvalidUsername \/ LoggedIn
           \/ Guessed \/ Drawn \/ NextReceiver \/ Send \/ SendFails

Next ==
  \/ Handler
  \/ Notify
  \/ \E c \in Clients : Write(c) \/ Accept(c) \/ Action(c)

\* The server does not stop in a handler: recv and send return within a timeout.  This is
\* WF_vars(Handler), since a handler has a next step whenever the server is not Idle; but
\* nothing is assumed of what it does with a Miscounted drawing.
HandlersGoOn == []<>(Idle \/ Miscounted) \/ []<><<Handler>>_vars
Spec == Init /\ [][Next]_vars /\ HandlersGoOn

-----------------------------------------------------------------------------
(* What both ends can rely on *)

\* Every recv stays within the memory of its buffer, for every length a client may
\* announce, except for drawings that are Miscounted.
ReceivesFit ==
  /\ IsBuffer(buffer)
  /\ ~Miscounted => buffer.next + recving.size <= Len(buffer.data)

\* Types, and the memory of the buffer.
TypeOK ==
  /\ status \in [Clients -> {"away", "new", "in"}]
  /\ up \in [Clients -> Seq(Bytes)]
  /\ over \subseteq Clients
  /\ DOMAIN want = Clients
  /\ drawer \in Clients \cup {None}
  /\ ReceivesFit
  /\ recving \in [from : Clients \cup {None}, field : {"header", "int", "text", "diffs"},
                  size : Int, total : Nat]
  /\ stack \in Seq([to : SUBSET Clients, bytes : Seq(Bytes), mode : Modes])
  /\ sending \in [to : Clients \cup {None}, left : Seq(Bytes)]

\* A client that reads by the table of sock_header.h understands what it is sent: no byte
\* is another than the one it waits for, whatever part of a message arrived before,
\* whatever was broadcast in between; and while the server is in its loop no message is
\* left half sent.  Except for GAME_IN_PROGRESS, which misleads it.
ClientsUnderstand ==
  \A c \in Clients : want[c] # Confused /\ (Idle => want[c] \in {<<>>, Misled})

\* The server stays in step: whenever it is in its loop, what a player sends next begins
\* with a header.
ServerInStep ==
  Idle => \A c \in In : up[c] # <<>> => Head(up[c]).kind = "header"

\* A text is heard as it was sent, whatever the buffer held before: it ends in a zero,
\* except when it fills the buffer to its last byte and strcpy reads on.
HeardAsSent ==
  Received("text") =>
    \/ \E text \in IF status[recving.from] = "new" THEN {VALID, INVALID} ELSE {Sentence} :
         strcpy(Full, STRING_OFFSET) = {Text(text, recving.size)}
    \/ STRING_OFFSET + recving.total = Len(buffer.data)

\* What has been received of the message of c is what the program lets pass.
Regular(c) ==
  /\ recving.total = recving.size
  /\ recving.size > 0
  /\ buffer.data[1].value = ExpectedFlag(c)
  /\ recving.field = "int" /\ ExpectedFlag(c) # CANVAS
     => unpack_int_var(buffer, INT_OFFSET)
          <= IF status[c] = "new" THEN MAX_USERNAME_LEN ELSE MAX_GUESS_LEN
  /\ recving.field = "text" /\ status[c] = "new" =>
       /\ \A k \in 1..recving.size : buffer.data[STRING_OFFSET + k].value # INVALID
       /\ STRING_OFFSET + recving.size # Len(buffer.data)
  /\ recving.field = "diffs" => ~Miscounted /\ OnCanvas

\* The server gives up no client that sends in time a message that is its turn, not
\* empty, not too long and within the canvas, and that reads what it is sent; unless it
\* is told that its login is refused.  Not told is a client whose username has another
\* character than those that may be in it, or may seem to: where the name fills the
\* buffer to its last byte, strcpy reads on.
KeptIfRegular ==
  [][\A c \in Clients :
       status[c] # "away" /\ status'[c] = "away" =>
         sending.to = c \/ (recving.from = c /\ ~Regular(c))]_vars

\* Whoever stops in the middle of a message, or reads no more, does not hold the server
\* for ever.
ServerReturns == []<>(Idle \/ Miscounted)
=============================================================================
