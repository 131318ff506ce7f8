------------------------------ MODULE Wire_proofs ------------------------------
(* What the procedures of struct Buffer guarantee for every size; what every recv  *)
(* and every close of the server does, whatever length a client may claim; that    *)
(* the server stays in step with the streams of the clients, and every client with *)
(* what the server sends.                                                          *)
EXTENDS Wire, LibraryLemmas, SequenceTheorems, FiniteSetTheorems, TLAPS

-----------------------------------------------------------------------------
(* struct Buffer: a buffer stays within its memory, and serializing appends,   *)
(* whether the memory grows or not.                                            *)

\* Bytes.
LEMMA ZeroIsByte == Zero \in Bytes
BY DEF Zero, Bytes, Kinds

\* A buffer from its two parts.
LEMMA BufferByParts ==
  ASSUME NEW data \in Seq(Bytes), NEW n \in 0..Len(data), NEW b,
         DOMAIN b = {"data", "next"}, b.data = data, b.next = n
  PROVE  IsBuffer(b)
BY DEF IsBuffer

\* A new buffer is empty.
LEMMA NewBufferIsBuffer ==
  IsBuffer(new_buffer) /\ new_buffer.next = 0 /\ Len(new_buffer.data) = INITIAL_SIZE
<1> DEFINE data == [k \in 1..INITIAL_SIZE |-> Zero]
<1>1. INITIAL_SIZE \in Nat
  BY BufferAssumption
<1>2. data \in Seq(Bytes) /\ Len(data) = INITIAL_SIZE
  BY <1>1, ZeroIsByte
<1>3. DOMAIN new_buffer = {"data", "next"} /\ new_buffer.data = data /\ new_buffer.next = 0
  BY DEF new_buffer
<1> HIDE DEF data
<1>4. 0 \in 0..Len(data)
  BY <1>1, <1>2
<1>5. IsBuffer(new_buffer)
  BY <1>2, <1>3, <1>4, BufferByParts
<1> QED BY <1>2, <1>3, <1>5

\* A number that an int can hold is left as it is.
LEMMA SmallRemainder ==
  ASSUME NEW n \in Nat \ {0}, NEW y \in 0..(n - 1)
  PROVE  y % n = y
<1> DEFINE q == y \div n
           r == y % n
<1>1. q \in Int /\ r \in 0..(n - 1) /\ y = n * q + r
  OBVIOUS
<1> HIDE DEF q, r
<1>2. ~(q >= 1)
  <2>1. ASSUME q >= 1 PROVE FALSE
    <3>1. n * q >= n
      BY <1>1, <2>1
    <3> QED BY <1>1, <3>1
  <2> QED BY <2>1
<1>3. ~(q <= -1)
  <2>1. ASSUME q <= -1 PROVE FALSE
    <3>1. n * q <= -n
      BY <1>1, <2>1
    <3> QED BY <1>1, <3>1
  <2> QED BY <2>1
<1>4. q = 0
  BY <1>1, <1>2, <1>3
<1> QED BY <1>1, <1>4 DEF r

LEMMA IntsAreInts ==
  ASSUME NEW x \in Int
  PROVE  AsInt(x) \in Int /\ (x \in Ints32 => AsInt(x) = x)
<1> DEFINE n == 2 * (INT_MAX + 1)
           y == x + INT_MAX + 1
<1>1. n \in Nat \ {0} /\ y \in Int /\ INT_MAX \in Nat
  BY BufferAssumption
<1>2. AsInt(x) = (y % n) - (INT_MAX + 1)
  BY DEF AsInt
<1>3. x \in Ints32 => y \in 0..(n - 1)
  BY <1>1 DEF Ints32
<1>4. y = x + INT_MAX + 1
  OBVIOUS
<1> HIDE DEF n, y
<1>5. y % n \in Int
  BY <1>1
<1>6. x \in Ints32 => y % n = y
  BY <1>1, <1>3, SmallRemainder
<1> QED BY <1>1, <1>2, <1>4, <1>5, <1>6

\* The new size is enough for what is there, and for what is asked for if an int counts it.
LEMMA NewSizeIsEnough ==
  ASSUME NEW b, IsBuffer(b), NEW bytes \in Int
  PROVE  NewSize(b, bytes) \in Nat /\ NewSize(b, bytes) >= Len(b.data)
         /\ (b.next + bytes <= INT_MAX => NewSize(b, bytes) >= b.next + bytes)
<1> DEFINE min_size == AsInt(b.next + bytes)
           double == AsInt(2 * Len(b.data))
<1>1. Len(b.data) \in Nat /\ b.next \in Nat /\ b.next <= Len(b.data) /\ INT_MAX \in Nat
  BY BufferAssumption DEF IsBuffer
<1>2. min_size \in Int /\ double \in Int
  <2>1. b.next + bytes \in Int /\ 2 * Len(b.data) \in Int
    BY <1>1
  <2> QED BY <2>1, IntsAreInts
<1>3. b.next + bytes <= INT_MAX /\ bytes >= 0 => min_size = b.next + bytes
  BY <1>1, IntsAreInts DEF Ints32
<1>4. NewSize(b, bytes) = IF min_size <= Len(b.data) THEN Len(b.data)
                          ELSE IF min_size > double THEN min_size ELSE double
  BY DEF NewSize
<1> HIDE DEF min_size, double
<1> QED BY <1>1, <1>2, <1>3, <1>4

\* reserve_space keeps what is in use, and makes the rest zero and large enough for what
\* an int counts.
LEMMA SpaceIsReserved ==
  ASSUME NEW b, IsBuffer(b), NEW bytes \in Int
  PROVE  LET r == reserve_space(b, bytes)
         IN  /\ IsBuffer(r) /\ r.next = b.next
             /\ r.next + bytes <= INT_MAX => r.next + bytes <= Len(r.data)
             /\ Len(r.data) >= Len(b.data)
             /\ \A k \in 1..Len(r.data) : r.data[k] = IF k <= b.next THEN b.data[k] ELSE Zero
<1> DEFINE n == NewSize(b, bytes)
           data == [k \in 1..n |-> IF k <= b.next /\ k <= Len(b.data) THEN b.data[k] ELSE Zero]
           r == reserve_space(b, bytes)
<1>1. b.data \in Seq(Bytes) /\ b.next \in 0..Len(b.data)
  BY DEF IsBuffer
<1>2. /\ n \in Nat /\ n >= Len(b.data)
      /\ b.next + bytes <= INT_MAX => n >= b.next + bytes
  BY NewSizeIsEnough
<1>3. DOMAIN r = {"data", "next"} /\ r.data = data /\ r.next = b.next
  BY DEF reserve_space, IsBuffer
<1> HIDE DEF n, r
<1>4. data \in Seq(Bytes) /\ Len(data) = n
  <2>1. \A k \in 1..n : data[k] \in Bytes
    BY <1>1, <1>2, ZeroIsByte
  <2> QED BY <1>2, <2>1
<1>5. \A k \in 1..n : data[k] = IF k <= b.next THEN b.data[k] ELSE Zero
  BY <1>1
<1> HIDE DEF data
<1>6. b.next \in 0..Len(data)
  BY <1>1, <1>2, <1>4
<1>7. IsBuffer(r)
  BY <1>3, <1>4, <1>6, BufferByParts
<1> QED BY <1>1, <1>2, <1>3, <1>4, <1>5, <1>7 DEF r

\* memcpy changes the bytes it is told to.
LEMMA BytesAreCopied ==
  ASSUME NEW b, IsBuffer(b), NEW offset \in Nat, NEW bytes \in Seq(Bytes)
  PROVE  LET r == Copied(b, offset, bytes)
         IN  /\ IsBuffer(r) /\ r.next = b.next /\ Len(r.data) = Len(b.data)
             /\ \A k \in 1..Len(r.data) :
                  r.data[k] = IF k \in (offset + 1)..(offset + Len(bytes))
                              THEN bytes[k - offset] ELSE b.data[k]
<1> DEFINE data == [k \in 1..Len(b.data) |->
                      IF k \in (offset + 1)..(offset + Len(bytes))
                      THEN bytes[k - offset] ELSE b.data[k]]
           r == Copied(b, offset, bytes)
<1>1. b.data \in Seq(Bytes) /\ b.next \in 0..Len(b.data)
  BY DEF IsBuffer
<1>2. DOMAIN r = {"data", "next"} /\ r.data = data /\ r.next = b.next
  BY DEF Copied, IsBuffer
<1> HIDE DEF r
<1>3. data \in Seq(Bytes) /\ Len(data) = Len(b.data)
  <2>1. ASSUME NEW k \in 1..Len(b.data) PROVE data[k] \in Bytes
    <3>1. CASE k \in (offset + 1)..(offset + Len(bytes))
      <4>1. k - offset \in 1..Len(bytes)
        BY <1>1, <3>1
      <4> QED BY <3>1, <4>1
    <3>2. CASE k \notin (offset + 1)..(offset + Len(bytes))
      BY <1>1, <3>2
    <3> QED BY <3>1, <3>2
  <2> QED BY <1>1, <2>1
<1>4. \A k \in 1..Len(data) : data[k] = IF k \in (offset + 1)..(offset + Len(bytes))
                                        THEN bytes[k - offset] ELSE b.data[k]
  BY <1>3
<1> HIDE DEF data
<1>5. IsBuffer(r)
  BY <1>1, <1>2, <1>3, BufferByParts
<1> QED BY <1>2, <1>3, <1>4, <1>5 DEF r

\* Advancing over bytes the buffer has.
LEMMA AdvancedIsBuffer ==
  ASSUME NEW b, IsBuffer(b), NEW n \in Nat, b.next + n <= Len(b.data)
  PROVE  LET r == Advanced(b, n)
         IN  IsBuffer(r) /\ r.data = b.data /\ r.next = b.next + n
BY DEF IsBuffer, Advanced

-----------------------------------------------------------------------------
(* Serializing *)

\* Serializing a value of any type appends its bytes to what is sent, whether the buffer
\* had room for it or was moved and grown, as long as an int counts them.
THEOREM SerializeAppends ==
  ASSUME NEW b, IsBuffer(b), NEW bytes \in Seq(Bytes), b.next + Len(bytes) <= INT_MAX
  PROVE  /\ IsBuffer(serialize(b, bytes)) /\ serialize(b, bytes).next = b.next + Len(bytes)
         /\ Content(serialize(b, bytes)) = Content(b) \o bytes
<1> DEFINE n == Len(bytes)
           r == reserve_space(b, n)
           c == Copied(r, b.next, bytes)
           a == Advanced(c, n)
<1>1. n \in Nat /\ b.next \in Nat /\ b.data \in Seq(Bytes) /\ b.next <= Len(b.data)
  BY DEF IsBuffer
<1>2. /\ IsBuffer(r) /\ r.next = b.next /\ b.next + n <= Len(r.data)
      /\ \A k \in 1..Len(r.data) : r.data[k] = IF k <= b.next THEN b.data[k] ELSE Zero
  BY <1>1, SpaceIsReserved
<1> HIDE DEF r
<1>3. /\ IsBuffer(c) /\ c.next = b.next /\ Len(c.data) = Len(r.data)
      /\ \A k \in 1..Len(c.data) :
           c.data[k] = IF k \in (b.next + 1)..(b.next + n) THEN bytes[k - b.next] ELSE r.data[k]
  BY <1>1, <1>2, BytesAreCopied
<1> HIDE DEF c
<1>4. IsBuffer(a) /\ a.data = c.data /\ a.next = b.next + n
  BY <1>1, <1>2, <1>3, AdvancedIsBuffer
<1> HIDE DEF a, n
<1>5. a.data \in Seq(Bytes) /\ b.next + n <= Len(a.data)
  BY <1>2, <1>3, <1>4 DEF IsBuffer
<1>6. /\ Content(a) \in Seq(Bytes) /\ Len(Content(a)) = b.next + n
      /\ \A k \in 1..(b.next + n) : Content(a)[k] = a.data[k]
  BY <1>1, <1>4, <1>5 DEF Content
<1>7. /\ Content(b) \in Seq(Bytes) /\ Len(Content(b)) = b.next
      /\ \A k \in 1..b.next : Content(b)[k] = b.data[k]
  BY <1>1 DEF Content
<1>8. /\ Content(b) \o bytes \in Seq(Bytes) /\ Len(Content(b) \o bytes) = b.next + n
      /\ \A k \in 1..(b.next + n) :
           (Content(b) \o bytes)[k] = IF k <= b.next THEN b.data[k] ELSE bytes[k - b.next]
  <2> DEFINE old == Content(b)
  <2>1. old \in Seq(Bytes) /\ Len(old) = b.next /\ Len(bytes) = n
    BY <1>7 DEF n
  <2>2. \A k \in 1..b.next : old[k] = b.data[k]
    BY <1>7
  <2> HIDE DEF old
  <2>3. /\ old \o bytes \in Seq(Bytes) /\ Len(old \o bytes) = b.next + n
        /\ \A k \in 1..(b.next + n) :
             (old \o bytes)[k] = IF k <= b.next THEN old[k] ELSE bytes[k - b.next]
    <3>1. /\ old \o bytes \in Seq(Bytes) /\ Len(old \o bytes) = Len(old) + Len(bytes)
          /\ \A k \in 1..(Len(old) + Len(bytes)) :
               (old \o bytes)[k] = IF k <= Len(old) THEN old[k] ELSE bytes[k - Len(old)]
      BY <2>1, ConcatProperties, Zenon
    <3> QED BY <2>1, <3>1, Zenon
  <2>4. ASSUME NEW k \in 1..(b.next + n)
        PROVE  (old \o bytes)[k] = IF k <= b.next THEN b.data[k] ELSE bytes[k - b.next]
    <3>1. (old \o bytes)[k] = IF k <= b.next THEN old[k] ELSE bytes[k - b.next]
      BY <2>3
    <3>2. k <= b.next => k \in 1..b.next
      BY <1>1
    <3> QED BY <2>2, <3>1, <3>2, Zenon
  <2> QED BY <2>3, <2>4 DEF old
<1>9. ASSUME NEW k \in 1..(b.next + n)
      PROVE  a.data[k] = IF k <= b.next THEN b.data[k] ELSE bytes[k - b.next]
  <2>1. k \in 1..Len(c.data) /\ k \in 1..Len(r.data)
    BY <1>1, <1>2, <1>3
  <2>2. CASE k <= b.next
    BY <1>1, <1>2, <1>3, <1>4, <2>1, <2>2
  <2>3. CASE ~(k <= b.next)
    <3>1. k \in (b.next + 1)..(b.next + n)
      BY <1>1, <2>3 DEF n
    <3> QED BY <1>3, <1>4, <2>1, <2>3, <3>1
  <2> QED BY <2>2, <2>3
<1>10. \A k \in 1..(b.next + n) : Content(a)[k] = (Content(b) \o bytes)[k]
  BY <1>6, <1>8, <1>9
<1>11. Content(a) = Content(b) \o bytes
  BY <1>6, <1>8, <1>10, SeqEqual
<1>12. serialize(b, bytes) = a
  BY DEF serialize, a, c, r, n
<1> QED BY <1>4, <1>11, <1>12 DEF n

\* The message of serialize_his, whatever the length of its text: the header, the length
\* and the text, one after the other, as long as an int counts them.
THEOREM HisIsInOrder ==
  ASSUME NEW b, IsBuffer(b),
         NEW flag \in Seq(Bytes), NEW len \in Seq(Bytes), NEW text \in Seq(Bytes),
         b.next + Len(flag) + Len(len) + Len(text) <= INT_MAX
  PROVE  Content(serialize(serialize(serialize(b, flag), len), text))
           = ((Content(b) \o flag) \o len) \o text
<1>1. b.next \in Nat /\ Len(flag) \in Nat /\ Len(len) \in Nat /\ Len(text) \in Nat
      /\ INT_MAX \in Nat
  BY BufferAssumption DEF IsBuffer
<1> DEFINE b1 == serialize(b, flag)
           b2 == serialize(b1, len)
<1>2. IsBuffer(b1) /\ b1.next = b.next + Len(flag) /\ Content(b1) = Content(b) \o flag
  <2>1. b.next + Len(flag) <= INT_MAX
    BY <1>1
  <2> QED BY <2>1, SerializeAppends
<1> HIDE DEF b1
<1>3. IsBuffer(b2) /\ b2.next = b1.next + Len(len) /\ Content(b2) = Content(b1) \o len
  <2>1. b1.next + Len(len) <= INT_MAX
    BY <1>1, <1>2
  <2> QED BY <1>2, <2>1, SerializeAppends
<1> HIDE DEF b2
<1>4. Content(serialize(b2, text)) = Content(b2) \o text
  <2>1. b2.next + Len(text) <= INT_MAX
    BY <1>1, <1>2, <1>3
  <2> QED BY <1>3, <2>1, SerializeAppends
<1> QED BY <1>2, <1>3, <1>4 DEF b1, b2

-----------------------------------------------------------------------------
(* What clients send are bytes *)

LEMMA PartsAreBytes ==
  ASSUME NEW kind \in Kinds, NEW value \in Int, NEW n \in Nat
  PROVE  Parts(kind, value, n) \in Seq(Bytes) /\ Len(Parts(kind, value, n)) = n
<1>1. \A k \in 1..n : [kind |-> kind, value |-> value, part |-> k] \in Bytes
  BY DEF Bytes
<1> QED BY <1>1 DEF Parts

LEMMA IndexOfPart ==
  ASSUME NEW len \in Nat, NEW size \in Nat \ {0}, NEW k \in 1..(len * size)
  PROVE  (k - 1) \div size + 1 \in 1..len /\ ((k - 1) % size) + 1 \in 1..size
<1> DEFINE q == (k - 1) \div size
           r == (k - 1) % size
<1>1. q \in Int /\ r \in 0..(size - 1) /\ k - 1 = size * q + r
  OBVIOUS
<1> HIDE DEF q, r
<1>2. q >= 0
  BY <1>1
<1>3. q < len
  <2>1. ASSUME q >= len PROVE FALSE
    <3>1. size * q >= size * len
      BY <1>1, <2>1
    <3> QED BY <1>1, <3>1
  <2> QED BY <1>1, <2>1
<1> QED BY <1>1, <1>2, <1>3 DEF q, r

LEMMA DrawingIsBytes ==
  ASSUME NEW diffs \in Seq(Int)
  PROVE  ClientDrawing(diffs) \in Seq(Bytes)
<1> DEFINE n == Len(diffs) * INT_BYTES
           body == [k \in 1..n |->
                      Int32(diffs[(k - 1) \div INT_BYTES + 1])[((k - 1) % INT_BYTES) + 1]]
<1>1. INT_BYTES \in Nat \ {0} /\ Len(diffs) \in Nat
  BY BufferAssumption
<1>2. n \in Nat
  BY <1>1
<1>3. ASSUME NEW k \in 1..n PROVE body[k] \in Bytes
  <2>1. /\ (k - 1) \div INT_BYTES + 1 \in 1..Len(diffs)
        /\ ((k - 1) % INT_BYTES) + 1 \in 1..INT_BYTES
    BY <1>1, IndexOfPart
  <2>2. diffs[(k - 1) \div INT_BYTES + 1] \in Int
    BY <2>1
  <2>3. /\ Int32(diffs[(k - 1) \div INT_BYTES + 1]) \in Seq(Bytes)
        /\ Len(Int32(diffs[(k - 1) \div INT_BYTES + 1])) = INT_BYTES
    BY <1>1, <2>2, PartsAreBytes DEF Int32, Kinds
  <2> QED BY <2>1, <2>3
<1>4. body \in Seq(Bytes)
  BY <1>2, <1>3
<1> HIDE DEF body
<1>5. Header(CANVAS) \in Seq(Bytes) /\ Int32(Len(diffs)) \in Seq(Bytes)
  <2>1. Parts("header", CANVAS, 1) \in Seq(Bytes)
    BY PartsAreBytes DEF CANVAS, Kinds
  <2>2. Parts("int", Len(diffs), INT_BYTES) \in Seq(Bytes)
    BY <1>1, PartsAreBytes DEF Kinds
  <2> QED BY <2>1, <2>2 DEF Header, Int32
<1>6. ClientDrawing(diffs) = Header(CANVAS) \o Int32(Len(diffs)) \o body
  BY DEF ClientDrawing, body
<1> QED BY <1>4, <1>5, <1>6

\* A text whose announced length is below zero is empty.
LEMMA TextsAreSeqs ==
  ASSUME NEW which \in Int, NEW n \in Int
  PROVE  /\ Text(which, n) \in Seq(Bytes)
         /\ Len(Text(which, n)) = IF n < 0 THEN 0 ELSE n
         /\ \A k \in 1..n : Text(which, n)[k] = [kind |-> "char", value |-> which, part |-> k]
<1>1. CASE n >= 0
  BY <1>1, PartsAreBytes DEF Text, Parts, Kinds
<1>2. CASE n < 0
  <2>1. 1..n = 1..0
    BY <1>2
  <2>2. Text(which, n) = Parts("char", which, 0)
    BY <2>1 DEF Text, Parts
  <2>3. Parts("char", which, 0) \in Seq(Bytes) /\ Len(Parts("char", which, 0)) = 0
    BY PartsAreBytes DEF Kinds
  <2>4. \A k \in 1..n : FALSE
    BY <1>2
  <2> QED BY <1>2, <2>2, <2>3, <2>4
<1> QED BY <1>1, <1>2

LEMMA TextIsBytes ==
  ASSUME NEW flag \in Int, NEW text \in Int, NEW n \in Int
  PROVE  ClientText(flag, text, n) \in Seq(Bytes)
<1>1. Header(flag) \in Seq(Bytes) /\ Int32(n) \in Seq(Bytes)
  BY BufferAssumption, PartsAreBytes DEF Header, Int32, Kinds
<1>2. Text(text, n) \in Seq(Bytes)
  BY TextsAreSeqs
<1> QED BY <1>1, <1>2 DEF ClientText

\* The lengths that are announced.
LEMMA LengthsAreInts == Lengths \subseteq Int
<1>1. Ints32 \subseteq Int
  BY BufferAssumption DEF Ints32
<1> QED BY <1>1, WireAssumption

\* How many values follow a length.
Following(n) == IF n < 0 THEN 0 ELSE n

\* The texts of a flag.
TextsOf(flag) == IF flag = LOGIN THEN {VALID, INVALID} ELSE {Sentence}

\* A message is a text or a drawing.
LEMMA WhatClientsSend ==
  ASSUME NEW m \in FromClient
  PROVE  \/ \E flag \in {LOGIN, CHAT, CANVAS}, text \in {VALID, INVALID, Sentence},
               n \in Lengths :
              /\ m = ClientText(flag, text, n)
              /\ flag = CANVAS => n < 0
              /\ flag # CANVAS => text \in TextsOf(flag)
         \/ \E d \in Strokes : m = ClientDrawing(d)
<1>1. LOGIN # CANVAS /\ CHAT # CANVAS /\ LOGIN # CHAT
  BY DEF LOGIN, CHAT, CANVAS
<1> QED BY <1>1 DEF FromClient, TextsOf

LEMMA ClientsSendBytes == FromClient \subseteq Seq(Bytes)
<1>1. ASSUME NEW f \in {LOGIN, CHAT, CANVAS}, NEW t \in {VALID, INVALID, Sentence},
             NEW n \in Lengths
      PROVE  ClientText(f, t, n) \in Seq(Bytes)
  <2>1. f \in Int /\ t \in Int
    BY DEF LOGIN, CHAT, CANVAS, VALID, INVALID, Sentence
  <2> QED BY <2>1, LengthsAreInts, TextIsBytes
<1>2. ASSUME NEW d \in Strokes PROVE ClientDrawing(d) \in Seq(Bytes)
  BY WireAssumption, DrawingIsBytes
<1> QED BY <1>1, <1>2, WhatClientsSend

-----------------------------------------------------------------------------
(* The invariant: besides ReceivesFit, how far the message is received: the length is *)
(* asked for only behind the header, so that it is read from where it was written.    *)

IsRecving ==
  /\ recving \in [from : Clients \cup {None}, field : {"header", "int", "text", "diffs"},
                  size : Int, total : Nat]
  /\ recving.field = "int" => buffer.next = INT_OFFSET /\ recving.size = INT_BYTES
  /\ recving.from # None /\ recving.field = "header" => buffer.next = 0 /\ recving.size = 1

IInv ==
  /\ up \in [Clients -> Seq(Bytes)]
  /\ ReceivesFit
  /\ IsRecving

\* No message is being received.
LEMMA NewBufferFits ==
  ASSUME buffer' = new_buffer, recving' = NoRecv
  PROVE  ReceivesFit' /\ IsRecving'
<1>1. /\ IsBuffer(new_buffer) /\ new_buffer.next = 0 /\ Len(new_buffer.data) = INITIAL_SIZE
      /\ INITIAL_SIZE \in Nat
  BY NewBufferIsBuffer, BufferAssumption
<1>2. /\ recving' \in [from : Clients \cup {None}, field : {"header", "int", "text", "diffs"},
                       size : Int, total : Nat]
      /\ recving'.field = "header" /\ recving'.from = None /\ recving'.size = 0
  BY DEF NoRecv
<1>3. IsBuffer(buffer') /\ buffer'.next + recving'.size <= Len(buffer'.data)
  BY <1>1, <1>2
<1> QED BY <1>2, <1>3 DEF ReceivesFit, IsRecving

\* recv_buffer reserves what it is about to receive, if an int counts it.
LEMMA ReceiveFits ==
  ASSUME NEW c \in Clients, NEW b, IsBuffer(b), NEW size \in Int,
         NEW field \in {"header", "int", "text", "diffs"},
         field = "int" => b.next = INT_OFFSET /\ size = INT_BYTES,
         field = "header" => b.next = 0 /\ size = 1,
         b.next + size <= INT_MAX \/ Miscounted',
         Receive(c, b, field, size)
  PROVE  ReceivesFit' /\ IsRecving'
<1>1. /\ IsBuffer(buffer') /\ buffer'.next = b.next
      /\ b.next + size <= INT_MAX => b.next + size <= Len(buffer'.data)
  BY SpaceIsReserved DEF Receive
<1>2. /\ recving' \in [from : Clients \cup {None}, field : {"header", "int", "text", "diffs"},
                       size : Int, total : Nat]
      /\ recving'.field = field /\ recving'.from = c /\ recving'.size = size
  BY DEF Receive
<1> QED BY <1>1, <1>2 DEF ReceivesFit, IsRecving

\* The buffer with the field that has been received.
LEMMA FullIsBuffer ==
  ASSUME IInv, NEW field, Received(field), recving.size >= 0
  PROVE  /\ IsBuffer(Full) /\ Full.next = buffer.next + recving.size
         /\ buffer.next \in Nat /\ recving.size \in Nat /\ recving.from \in Clients
<1>1. recving.size \in Nat /\ recving.from \in Clients
  BY DEF IInv, IsRecving, Received
<1>2. IsBuffer(buffer) /\ buffer.next + recving.size <= Len(buffer.data)
  BY DEF IInv, ReceivesFit, Received
<1>3. buffer.next \in Nat
  BY <1>2 DEF IsBuffer
<1> QED BY <1>1, <1>2, <1>3, AdvancedIsBuffer DEF Full

\* The length is read from where it was written.
LEMMA LengthIsInt ==
  ASSUME IInv, Received("int")
  PROVE  unpack_int_var(buffer, INT_OFFSET) \in Int
<1>1. buffer.next = 1 /\ recving.size = INT_BYTES
  BY DEF IInv, IsRecving, Received, INT_OFFSET
<1>2. buffer.data \in Seq(Bytes) /\ buffer.next \in Nat /\ buffer.next + INT_BYTES <= Len(buffer.data)
  BY <1>1 DEF IInv, ReceivesFit, IsBuffer, Received
<1>3. INT_OFFSET + 1 \in 1..Len(buffer.data)
  BY <1>1, <1>2, BufferAssumption DEF INT_OFFSET
<1>4. buffer.data[INT_OFFSET + 1] \in Bytes
  BY <1>2, <1>3
<1> QED BY <1>4 DEF unpack_int_var, Bytes

\* The first fields fit an int.
LEMMA FieldsFitInt ==
  /\ INT_BYTES \in Nat \ {0} /\ INT_MAX \in Nat
  /\ 1 <= INT_MAX /\ STRING_OFFSET <= INT_MAX /\ STRING_OFFSET = 1 + INT_BYTES
BY BufferAssumption, WidthAssumption, WireAssumption DEF STRING_OFFSET, INT_OFFSET

\* A text that is not too long fits an int together with what is before it.
LEMMA TextFitsInt ==
  ASSUME NEW c, NEW n \in Int, ExpectedFlag(c) # CANVAS, ~TooLong(ExpectedFlag(c), n)
  PROVE  STRING_OFFSET + n <= INT_MAX
<1>1. ExpectedFlag(c) = LOGIN \/ ExpectedFlag(c) = CHAT
  BY DEF ExpectedFlag
<1>2. n <= MAX_USERNAME_LEN \/ n <= MAX_GUESS_LEN
  BY <1>1, WireAssumption DEF TooLong
<1> QED BY <1>2, FieldsFitInt, WidthAssumption, WireAssumption, TextAssumption

\* A drawing whose number of indices is read is either received behind them or Miscounted.
LEMMA DrawingFitsInt ==
  ASSUME NEW b, IsBuffer(b), b.next = STRING_OFFSET, STRING_OFFSET <= Len(b.data),
         NEW c \in Clients, NEW n \in Int, n = unpack_int_var(b, INT_OFFSET),
         Receive(c, b, "diffs", AsInt(n * INT_BYTES))
  PROVE  \/ Miscounted'
         \/ n >= 0 /\ AsInt(n * INT_BYTES) = n * INT_BYTES
            /\ STRING_OFFSET + n * INT_BYTES <= INT_MAX
<1> DEFINE p == n * INT_BYTES
           size == AsInt(p)
<1>1. p \in Int /\ (n >= 0 => p >= 0)
  BY FieldsFitInt
<1>2. size \in Int /\ (p \in Ints32 => size = p)
  BY <1>1, IntsAreInts
<1>3. n >= 0 /\ STRING_OFFSET + p <= INT_MAX => p \in Ints32
  BY <1>1, FieldsFitInt DEF Ints32
<1>4. buffer' = reserve_space(b, size) /\ recving'.field = "diffs"
  BY DEF Receive
<1>5. unpack_int_var(buffer', INT_OFFSET) = n
  <2>1. \A k \in 1..Len(buffer'.data) :
           buffer'.data[k] = IF k <= b.next THEN b.data[k] ELSE Zero
    BY <1>2, <1>4, SpaceIsReserved
  <2>2. Len(buffer'.data) >= Len(b.data) /\ Len(b.data) \in Nat /\ Len(buffer'.data) \in Nat
    BY <1>2, <1>4, SpaceIsReserved DEF IsBuffer
  <2>3. INT_OFFSET + 1 \in 1..Len(buffer'.data) /\ INT_OFFSET + 1 <= b.next
    BY <2>2, FieldsFitInt DEF INT_OFFSET
  <2> QED BY <2>1, <2>3 DEF unpack_int_var
<1>6. Miscounted' <=> (n < 0 \/ STRING_OFFSET + p > INT_MAX)
  BY <1>4, <1>5 DEF Miscounted
<1> HIDE DEF p, size
<1>7. STRING_OFFSET + p \in Int /\ INT_MAX \in Int
  BY <1>1, FieldsFitInt
<1> QED BY <1>1, <1>2, <1>3, <1>6, <1>7 DEF p, size

LEMMA CloseKeepsBytes ==
  ASSUME up \in [Clients -> Seq(Bytes)], NEW c, Close(c)
  PROVE  up' \in [Clients -> Seq(Bytes)]
<1>1. <<>> \in Seq(Bytes)
  OBVIOUS
<1>2. up' = [up EXCEPT ![c] = <<>>]
  BY DEF Close
<1> QED BY <1>1, <1>2

LEMMA GiveUpIsGood ==
  ASSUME IInv, NEW c, GiveUp(c)
  PROVE  IInv'
<1>1. ReceivesFit' /\ IsRecving'
  BY NewBufferFits DEF GiveUp
<1>2. Close(c)
  BY DEF GiveUp, RemovePlayer
<1>3. up' \in [Clients -> Seq(Bytes)]
  BY <1>2, CloseKeepsBytes DEF IInv
<1> QED BY <1>1, <1>3 DEF IInv

\* Steps that receive nothing.
LEMMA NothingReceived ==
  ASSUME IInv, up' \in [Clients -> Seq(Bytes)], UNCHANGED <<buffer, recving>>
  PROVE  IInv'
<1>1. buffer' = buffer /\ recving' = recving
  OBVIOUS
<1>2. Miscounted' <=> Miscounted
  BY <1>1 DEF Miscounted, unpack_int_var
<1> QED BY <1>1, <1>2 DEF IInv, ReceivesFit, IsRecving

-----------------------------------------------------------------------------
LEMMA InitFits == Init => IInv
<1> SUFFICES ASSUME Init PROVE IInv
  OBVIOUS
<1>1. buffer = new_buffer /\ recving = NoRecv /\ up \in [Clients -> Seq(Bytes)]
  BY DEF Init
<1>2. /\ IsBuffer(new_buffer) /\ new_buffer.next = 0 /\ Len(new_buffer.data) = INITIAL_SIZE
      /\ INITIAL_SIZE \in Nat
  BY NewBufferIsBuffer, BufferAssumption
<1>3. IsRecving
  BY <1>1 DEF IsRecving, NoRecv
<1>4. ReceivesFit
  BY <1>1, <1>2 DEF ReceivesFit, NoRecv
<1> QED BY <1>1, <1>3, <1>4 DEF IInv

LEMMA StepFits == IInv /\ [Next]_vars => IInv'
<1> SUFFICES ASSUME IInv, [Next]_vars PROVE IInv'
  OBVIOUS
<1>1. up \in [Clients -> Seq(Bytes)] /\ ReceivesFit /\ IsRecving
  BY DEF IInv
<1>2. IsBuffer(new_buffer) /\ new_buffer.next = 0
  BY NewBufferIsBuffer
<1>3. CASE Recv
  <2> DEFINE c == recving.from
  <2>1. PICK n \in 1..(recving.size - recving.total) :
          /\ n <= Len(up[c])
          /\ buffer' = Copied(buffer, buffer.next + recving.total, SubSeq(up[c], 1, n))
          /\ up' = [up EXCEPT ![c] = SubSeq(@, n + 1, Len(@))]
          /\ recving' = [recving EXCEPT !.total = @ + n]
    BY <1>3 DEF Recv
  <2>2. c \in Clients /\ up[c] \in Seq(Bytes) /\ recving.size \in Int /\ recving.total \in Nat
    BY <1>1, <1>3 DEF Recv, IsRecving
  <2>3. n \in Nat /\ n >= 1
    BY <2>2
  <2>4. /\ SubSeq(up[c], 1, n) \in Seq(Bytes) /\ SubSeq(up[c], n + 1, Len(up[c])) \in Seq(Bytes)
    BY <2>1, <2>2, <2>3
  <2>5. IsBuffer(buffer) /\ buffer.next + recving.total \in Nat
    BY <1>1, <2>2 DEF ReceivesFit, IsBuffer
  <2>6. IsBuffer(buffer') /\ buffer'.next = buffer.next /\ Len(buffer'.data) = Len(buffer.data)
    BY <2>1, <2>4, <2>5, BytesAreCopied
  <2>7. /\ recving' \in [from : Clients \cup {None}, field : {"header", "int", "text", "diffs"},
                         size : Int, total : Nat]
        /\ recving'.from = recving.from /\ recving'.field = recving.field
        /\ recving'.size = recving.size
    <3>1. recving.total + n \in Nat
      BY <2>2, <2>3
    <3>2. recving \in [from : Clients \cup {None}, field : {"header", "int", "text", "diffs"},
                       size : Int, total : Nat]
      BY <1>1 DEF IsRecving
    <3>3. recving' = [recving EXCEPT !.total = recving.total + n]
      BY <2>1
    <3> QED BY <3>1, <3>2, <3>3
  <2>8. IsRecving' /\ ReceivesFit'
    <3>1. buffer.next + recving.size <= Len(buffer.data)
      BY <1>1, <1>3 DEF Recv, ReceivesFit
    <3> QED BY <1>1, <2>6, <2>7, <3>1 DEF IsRecving, ReceivesFit
  <2>9. up' \in [Clients -> Seq(Bytes)]
    BY <1>1, <2>1, <2>2, <2>4
  <2> QED BY <2>8, <2>9 DEF IInv
<1>4. CASE RecvFails
  BY <1>4, GiveUpIsGood DEF RecvFails
<1>5. CASE GotHeader
  <2> DEFINE c == recving.from
  <2>1. CASE Receive(c, Full, "int", INT_BYTES) /\ UNCHANGED conn
    <3>0. buffer.next = 0 /\ recving.size = 1
      BY <1>1, <1>5 DEF GotHeader, Received, IsRecving
    <3>1. /\ IsBuffer(Full) /\ Full.next = buffer.next + recving.size /\ c \in Clients
      BY <1>5, <3>0, FullIsBuffer DEF GotHeader
    <3>3. Full.next = INT_OFFSET /\ INT_BYTES \in Int /\ Full.next + INT_BYTES <= INT_MAX
      BY <3>0, <3>1, FieldsFitInt DEF INT_OFFSET
    <3>4. ReceivesFit' /\ IsRecving'
      BY <2>1, <3>1, <3>3, ReceiveFits
    <3> QED BY <1>1, <2>1, <3>4 DEF IInv, conn
  <2>2. CASE GiveUp(c)
    BY <2>2, GiveUpIsGood
  <2> QED BY <1>5, <2>1, <2>2, Zenon DEF GotHeader
<1>6. CASE GotInt
  <2> DEFINE c == recving.from
             n == unpack_int_var(buffer, INT_OFFSET)
  <2>0. buffer.next = INT_OFFSET /\ recving.size = INT_BYTES
    BY <1>1, <1>6 DEF GotInt, Received, IsRecving
  <2>1. /\ IsBuffer(Full) /\ Full.next = STRING_OFFSET /\ c \in Clients
        /\ Full.data = buffer.data /\ STRING_OFFSET <= Len(Full.data)
    <3>1. IsBuffer(Full) /\ Full.next = buffer.next + recving.size /\ c \in Clients
      BY <1>6, <2>0, FieldsFitInt, FullIsBuffer DEF GotInt
    <3>2. Full.next = STRING_OFFSET
      BY <2>0, <3>1 DEF STRING_OFFSET
    <3>3. Full.data = buffer.data
      BY <1>1 DEF Full, Advanced, ReceivesFit, IsBuffer
    <3> QED BY <3>1, <3>2, <3>3 DEF IsBuffer
  <2>2. n \in Int /\ n = unpack_int_var(Full, INT_OFFSET)
    BY <1>6, <2>1, LengthIsInt DEF GotInt, unpack_int_var
  <2> HIDE DEF n
  <2>3. CASE Receive(c, Full, "diffs", AsInt(n * INT_BYTES)) /\ UNCHANGED conn
    <3>1. n * INT_BYTES \in Int
      BY <2>2, FieldsFitInt
    <3>2. AsInt(n * INT_BYTES) \in Int
      BY <3>1, IntsAreInts
    <3>3. STRING_OFFSET + AsInt(n * INT_BYTES) <= INT_MAX \/ Miscounted'
      BY <2>1, <2>2, <2>3, DrawingFitsInt
    <3>4. ReceivesFit' /\ IsRecving'
      BY <2>1, <2>3, <3>2, <3>3, ReceiveFits
    <3> QED BY <1>1, <2>3, <3>4 DEF IInv, conn
  <2>4. CASE /\ Receive(c, Full, "text", n) /\ UNCHANGED conn
             /\ ExpectedFlag(c) # CANVAS /\ ~TooLong(ExpectedFlag(c), n)
    <3>1. STRING_OFFSET + n <= INT_MAX
      BY <2>2, <2>4, TextFitsInt
    <3>2. ReceivesFit' /\ IsRecving'
      BY <2>1, <2>2, <2>4, <3>1, ReceiveFits
    <3> QED BY <1>1, <2>4, <3>2 DEF IInv, conn
  <2>5. CASE GiveUp(c)
    BY <2>5, GiveUpIsGood
  <2> QED BY <1>6, <2>3, <2>4, <2>5, Zenon DEF GotInt, n
<1>7. CASE LoggedIn
  BY <1>1, <1>7, NewBufferFits DEF LoggedIn, IInv
<1>18. CASE InvalidUsername
  BY <1>18, GiveUpIsGood DEF InvalidUsername
<1>8. CASE Guessed
  BY <1>1, <1>8, NewBufferFits DEF Guessed, IInv, conn
<1>9. CASE Drawn
  <2>1. CASE buffer' = new_buffer /\ recving' = NoRecv /\ UNCHANGED conn
    BY <1>1, <2>1, NewBufferFits DEF IInv, conn
  <2>2. CASE GiveUp(recving.from)
    BY <2>2, GiveUpIsGood
  <2> QED BY <1>9, <2>1, <2>2, Zenon DEF Drawn
<1>10. CASE NextReceiver
  BY <1>1, <1>10, NothingReceived DEF NextReceiver, conn
<1>11. CASE Send
  <2>1. UNCHANGED <<buffer, recving>> /\ (Close(sending.to) \/ UNCHANGED up)
    BY <1>11, Zenon DEF Send
  <2>2. up' \in [Clients -> Seq(Bytes)]
    BY <1>1, <2>1, CloseKeepsBytes
  <2> QED BY <2>1, <2>2, NothingReceived
<1>12. CASE SendFails
  <2>1. UNCHANGED <<buffer, recving>> /\ (Close(sending.to) \/ UNCHANGED up)
    BY <1>12, Zenon DEF SendFails, RemovePlayer
  <2>2. up' \in [Clients -> Seq(Bytes)]
    BY <1>1, <2>1, CloseKeepsBytes
  <2> QED BY <2>1, <2>2, NothingReceived
<1>13. CASE Notify
  BY <1>1, <1>13, NothingReceived DEF Notify
<1>14. ASSUME NEW c \in Clients, Write(c) PROVE IInv'
  <2>1. PICK m \in FromClient :
          \/ up' = [up EXCEPT ![c] = @ \o m]
          \/ \E n \in 0..(Len(m) - 1) : up' = [up EXCEPT ![c] = @ \o SubSeq(m, 1, n)]
    BY <1>14, Zenon DEF Write
  <2>2. m \in Seq(Bytes)
    BY ClientsSendBytes
  <2>3. ASSUME NEW n \in 0..(Len(m) - 1) PROVE SubSeq(m, 1, n) \in Seq(Bytes)
    BY <2>2
  <2>4. up' \in [Clients -> Seq(Bytes)]
    <3>1. ASSUME NEW x \in Seq(Bytes) PROVE [up EXCEPT ![c] = @ \o x] \in [Clients -> Seq(Bytes)]
      <4>1. up[c] \o x \in Seq(Bytes)
        BY <1>1
      <4> QED BY <1>1, <4>1
    <3> QED BY <2>1, <2>2, <2>3, <3>1, Zenon
  <2> QED BY <1>14, <2>4, NothingReceived DEF Write
<1>15. ASSUME NEW c \in Clients, Accept(c) PROVE IInv'
  <2>1. Receive(c, new_buffer, "header", 1) /\ UNCHANGED up
    BY <1>15 DEF Accept
  <2>2. ReceivesFit' /\ IsRecving'
    BY <1>2, <2>1, FieldsFitInt, ReceiveFits
  <2> QED BY <1>1, <2>1, <2>2 DEF IInv
<1>16. ASSUME NEW c \in Clients, Action(c) PROVE IInv'
  <2>1. Receive(c, new_buffer, "header", 1) /\ UNCHANGED up
    BY <1>16 DEF Action, conn
  <2>2. ReceivesFit' /\ IsRecving'
    BY <1>2, <2>1, FieldsFitInt, ReceiveFits
  <2> QED BY <1>1, <2>1, <2>2 DEF IInv
<1>17. CASE UNCHANGED vars
  BY <1>1, <1>17, NothingReceived DEF vars
<1> QED BY <1>3, <1>4, <1>5, <1>6, <1>7, <1>8, <1>9, <1>10, <1>11, <1>12, <1>13, <1>14,
           <1>15, <1>16, <1>17, <1>18, Zenon DEF Next, Handler

\* Whatever a client sends, in whatever pieces, and whatever length it announces: what the
\* server receives stays within the memory of the buffer it receives into, which
\* reserve_space has made large enough for it; except for a drawing whose number of
\* indices is below zero, or whose bytes an int does not count.
THEOREM ReceivesStayInBounds == Spec => []ReceivesFit
<1>1. IInv => ReceivesFit
  BY DEF IInv
<1> QED BY <1>1, InitFits, StepFits, PTL DEF Spec
-----------------------------------------------------------------------------
(* The server in step with what clients send.  A message has one byte of the  *)
(* kind header, its first, so that the bytes of a client tell where messages  *)
(* begin.  The stream of a client is what is received of the message being    *)
(* handled, followed by what is on its way: a recv does not change it.        *)

\* From its k-th byte on, u is message m or the first part of it.
Begins(u, k, m) == \A j \in 1..Len(m) : k - 1 + j <= Len(u) => u[k - 1 + j] = m[j]

\* A message ends before the e-th byte of u: the next one follows, or nothing, or c is one
\* of those who stopped before the end.
Ends(u, e, c, stopped) ==
  /\ e > Len(u) + 1 => c \in stopped
  /\ e <= Len(u) => u[e].kind = "header"

\* u consists of messages, of which the last may be cut when c stopped.
Framed(u, c, stopped) ==
  /\ Ends(u, 1, c, stopped)
  /\ \A k \in 1..Len(u) :
       u[k].kind = "header" =>
         \E m \in FromClient : Begins(u, k, m) /\ Ends(u, k + Len(m), c, stopped)

\* How many bytes of the message being handled are received, and these bytes.
Done == buffer.next + recving.total
Taken == SubSeq(buffer.data, 1, Done)

Stream(c) == IF c = recving.from THEN Taken \o up[c] ELSE up[c]
Streams == \A c \in Clients : Framed(Stream(c), c, over)

\* Where the field being received is, what has been understood before it, and that nothing
\* is behind it in the buffer.  Of a drawing that is Miscounted nothing is received.
InField ==
  /\ recving.total = 0 \/ (recving.total <= recving.size /\ ~Miscounted)
  /\ \A k \in (Done + 1)..Len(buffer.data) : buffer.data[k] = Zero
  /\ recving.field = "header" => buffer.next = 0
  /\ recving.field = "int" => buffer.next = INT_OFFSET
  /\ recving.field # "header" => buffer.data[1].value = ExpectedFlag(recving.from)
  /\ recving.field \in {"text", "diffs"} =>
       /\ buffer.next = STRING_OFFSET
       /\ recving.field = "diffs" <=> ExpectedFlag(recving.from) = CANVAS
       /\ Miscounted \/ recving.size = unpack_int_var(buffer, INT_OFFSET)
                                         * (IF recving.field = "diffs" THEN INT_BYTES ELSE 1)

\* The server receives or sends, not both.
Busy ==
  /\ \E S : stack \in Seq(S)
  /\ sending.to # None => stack # <<>>
  /\ recving.from # None => stack = <<>> /\ InField

FInv == IInv /\ Busy /\ Streams

\* r is a, b and t, one behind the other.
InParts(r, a, b, t) ==
  /\ r \in Seq(Bytes)
  /\ Len(r) = Len(a) + Len(b) + Len(t)
  /\ \A k \in 1..Len(a) : r[k] = a[k]
  /\ \A k \in 1..Len(b) : r[Len(a) + k] = b[k]
  /\ \A k \in 1..Len(t) : r[Len(a) + Len(b) + k] = t[k]

\* The three fields of a message in one sequence.
LEMMA ThreeParts ==
  ASSUME NEW a \in Seq(Bytes), NEW b \in Seq(Bytes), NEW t \in Seq(Bytes)
  PROVE  InParts((a \o b) \o t, a, b, t)
<1> DEFINE r == (a \o b) \o t
<1>1. PICK ab \in Seq(Bytes) :
        /\ ab = a \o b /\ Len(ab) = Len(a) + Len(b)
        /\ \A k \in 1..(Len(a) + Len(b)) : ab[k] = IF k <= Len(a) THEN a[k] ELSE b[k - Len(a)]
  <2>1. a \o b \in Seq(Bytes)
    OBVIOUS
  <2> QED BY <2>1, ConcatProperties
<1>2. /\ r \in Seq(Bytes) /\ Len(r) = Len(ab) + Len(t)
      /\ \A k \in 1..(Len(ab) + Len(t)) : r[k] = IF k <= Len(ab) THEN ab[k] ELSE t[k - Len(ab)]
  <2>1. r = ab \o t
    BY <1>1
  <2> HIDE DEF r
  <2> QED BY <2>1, ConcatProperties
<1> HIDE DEF r
<1>3. Len(a) \in Nat /\ Len(b) \in Nat /\ Len(t) \in Nat
  OBVIOUS
<1>4. ASSUME NEW k \in 1..Len(a) PROVE r[k] = a[k]
  <2>1. k \in 1..(Len(a) + Len(b)) /\ k \in 1..(Len(ab) + Len(t)) /\ k <= Len(ab)
    BY <1>1, <1>3
  <2> QED BY <1>1, <1>2, <2>1
<1>5. ASSUME NEW k \in 1..Len(b) PROVE r[Len(a) + k] = b[k]
  <2> DEFINE i == Len(a) + k
  <2>1. /\ i \in 1..(Len(a) + Len(b)) /\ i \in 1..(Len(ab) + Len(t)) /\ i <= Len(ab)
        /\ ~(i <= Len(a)) /\ i - Len(a) = k
    BY <1>1, <1>3
  <2> HIDE DEF i
  <2>2. r[i] = b[k]
    BY <1>1, <1>2, <2>1
  <2> QED BY <2>2 DEF i
<1>6. ASSUME NEW k \in 1..Len(t) PROVE r[Len(a) + Len(b) + k] = t[k]
  <2> DEFINE i == Len(a) + Len(b) + k
  <2>1. /\ i \in 1..(Len(ab) + Len(t)) /\ ~(i <= Len(ab)) /\ i - Len(ab) = k
    BY <1>1, <1>3
  <2> HIDE DEF i
  <2>2. r[i] = t[k]
    BY <1>2, <2>1
  <2> QED BY <2>2 DEF i
<1>7. InParts(r, a, b, t)
  BY <1>1, <1>2, <1>3, <1>4, <1>5, <1>6 DEF InParts
<1> QED BY <1>7 DEF r

\* What the bytes of a message of a client are.
IsMessage(m) ==
  /\ m \in Seq(Bytes)
  /\ STRING_OFFSET <= Len(m)
  /\ m[1].kind = "header"
  /\ m[1].value \in {LOGIN, CHAT, CANVAS}
  /\ \A k \in 2..Len(m) : m[k].kind # "header"
  /\ m[INT_OFFSET + 1].value \in Int
  /\ LET n == m[INT_OFFSET + 1].value
     IN  /\ m[1].value = CANVAS => Len(m) = STRING_OFFSET + Following(n) * INT_BYTES
         /\ m[1].value # CANVAS =>
              /\ Len(m) = STRING_OFFSET + Following(n)
              /\ \E t \in TextsOf(m[1].value) :
                   \A k \in 1..n : m[STRING_OFFSET + k] = Text(t, n)[k]

\* The flags of clients are three.
LEMMA FlagsDiffer ==
  /\ INT_BYTES \in Nat \ {0} /\ LOGIN \in Int /\ CHAT \in Int /\ CANVAS \in Int
  /\ LOGIN # CHAT /\ LOGIN # CANVAS /\ CHAT # CANVAS
BY BufferAssumption DEF LOGIN, CHAT, CANVAS

\* No byte of t begins a message.
Headless(t) == \A k \in 1..Len(t) : t[k].kind # "header"

\* A header, a length, and what follows.
Headed(flag, n, t) == (Header(flag) \o Int32(n)) \o t

IsHeaded(r, flag, n, t) ==
  /\ r \in Seq(Bytes)
  /\ Len(r) = STRING_OFFSET + Len(t)
  /\ r[1].kind = "header" /\ r[1].value = flag
  /\ r[INT_OFFSET + 1].value = n
  /\ \A k \in 2..Len(r) : r[k].kind # "header"
  /\ \A k \in 1..Len(t) : r[STRING_OFFSET + k] = t[k]

\* Its bytes, when what follows has no header.
LEMMA HeadedBytes ==
  ASSUME NEW flag \in Int, NEW n \in Int, NEW t \in Seq(Bytes), Headless(t)
  PROVE  IsHeaded(Headed(flag, n, t), flag, n, t)
<1> DEFINE a == Header(flag)
           b == Int32(n)
           r == Headed(flag, n, t)
<1>1. a \in Seq(Bytes) /\ Len(a) = 1
  <2>1. "header" \in Kinds
    BY DEF Kinds
  <2> QED BY <2>1, PartsAreBytes DEF Header
<1>2. b \in Seq(Bytes) /\ Len(b) = INT_BYTES
  BY BufferAssumption, PartsAreBytes DEF Int32, Kinds
<1>3. a[1].kind = "header" /\ a[1].value = flag
  <2>1. a[1] = [kind |-> "header", value |-> flag, part |-> 1]
    BY DEF Header, Parts
  <2> QED BY <2>1
<1>4. ASSUME NEW k \in 1..INT_BYTES PROVE b[k].kind = "int" /\ b[k].value = n
  <2>1. b[k] = [kind |-> "int", value |-> n, part |-> k]
    BY DEF Int32, Parts
  <2> QED BY <2>1
<1>5. r = (a \o b) \o t
  BY DEF Headed
<1> HIDE DEF a, b, r
<1>6. /\ r \in Seq(Bytes)
      /\ Len(r) = Len(a) + Len(b) + Len(t)
      /\ \A k \in 1..Len(a) : r[k] = a[k]
      /\ \A k \in 1..Len(b) : r[Len(a) + k] = b[k]
      /\ \A k \in 1..Len(t) : r[Len(a) + Len(b) + k] = t[k]
  <2>1. InParts(r, a, b, t)
    BY <1>1, <1>2, <1>5, ThreeParts, Zenon
  <2> QED BY <2>1 DEF InParts
<1>7. STRING_OFFSET = 1 + INT_BYTES /\ INT_OFFSET + 1 = 2 /\ INT_BYTES \in Nat \ {0}
  BY FlagsDiffer DEF STRING_OFFSET, INT_OFFSET
<1>8. Len(t) \in Nat
  OBVIOUS
<1>9. r[1] = a[1]
  BY <1>1, <1>6
<1>10. ASSUME NEW k \in 1..INT_BYTES PROVE r[1 + k].kind = "int" /\ r[1 + k].value = n
  BY <1>1, <1>2, <1>6, <1>4
<1>11. ASSUME NEW k \in 1..Len(t) PROVE r[STRING_OFFSET + k] = t[k]
  BY <1>1, <1>2, <1>6, <1>7
<1>12. r[INT_OFFSET + 1].value = n
  <2>1. 1 \in 1..INT_BYTES /\ INT_OFFSET + 1 = 1 + 1
    BY <1>7
  <2> QED BY <1>10, <2>1
<1>13. Len(r) = STRING_OFFSET + Len(t)
  BY <1>1, <1>2, <1>6, <1>7
<1>14. ASSUME NEW k \in 2..Len(r) PROVE r[k].kind # "header"
  <2>1. CASE k <= STRING_OFFSET
    <3>1. k - 1 \in 1..INT_BYTES /\ 1 + (k - 1) = k
      BY <1>7, <2>1
    <3>2. r[k].kind = "int"
      BY <1>10, <3>1
    <3> QED BY <3>2
  <2>2. CASE ~(k <= STRING_OFFSET)
    <3>1. k - STRING_OFFSET \in 1..Len(t) /\ STRING_OFFSET + (k - STRING_OFFSET) = k
      BY <1>7, <1>8, <1>13, <2>2
    <3>2. r[k] = t[k - STRING_OFFSET]
      BY <1>11, <3>1
    <3> QED BY <3>1, <3>2 DEF Headless
  <2> QED BY <2>1, <2>2
<1>15. r[1].kind = "header" /\ r[1].value = flag
  BY <1>9, <1>3
<1>16. IsHeaded(r, flag, n, t)
  BY <1>6, <1>11, <1>12, <1>13, <1>14, <1>15 DEF IsHeaded
<1> QED BY <1>16 DEF r

\* A drawing is its header, its length and its indices.
LEMMA StrokeBytes ==
  ASSUME NEW d \in Seq(Int)
  PROVE  \E t \in Seq(Bytes) :
           /\ Len(t) = Len(d) * INT_BYTES
           /\ \A k \in 1..Len(t) : t[k].kind = "int"
           /\ ClientDrawing(d) = Headed(CANVAS, Len(d), t)
<1>1. PICK n \in Nat : n = Len(d)
  OBVIOUS
<1> DEFINE t == [k \in 1..(Len(d) * INT_BYTES) |->
                   Int32(d[(k - 1) \div INT_BYTES + 1])[((k - 1) % INT_BYTES) + 1]]
<1>2. n * INT_BYTES \in Nat
  BY FlagsDiffer
<1>3. ASSUME NEW k \in 1..(n * INT_BYTES)
      PROVE  t[k] \in Bytes /\ t[k].kind = "int"
  <2>1. /\ (k - 1) \div INT_BYTES + 1 \in 1..n
        /\ ((k - 1) % INT_BYTES) + 1 \in 1..INT_BYTES
    BY FlagsDiffer, IndexOfPart
  <2>2. d[(k - 1) \div INT_BYTES + 1] \in Int
    BY <1>1, <2>1
  <2>3. PICK x \in Int, y \in 1..INT_BYTES : t[k] = Int32(x)[y]
    BY <1>1, <2>1, <2>2
  <2>4. Int32(x)[y] = [kind |-> "int", value |-> x, part |-> y]
    BY DEF Int32, Parts
  <2>5. y \in Nat
    BY FlagsDiffer
  <2> QED BY <2>3, <2>4, <2>5 DEF Bytes, Kinds
<1>4. t \in Seq(Bytes) /\ Len(t) = n * INT_BYTES
  BY <1>1, <1>2, <1>3
<1>5. ClientDrawing(d) = Headed(CANVAS, n, t)
  BY <1>1 DEF ClientDrawing, Headed
<1> HIDE DEF t
<1> QED BY <1>1, <1>3, <1>4, <1>5

LEMMA MessagesHaveShape ==
  ASSUME NEW m \in FromClient
  PROVE  IsMessage(m)
<1>2. STRING_OFFSET \in Nat /\ INT_OFFSET + 1 = 2
  BY FlagsDiffer DEF STRING_OFFSET, INT_OFFSET
<1>3. ASSUME NEW f \in {LOGIN, CHAT, CANVAS}, NEW which \in {VALID, INVALID, Sentence},
             NEW n \in Lengths, m = ClientText(f, which, n),
             f = CANVAS => n < 0, f # CANVAS => which \in TextsOf(f)
      PROVE  IsMessage(m)
  <2>1. n \in Int /\ which \in Int
    BY LengthsAreInts DEF VALID, INVALID, Sentence
  <2> DEFINE t == Text(which, n)
  <2>2. /\ t \in Seq(Bytes) /\ Len(t) = Following(n)
        /\ \A k \in 1..n : t[k].kind = "char"
    <3>1. t \in Seq(Bytes) /\ Len(t) = Following(n)
      BY <2>1, TextsAreSeqs DEF Following
    <3>2. ASSUME NEW k \in 1..n PROVE t[k].kind = "char"
      <4>1. t[k] = [kind |-> "char", value |-> which, part |-> k]
        BY <2>1, TextsAreSeqs
      <4> HIDE DEF t
      <4> QED BY <4>1
    <3> HIDE DEF t
    <3> QED BY <3>1, <3>2
  <2>3. m = Headed(f, n, t)
    BY <1>3 DEF ClientText, Headed
  <2> HIDE DEF t
  <2>4. /\ m \in Seq(Bytes)
        /\ Len(m) = STRING_OFFSET + Len(t)
        /\ m[1].kind = "header" /\ m[1].value = f
        /\ m[INT_OFFSET + 1].value = n
        /\ \A k \in 2..Len(m) : m[k].kind # "header"
        /\ \A k \in 1..Len(t) : m[STRING_OFFSET + k] = t[k]
    <3>1. f \in Int /\ t \in Seq(Bytes)
      BY FlagsDiffer, <2>2
    <3>2. Headless(t)
      BY <2>1, <2>2 DEF Headless, Following
    <3>3. IsHeaded(m, f, n, t)
      BY <2>1, <2>3, <3>1, <3>2, HeadedBytes, Zenon
    <3> QED BY <3>3 DEF IsHeaded
  <2>5. f = CANVAS => Len(m) = STRING_OFFSET + Following(n) * INT_BYTES
    BY <1>2, <1>3, <2>1, <2>2, <2>4, FlagsDiffer DEF Following
  <2>6. \A k \in 1..n : m[STRING_OFFSET + k] = Text(which, n)[k]
    <3>1. \A k \in 1..n : k \in 1..Len(t)
      BY <2>1, <2>2 DEF Following
    <3> QED BY <2>4, <3>1 DEF t
  <2>7. Len(m) = STRING_OFFSET + Following(n) /\ Following(n) \in Nat
    BY <2>1, <2>2, <2>4 DEF Following
  <2>8. m[INT_OFFSET + 1].value = n /\ m[1].value = f /\ m[1].kind = "header"
    BY <2>4
  <2>9. f # CANVAS => \E x \in TextsOf(f) : \A k \in 1..n : m[STRING_OFFSET + k] = Text(x, n)[k]
    BY <1>3, <2>6
  <2>10. STRING_OFFSET <= Len(m)
    BY <1>2, <2>7
  <2>11. f \in {LOGIN, CHAT, CANVAS}
    OBVIOUS
  <2> QED BY <2>1, <2>4, <2>5, <2>7, <2>8, <2>9, <2>10, <2>11, Zenon DEF IsMessage
<1>4. ASSUME NEW d \in Strokes, m = ClientDrawing(d)
      PROVE  IsMessage(m)
  <2>1. d \in Seq(Int)
    BY WireAssumption
  <2>2. PICK n \in Nat : n = Len(d)
    BY <2>1
  <2>3. PICK t \in Seq(Bytes) : /\ Len(t) = n * INT_BYTES
                                /\ \A k \in 1..Len(t) : t[k].kind = "int"
                                /\ m = Headed(CANVAS, n, t)
    BY <1>4, <2>1, <2>2, StrokeBytes
  <2>4. Headless(t)
    BY <2>3 DEF Headless
  <2>8. /\ m \in Seq(Bytes)
        /\ Len(m) = STRING_OFFSET + Len(t)
        /\ m[1].kind = "header" /\ m[1].value = CANVAS
        /\ m[INT_OFFSET + 1].value = n
        /\ \A k \in 2..Len(m) : m[k].kind # "header"
    <3>0. n \in Int
      OBVIOUS
    <3>1. IsHeaded(m, CANVAS, n, t)
      BY FlagsDiffer, <3>0, <2>2, <2>3, <2>4, HeadedBytes, Zenon
    <3> QED BY <3>1 DEF IsHeaded
  <2>9. Following(n) = n /\ n \in Int
    BY DEF Following
  <2> QED BY FlagsDiffer, <1>2, <2>2, <2>3, <2>8, <2>9 DEF IsMessage
<1> QED BY <1>3, <1>4, WhatClientsSend

\* r is a and b, one behind the other.
Joined(r, a, b) ==
  /\ r \in Seq(Bytes)
  /\ Len(r) = Len(a) + Len(b)
  /\ \A k \in 1..Len(a) : r[k] = a[k]
  /\ \A k \in 1..Len(b) : r[Len(a) + k] = b[k]

LEMMA TwoParts ==
  ASSUME NEW a \in Seq(Bytes), NEW b \in Seq(Bytes)
  PROVE  Joined(a \o b, a, b)
<1> DEFINE r == a \o b
<1>1. /\ r \in Seq(Bytes) /\ Len(r) = Len(a) + Len(b)
      /\ \A k \in 1..(Len(a) + Len(b)) : r[k] = IF k <= Len(a) THEN a[k] ELSE b[k - Len(a)]
  BY ConcatProperties
<1>2. Len(a) \in Nat /\ Len(b) \in Nat
  OBVIOUS
<1> HIDE DEF r
<1>3. \A k \in 1..Len(a) : r[k] = a[k]
  BY <1>1, <1>2
<1>4. ASSUME NEW k \in 1..Len(b) PROVE r[Len(a) + k] = b[k]
  <2> DEFINE i == Len(a) + k
  <2>1. i \in 1..(Len(a) + Len(b)) /\ ~(i <= Len(a)) /\ i - Len(a) = k
    BY <1>2
  <2> HIDE DEF i
  <2>2. r[i] = b[k]
    BY <1>1, <2>1
  <2> QED BY <2>2 DEF i
<1>5. Joined(r, a, b)
  BY <1>1, <1>3, <1>4 DEF Joined
<1> QED BY <1>5 DEF r

\* Nothing is in order.
LEMMA NothingIsFramed ==
  ASSUME NEW c, NEW stopped
  PROVE  Framed(<<>>, c, stopped)
BY DEF Framed, Ends

\* Who else stops does not matter.
LEMMA FramedWhoeverStops ==
  ASSUME NEW u, NEW c, NEW old, NEW new, Framed(u, c, old), c \in old => c \in new
  PROVE  Framed(u, c, new)
BY DEF Framed, Ends

\* A client sends a message, or stops within it: its stream stays in order.
LEMMA AppendKeepsFramed ==
  ASSUME NEW u \in Seq(Bytes), NEW m \in FromClient, NEW t \in Seq(Bytes), NEW w,
         Len(t) <= Len(m), \A k \in 1..Len(t) : t[k] = m[k],
         Joined(w, u, t),
         NEW c, NEW old, NEW new, Framed(u, c, old), c \notin old,
         Len(t) < Len(m) => c \in new
  PROVE  Framed(w, c, new)
<1>1. /\ m \in Seq(Bytes) /\ STRING_OFFSET <= Len(m) /\ m[1].kind = "header"
      /\ \A k \in 2..Len(m) : m[k].kind # "header"
  BY MessagesHaveShape DEF IsMessage
<1>2. /\ Len(u) \in Nat /\ Len(t) \in Nat /\ Len(m) \in Nat /\ Len(m) >= 1
      /\ Len(w) = Len(u) + Len(t)
  BY <1>1, FlagsDiffer DEF STRING_OFFSET, INT_OFFSET, Joined
<1>3. /\ \A k \in 1..Len(u) : w[k] = u[k]
      /\ \A k \in 1..Len(t) : w[Len(u) + k] = m[k]
  BY DEF Joined
<1>4. Ends(u, 1, c, old)
  BY DEF Framed
<1>5. ASSUME NEW e \in Nat \ {0}, Ends(u, e, c, old)
      PROVE  Ends(w, e, c, new) /\ e <= Len(u) + 1
  <2>1. e <= Len(u) + 1
    BY <1>2, <1>5 DEF Ends
  <2>2. CASE e <= Len(u)
    BY <1>2, <1>3, <1>5, <2>2 DEF Ends
  <2>3. CASE e = Len(u) + 1
    <3>1. Len(t) >= 1 => w[e].kind = "header"
      BY <1>1, <1>2, <1>3, <2>3
    <3> QED BY <1>2, <2>3, <3>1 DEF Ends
  <2> QED BY <1>2, <2>1, <2>2, <2>3
<1>6. ASSUME NEW k \in 1..Len(w), w[k].kind = "header"
      PROVE  \E x \in FromClient : Begins(w, k, x) /\ Ends(w, k + Len(x), c, new)
  <2>1. CASE k <= Len(u)
    <3>1. k \in 1..Len(u) /\ u[k].kind = "header"
      BY <1>2, <1>3, <1>6, <2>1
    <3>2. PICK x \in FromClient : Begins(u, k, x) /\ Ends(u, k + Len(x), c, old)
      BY <3>1 DEF Framed
    <3>3. Len(x) \in Nat
      BY ClientsSendBytes
    <3>4. Ends(w, k + Len(x), c, new) /\ k + Len(x) <= Len(u) + 1
      BY <1>5, <3>2, <3>3
    <3>5. ASSUME NEW j \in 1..Len(x), k - 1 + j <= Len(w) PROVE w[k - 1 + j] = x[j]
      <4> DEFINE i == k - 1 + j
      <4>1. i \in 1..Len(u) /\ i <= Len(u)
        BY <1>2, <3>3, <3>4
      <4>2. u[i] = x[j]
        BY <3>2, <4>1 DEF Begins
      <4> HIDE DEF i
      <4>3. w[i] = x[j]
        BY <1>3, <4>1, <4>2
      <4> QED BY <4>3 DEF i
    <3> QED BY <3>2, <3>4, <3>5 DEF Begins
  <2>2. CASE ~(k <= Len(u))
    <3> DEFINE i == k - Len(u)
    <3>1. i \in 1..Len(t) /\ i \in 1..Len(m) /\ Len(u) + i = k
      BY <1>2, <2>2
    <3> HIDE DEF i
    <3>2. w[k] = m[i]
      BY <1>3, <3>1
    <3>3. i = 1
      BY <1>1, <1>2, <1>6, <3>1, <3>2
    <3>4. ASSUME NEW j \in 1..Len(m), k - 1 + j <= Len(w) PROVE w[k - 1 + j] = m[j]
      <4>1. k - 1 + j = Len(u) + j /\ j \in 1..Len(t)
        BY <1>2, <3>1, <3>3, <3>4
      <4> QED BY <1>3, <4>1
    <3>5. Ends(w, k + Len(m), c, new)
      <4>1. ~(k + Len(m) <= Len(w))
        BY <1>2, <3>1, <3>3
      <4>2. k + Len(m) > Len(w) + 1 => Len(t) < Len(m)
        BY <1>2, <3>1, <3>3
      <4> QED BY <4>1, <4>2 DEF Ends
    <3> QED BY <3>4, <3>5 DEF Begins
  <2> QED BY <2>1, <2>2
<1> QED BY <1>4, <1>5, <1>6 DEF Framed

\* What follows a message is in order.
LEMMA RestIsFramed ==
  ASSUME NEW u \in Seq(Bytes), NEW t \in Seq(Bytes), NEW v \in Seq(Bytes), Joined(u, t, v),
         NEW c, NEW stopped, Framed(u, c, stopped), Ends(u, Len(t) + 1, c, stopped)
  PROVE  Framed(v, c, stopped)
<1>1. /\ Len(u) \in Nat /\ Len(t) \in Nat /\ Len(v) \in Nat /\ Len(u) = Len(t) + Len(v)
      /\ \A k \in 1..Len(v) : u[Len(t) + k] = v[k]
  BY DEF Joined
<1>2. ASSUME NEW e \in Nat \ {0}, Ends(u, Len(t) + e, c, stopped)
      PROVE  Ends(v, e, c, stopped)
  <2>1. e > Len(v) + 1 => c \in stopped
    BY <1>1, <1>2 DEF Ends
  <2>2. ASSUME e <= Len(v) PROVE v[e].kind = "header"
    <3>1. Len(t) + e <= Len(u) /\ u[Len(t) + e] = v[e]
      BY <1>1, <2>2
    <3> QED BY <1>2, <3>1 DEF Ends
  <2> QED BY <2>1, <2>2 DEF Ends
<1>3. ASSUME NEW k \in 1..Len(v), v[k].kind = "header"
      PROVE  \E x \in FromClient : Begins(v, k, x) /\ Ends(v, k + Len(x), c, stopped)
  <2> DEFINE i == Len(t) + k
  <2>1. i \in 1..Len(u) /\ u[i].kind = "header"
    BY <1>1, <1>3
  <2>2. PICK x \in FromClient : Begins(u, i, x) /\ Ends(u, i + Len(x), c, stopped)
    BY <2>1 DEF Framed
  <2>3. Len(x) \in Nat /\ i + Len(x) = Len(t) + (k + Len(x)) /\ k + Len(x) \in Nat \ {0}
    BY <1>1, ClientsSendBytes
  <2>4. Ends(v, k + Len(x), c, stopped)
    BY <1>2, <2>2, <2>3
  <2>5. ASSUME NEW j \in 1..Len(x), k - 1 + j <= Len(v) PROVE v[k - 1 + j] = x[j]
    <3>1. k - 1 + j \in 1..Len(v) /\ i - 1 + j = Len(t) + (k - 1 + j) /\ i - 1 + j <= Len(u)
      BY <1>1, <2>3, <2>5
    <3>2. u[i - 1 + j] = x[j]
      BY <2>2, <3>1 DEF Begins
    <3> QED BY <1>1, <3>1, <3>2
  <2> QED BY <2>2, <2>4, <2>5 DEF Begins
<1>4. Ends(v, 1, c, stopped)
  BY <1>2
<1> QED BY <1>3, <1>4 DEF Framed

\* While the server receives: what is taken, and the stream it belongs to.
LEMMA StreamByParts ==
  ASSUME FInv, recving.from # None
  PROVE  /\ recving.from \in Clients
         /\ buffer.data \in Seq(Bytes) /\ buffer.next \in Nat
         /\ recving.total \in Nat /\ recving.size \in Int
         /\ recving.total = 0 \/ recving.total <= recving.size
         /\ Done \in 0..Len(buffer.data)
         /\ ~Miscounted => buffer.next + recving.size <= Len(buffer.data)
         /\ Taken \in Seq(Bytes) /\ Len(Taken) = Done
         /\ \A k \in 1..Done : Taken[k] = buffer.data[k]
         /\ up[recving.from] \in Seq(Bytes)
         /\ Joined(Stream(recving.from), Taken, up[recving.from])
<1>1. /\ recving.from \in Clients /\ recving.size \in Int /\ recving.total \in Nat
      /\ up \in [Clients -> Seq(Bytes)]
  BY DEF FInv, IInv, IsRecving
<1>2. /\ buffer.data \in Seq(Bytes) /\ buffer.next \in 0..Len(buffer.data)
      /\ ~Miscounted => buffer.next + recving.size <= Len(buffer.data)
  BY DEF FInv, IInv, ReceivesFit, IsBuffer
<1>3. recving.total = 0 \/ (recving.total <= recving.size /\ ~Miscounted)
  BY DEF FInv, Busy, InField
<1>4. buffer.next \in Nat /\ Done \in 0..Len(buffer.data)
  BY <1>1, <1>2, <1>3 DEF Done
<1>5. /\ Taken \in Seq(Bytes) /\ Len(Taken) = Done
      /\ \A k \in 1..Done : Taken[k] = buffer.data[k]
  BY <1>2, <1>4 DEF Taken
<1>6. up[recving.from] \in Seq(Bytes)
  BY <1>1
<1>7. Stream(recving.from) = Taken \o up[recving.from]
  BY DEF Stream
<1>8. Joined(Stream(recving.from), Taken, up[recving.from])
  BY <1>5, <1>6, <1>7, TwoParts, Zenon
<1> QED BY <1>1, <1>2, <1>3, <1>4, <1>5, <1>6, <1>8

\* What is taken is a message or the first part of one.
LEMMA MessageBegun ==
  ASSUME FInv, recving.from # None, Done >= 1
  PROVE  \E m \in FromClient :
           /\ \A k \in 1..Len(m) : k <= Done => buffer.data[k] = m[k]
           /\ Ends(Stream(recving.from), 1 + Len(m), recving.from, over)
<1> DEFINE c == recving.from
           u == Stream(c)
           v == up[c]
<1>1. /\ c \in Clients /\ Done \in Nat /\ Taken \in Seq(Bytes) /\ Len(Taken) = Done
      /\ \A k \in 1..Done : Taken[k] = buffer.data[k]
      /\ v \in Seq(Bytes) /\ Joined(u, Taken, v)
  BY StreamByParts
<1>2. Framed(u, c, over)
  BY <1>1 DEF FInv, Streams
<1> HIDE DEF u, v, c
<1>3. /\ Len(u) \in Nat /\ Len(u) >= Done
      /\ \A k \in 1..Done : u[k] = buffer.data[k]
  BY <1>1 DEF Joined
<1>4. 1 \in 1..Len(u) /\ u[1].kind = "header"
  BY <1>1, <1>2, <1>3 DEF Framed, Ends
<1>5. PICK m \in FromClient : Begins(u, 1, m) /\ Ends(u, 1 + Len(m), c, over)
  BY <1>2, <1>4 DEF Framed
<1>6. Len(m) \in Nat
  BY ClientsSendBytes
<1>7. ASSUME NEW k \in 1..Len(m), k <= Done PROVE buffer.data[k] = m[k]
  <2>1. 1 - 1 + k = k /\ k \in 1..Done /\ k <= Len(u)
    BY <1>1, <1>3, <1>6, <1>7
  <2>2. 1 - 1 + k <= Len(u) => u[1 - 1 + k] = m[k]
    BY <1>5 DEF Begins
  <2> QED BY <1>3, <2>1, <2>2
<1> QED BY <1>5, <1>7 DEF u, c

\* When the last field is received the message is.
LEMMA MessageReceived ==
  ASSUME FInv, NEW field \in {"text", "diffs"}, Received(field)
  PROVE  \E m \in FromClient :
           /\ Len(m) = Done
           /\ \A k \in 1..Done : buffer.data[k] = m[k]
           /\ m[1].value = ExpectedFlag(recving.from)
           /\ Ends(Stream(recving.from), Done + 1, recving.from, over)
<1> DEFINE c == recving.from
<1>1. c # None /\ recving.field = field /\ recving.total >= recving.size /\ ~Miscounted
  BY DEF Received
<1>2. InField
  BY <1>1 DEF FInv, Busy
<1>3. /\ buffer.next = STRING_OFFSET /\ buffer.data[1].value = ExpectedFlag(c)
      /\ recving.field = "diffs" <=> ExpectedFlag(c) = CANVAS
      /\ recving.size = unpack_int_var(buffer, INT_OFFSET)
                          * (IF recving.field = "diffs" THEN INT_BYTES ELSE 1)
  BY <1>1, <1>2, Zenon DEF InField
<1>4. Done = STRING_OFFSET + recving.total /\ recving.total = Following(recving.size)
      /\ recving.total \in Nat /\ recving.size \in Int
  BY <1>1, <1>3, StreamByParts DEF Done, Following
<1>5. STRING_OFFSET \in Nat /\ INT_OFFSET = 1 /\ STRING_OFFSET >= 2 /\ INT_BYTES \in Nat \ {0}
  BY FlagsDiffer DEF STRING_OFFSET, INT_OFFSET
<1>6. PICK m \in FromClient :
        /\ \A k \in 1..Len(m) : k <= Done => buffer.data[k] = m[k]
        /\ Ends(Stream(c), 1 + Len(m), c, over)
  BY <1>1, <1>4, <1>5, MessageBegun
<1>7. IsMessage(m)
  BY MessagesHaveShape
<1>8. Len(m) \in Nat /\ Len(m) >= STRING_OFFSET
  BY <1>7 DEF IsMessage
<1>9. buffer.data[1] = m[1] /\ buffer.data[2] = m[2]
  <2>1. 1 \in 1..Len(m) /\ 1 <= Done /\ 2 \in 1..Len(m) /\ 2 <= Done
    BY <1>4, <1>5, <1>8
  <2> QED BY <1>6, <2>1
<1> DEFINE n == m[INT_OFFSET + 1].value
<1>10. n = unpack_int_var(buffer, INT_OFFSET) /\ m[1].value = ExpectedFlag(c)
  BY <1>3, <1>5, <1>9 DEF unpack_int_var
<1>11. /\ n \in Int
       /\ m[1].value = CANVAS => Len(m) = STRING_OFFSET + Following(n) * INT_BYTES
       /\ m[1].value # CANVAS => Len(m) = STRING_OFFSET + Following(n)
  BY <1>7 DEF IsMessage
<1> HIDE DEF n
<1>12. Len(m) = Done
  <2>1. CASE recving.field = "diffs"
    <3>1. m[1].value = CANVAS /\ recving.size = n * INT_BYTES
      BY <1>3, <1>10, <2>1
    <3>2. n >= 0
      BY <1>1, <1>10, <1>11, <2>1 DEF Miscounted
    <3>3. n * INT_BYTES >= 0
      BY <1>5, <1>11, <3>2
    <3> QED BY <1>4, <1>11, <3>1, <3>2, <3>3 DEF Following
  <2>2. CASE recving.field # "diffs"
    <3>1. m[1].value # CANVAS /\ recving.size = n * 1
      BY <1>3, <1>10, <2>2
    <3>2. recving.size = n
      BY <1>11, <3>1
    <3> QED BY <1>4, <1>11, <3>1, <3>2
  <2> QED BY <2>1, <2>2
<1>13. 1 + Len(m) = Done + 1 /\ Done \in Nat
  BY <1>4, <1>5, <1>12
<1>14. \A k \in 1..Done : buffer.data[k] = m[k]
  BY <1>6, <1>12, <1>13
<1> QED BY <1>6, <1>10, <1>12, <1>13, <1>14

\* Two buffers alike in their first n bytes.
LEMMA SamePart ==
  ASSUME NEW x \in Seq(Bytes), NEW y \in Seq(Bytes), NEW n \in 0..Len(x), n <= Len(y),
         \A k \in 1..n : y[k] = x[k]
  PROVE  SubSeq(y, 1, n) = SubSeq(x, 1, n)
<1>1. /\ SubSeq(x, 1, n) \in Seq(Bytes) /\ Len(SubSeq(x, 1, n)) = n
      /\ \A k \in 1..n : SubSeq(x, 1, n)[k] = x[k]
  OBVIOUS
<1>2. /\ SubSeq(y, 1, n) \in Seq(Bytes) /\ Len(SubSeq(y, 1, n)) = n
      /\ \A k \in 1..n : SubSeq(y, 1, n)[k] = y[k]
  OBVIOUS
<1>3. \A k \in 1..n : SubSeq(y, 1, n)[k] = SubSeq(x, 1, n)[k]
  BY <1>1, <1>2
<1> QED BY <1>1, <1>2, <1>3, SeqEqual

\* The same two sequences behind each other.
LEMMA JoinedOnce ==
  ASSUME NEW a \in Seq(Bytes), NEW b \in Seq(Bytes), NEW r, NEW q,
         Joined(r, a, b), Joined(q, a, b)
  PROVE  r = q
<1>1. /\ r \in Seq(Bytes) /\ Len(r) = Len(a) + Len(b)
      /\ \A k \in 1..Len(a) : r[k] = a[k]
      /\ \A k \in 1..Len(b) : r[Len(a) + k] = b[k]
  BY DEF Joined
<1>2. /\ q \in Seq(Bytes) /\ Len(q) = Len(a) + Len(b)
      /\ \A k \in 1..Len(a) : q[k] = a[k]
      /\ \A k \in 1..Len(b) : q[Len(a) + k] = b[k]
  BY DEF Joined
<1>3. ASSUME NEW k \in 1..(Len(a) + Len(b)) PROVE r[k] = q[k]
  <2>1. CASE k <= Len(a)
    BY <1>1, <1>2, <2>1
  <2>2. CASE ~(k <= Len(a))
    <3>1. k - Len(a) \in 1..Len(b) /\ Len(a) + (k - Len(a)) = k
      BY <2>2
    <3>2. r[Len(a) + (k - Len(a))] = q[Len(a) + (k - Len(a))]
      BY <1>1, <1>2, <3>1
    <3> QED BY <3>1, <3>2
  <2> QED BY <2>1, <2>2
<1> QED BY <1>1, <1>2, <1>3, SeqEqual

\* k bytes of u move behind the first n of x: the stream is the same.
LEMMA MovedPart ==
  ASSUME NEW x \in Seq(Bytes), NEW y \in Seq(Bytes), NEW u \in Seq(Bytes),
         NEW n \in 0..Len(x), NEW d \in 0..Len(u), n + d <= Len(y),
         \A k \in 1..n : y[k] = x[k],
         \A k \in 1..d : y[n + k] = u[k]
  PROVE  SubSeq(y, 1, n + d) \o SubSeq(u, d + 1, Len(u)) = SubSeq(x, 1, n) \o u
<1> DEFINE a == SubSeq(x, 1, n)
           b == SubSeq(y, 1, n + d)
           v == SubSeq(u, d + 1, Len(u))
           q == b \o v
<1>1. a \in Seq(Bytes) /\ Len(a) = n /\ \A k \in 1..n : a[k] = x[k]
  OBVIOUS
<1>2. b \in Seq(Bytes) /\ Len(b) = n + d /\ \A k \in 1..(n + d) : b[k] = y[k]
  OBVIOUS
<1>3. v \in Seq(Bytes) /\ Len(v) = Len(u) - d /\ \A k \in 1..(Len(u) - d) : v[k] = u[d + k]
  OBVIOUS
<1> HIDE DEF a, b, v
<1>4. Joined(q, b, v)
  BY <1>2, <1>3, TwoParts, Zenon
<1> HIDE DEF q
<1>5. /\ q \in Seq(Bytes) /\ Len(q) = Len(b) + Len(v)
      /\ \A k \in 1..Len(b) : q[k] = b[k]
      /\ \A k \in 1..Len(v) : q[Len(b) + k] = v[k]
  BY <1>4 DEF Joined
<1>6. Len(u) \in Nat /\ n \in Nat /\ d \in Nat /\ d <= Len(u)
  OBVIOUS
<1>7. ASSUME NEW k \in 1..n PROVE q[k] = a[k]
  <2>1. k \in 1..(n + d) /\ k \in 1..Len(b)
    BY <1>2, <1>6
  <2>2. q[k] = b[k] /\ b[k] = y[k]
    BY <1>2, <1>5, <2>1
  <2> QED BY <1>1, <2>2
<1>8. ASSUME NEW k \in 1..Len(u) PROVE q[n + k] = u[k]
  <2>1. CASE k <= d
    <3>1. k \in 1..d /\ n + k \in 1..(n + d)
      BY <1>6, <2>1
    <3>2. q[n + k] = b[n + k] /\ b[n + k] = y[n + k] /\ y[n + k] = u[k]
      BY <1>2, <1>5, <3>1
    <3> QED BY <3>2
  <2>2. CASE ~(k <= d)
    <3> DEFINE i == k - d
    <3>1. i \in 1..(Len(u) - d) /\ n + k = (n + d) + i /\ d + i = k
      BY <1>6, <2>2
    <3> HIDE DEF i
    <3>2. q[(n + d) + i] = v[i] /\ v[i] = u[d + i]
      BY <1>2, <1>3, <1>5, <3>1
    <3> QED BY <3>1, <3>2
  <2> QED BY <2>1, <2>2
<1>9. Joined(q, a, u)
  BY <1>1, <1>2, <1>3, <1>5, <1>6, <1>7, <1>8 DEF Joined
<1>10. Joined(a \o u, a, u)
  BY <1>1, TwoParts, Zenon
<1>11. q = a \o u
  BY <1>1, <1>9, <1>10, JoinedOnce, Zenon
<1> QED BY <1>11 DEF q, a, b, v

-----------------------------------------------------------------------------
(* The steps *)

\* A recv moves bytes and leaves the stream as it is.
LEMMA RecvKeepsStreams ==
  ASSUME FInv, Recv
  PROVE  Busy' /\ Streams'
<1>1. PICK c \in Clients : c = recving.from
  BY StreamByParts DEF Recv
<1>2. PICK n \in 1..(recving.size - recving.total) :
        /\ n <= Len(up[c])
        /\ buffer' = Copied(buffer, buffer.next + recving.total, SubSeq(up[c], 1, n))
        /\ up' = [up EXCEPT ![c] = SubSeq(@, n + 1, Len(@))]
        /\ recving' = [recving EXCEPT !.total = @ + n]
  BY <1>1 DEF Recv
<1>3. UNCHANGED <<status, over, drawer, stack, sending>> /\ recving.from # None /\ ~Miscounted
  BY DEF Recv
<1>4. /\ buffer.data \in Seq(Bytes) /\ buffer.next \in Nat
      /\ recving.total \in Nat /\ recving.size \in Int
      /\ Done \in 0..Len(buffer.data) /\ buffer.next + recving.size <= Len(buffer.data)
      /\ up[c] \in Seq(Bytes)
  BY <1>1, <1>3, StreamByParts
<1>5. n \in Nat /\ n >= 1 /\ recving.total + n <= recving.size
  BY <1>4
<1> DEFINE part == SubSeq(up[c], 1, n)
<1>6. part \in Seq(Bytes) /\ Len(part) = n /\ \A k \in 1..n : part[k] = up[c][k]
  <2> DEFINE u == up[c]
  <2>1. u \in Seq(Bytes) /\ n \in Nat /\ n <= Len(u)
    BY <1>2, <1>4, <1>5
  <2> HIDE DEF u
  <2>2. SubSeq(u, 1, n) \in Seq(Bytes) /\ Len(SubSeq(u, 1, n)) = n
    BY <2>1
  <2>3. \A k \in 1..n : SubSeq(u, 1, n)[k] = u[k]
    BY <2>1
  <2> QED BY <2>2, <2>3 DEF u
<1>19. Done + n <= Len(buffer.data)
  BY <1>1, <1>3, <1>4, <1>5 DEF Done
<1> HIDE DEF part
<1>7. IsBuffer(buffer) /\ Done = buffer.next + recving.total /\ Done \in Nat
  BY <1>4 DEF FInv, IInv, ReceivesFit, Done
<1>8. /\ buffer' = Copied(buffer, Done, part)
  BY <1>2, <1>7 DEF part
<1>9. /\ IsBuffer(buffer') /\ buffer'.next = buffer.next /\ Len(buffer'.data) = Len(buffer.data)
      /\ \A k \in 1..Len(buffer'.data) :
           buffer'.data[k] = IF k \in (Done + 1)..(Done + Len(part))
                             THEN part[k - Done] ELSE buffer.data[k]
  <2> DEFINE r == Copied(buffer, Done, part)
  <2>1. /\ IsBuffer(r) /\ r.next = buffer.next /\ Len(r.data) = Len(buffer.data)
        /\ \A k \in 1..Len(r.data) :
             r.data[k] = IF k \in (Done + 1)..(Done + Len(part))
                         THEN part[k - Done] ELSE buffer.data[k]
    <3>1. part \in Seq(Bytes)
      BY <1>6
    <3>2. IsBuffer(buffer) /\ Done \in Nat
      BY <1>7
    <3> HIDE DEF r
    <3> QED BY <3>1, <3>2, BytesAreCopied, Zenon DEF r
  <2> HIDE DEF r
  <2>2. buffer' = r
    BY <1>8 DEF r
  <2> QED BY <2>1, <2>2
<1>10. /\ recving'.from = c /\ recving'.field = recving.field /\ recving'.size = recving.size
       /\ recving'.total = recving.total + n
  <2>1. recving \in [from : Clients \cup {None}, field : {"header", "int", "text", "diffs"},
                     size : Int, total : Nat]
    BY DEF FInv, IInv, IsRecving
  <2> QED BY <1>1, <1>2, <2>1
<1>11. Done' = Done + n
  BY <1>4, <1>5, <1>7, <1>9, <1>10 DEF Done
<1>12. ASSUME NEW k \in 1..Done PROVE buffer'.data[k] = buffer.data[k]
  <2>1. k \in 1..Len(buffer'.data) /\ ~(k \in (Done + 1)..(Done + Len(part)))
    BY <1>4, <1>7, <1>9
  <2> QED BY <1>9, <2>1
<1>13. ASSUME NEW k \in 1..n PROVE buffer'.data[Done + k] = up[c][k]
  <2> DEFINE i == Done + k
  <2>1. i \in 1..Len(buffer'.data) /\ i \in (Done + 1)..(Done + Len(part)) /\ i - Done = k
    BY <1>5, <1>6, <1>7, <1>9, <1>19
  <2> HIDE DEF i
  <2>2. buffer'.data[i] = part[k]
    BY <1>9, <2>1
  <2> QED BY <1>6, <2>2 DEF i
<1>14. Stream(c)' = Stream(c)
  <2>1. buffer'.data \in Seq(Bytes) /\ Done + n <= Len(buffer'.data)
    BY <1>9, <1>19 DEF IsBuffer
  <2>2. n \in 0..Len(up[c])
    BY <1>2, <1>5
  <2>3. SubSeq(buffer'.data, 1, Done + n) \o SubSeq(up[c], n + 1, Len(up[c]))
          = SubSeq(buffer.data, 1, Done) \o up[c]
    BY <1>4, <1>12, <1>13, <2>1, <2>2, MovedPart
  <2>4. up'[c] = SubSeq(up[c], n + 1, Len(up[c]))
    <3>1. up \in [Clients -> Seq(Bytes)]
      BY DEF FInv, IInv
    <3> QED BY <1>2, <1>4, <3>1
  <2>5. Stream(c)' = SubSeq(buffer'.data, 1, Done + n) \o up'[c]
    BY <1>10, <1>11 DEF Stream, Taken
  <2>6. Stream(c) = SubSeq(buffer.data, 1, Done) \o up[c]
    BY <1>1 DEF Stream, Taken
  <2> QED BY <2>3, <2>4, <2>5, <2>6
<1>15. ASSUME NEW d \in Clients, d # c PROVE Stream(d)' = Stream(d)
  <2>1. up'[d] = up[d]
    BY <1>2, <1>15
  <2> QED BY <1>1, <1>10, <1>15, <2>1 DEF Stream
<1>16. Streams'
  <2>1. ASSUME NEW d \in Clients PROVE Framed(Stream(d)', d, over')
    <3>1. Framed(Stream(d), d, over) /\ over' = over
      BY <1>3 DEF FInv, Streams
    <3> QED BY <1>14, <1>15, <3>1
  <2> QED BY <2>1 DEF Streams
<1>17. InField'
  <2>1. InField
    BY <1>3 DEF FInv, Busy
  <2>2. \A k \in (Done' + 1)..Len(buffer'.data) : buffer'.data[k] = Zero
    <3>1. \A k \in (Done + 1)..Len(buffer.data) : buffer.data[k] = Zero
      BY <2>1 DEF InField
    <3>2. ASSUME NEW k \in (Done' + 1)..Len(buffer'.data) PROVE buffer'.data[k] = Zero
      <4>1. Done' = Done + n /\ Len(buffer'.data) = Len(buffer.data) /\ Len(part) = n
        BY <1>6, <1>9, <1>11
      <4>2. /\ k \in 1..Len(buffer'.data) /\ ~(k \in (Done + 1)..(Done + Len(part)))
            /\ k \in (Done + 1)..Len(buffer.data)
        BY <1>4, <1>5, <3>2, <4>1
      <4> QED BY <1>9, <3>1, <4>2
    <3> QED BY <3>2
  <2>3. ExpectedFlag(c)' = ExpectedFlag(c)
    BY <1>3 DEF ExpectedFlag
  <2>4. recving.field # "header" =>
          /\ buffer'.data[1] = buffer.data[1]
          /\ buffer.data[1].value = ExpectedFlag(c)
    <3>1. recving.field # "header" => buffer.next >= 1
      BY <2>1, FlagsDiffer, <1>4 DEF InField, IInv, IsRecving, INT_OFFSET, STRING_OFFSET, FInv
    <3>2. recving.field # "header" => 1 \in 1..Done
      BY <1>4, <1>7, <3>1
    <3> QED BY <1>1, <1>12, <2>1, <3>2 DEF InField
  <2>5. recving.field \in {"text", "diffs"} =>
          buffer'.data[INT_OFFSET + 1] = buffer.data[INT_OFFSET + 1]
    <3>1. recving.field \in {"text", "diffs"} => INT_OFFSET + 1 \in 1..Done
      BY <2>1, FlagsDiffer, <1>4, <1>7 DEF InField, INT_OFFSET, STRING_OFFSET
    <3> QED BY <1>12, <3>1
  <2>6. recving'.total <= recving'.size /\ ~Miscounted'
    <3>1. recving'.field = "diffs" => unpack_int_var(buffer', INT_OFFSET) = unpack_int_var(buffer, INT_OFFSET)
      BY <1>10, <2>5 DEF unpack_int_var
    <3>2. ~Miscounted'
      BY <1>3, <1>10, <3>1 DEF Miscounted
    <3> QED BY <1>4, <1>5, <1>10, <3>2
  <2>7. recving.field # "header" => buffer'.data[1].value = ExpectedFlag(c)'
    BY <2>3, <2>4
  <2>8. recving.field \in {"text", "diffs"} =>
          unpack_int_var(buffer, INT_OFFSET)' = unpack_int_var(buffer, INT_OFFSET)
    BY <2>5 DEF unpack_int_var
  <2> QED BY <1>1, <1>3, <1>9, <1>10, <2>1, <2>2, <2>3, <2>6, <2>7, <2>8 DEF InField
<1>18. Busy'
  BY <1>1, <1>3, <1>10, <1>17 DEF FInv, Busy
<1> QED BY <1>16, <1>18

\* The streams are all on their way when nothing is being received.
LEMMA NothingTaken ==
  ASSUME recving.from = None, NEW c \in Clients
  PROVE  Stream(c) = up[c]
BY WireAssumption DEF Stream

\* A connection that ends takes its stream with it.
LEMMA CloseKeepsStreams ==
  ASSUME FInv, NEW c, Close(c), recving.from = None \/ recving.from = c, recving'.from = None
  PROVE  Streams'
<1>1. /\ up \in [Clients -> Seq(Bytes)]
      /\ up' = [up EXCEPT ![c] = <<>>] /\ over' = over \ {c}
  BY DEF Close, FInv, IInv
<1>2. ASSUME NEW d \in Clients PROVE Framed(Stream(d)', d, over')
  <2>1. Stream(d)' = up'[d]
    BY WireAssumption DEF Stream
  <2>2. CASE d = c
    <3>1. up'[d] = <<>>
      BY <1>1, <2>2
    <3> QED BY <2>1, <3>1, NothingIsFramed
  <2>3. CASE d # c
    <3>1. up'[d] = Stream(d)
      BY <1>1, <2>3, WireAssumption DEF Stream
    <3>2. Framed(Stream(d), d, over) /\ (d \in over => d \in over')
      BY <1>1, <2>3 DEF FInv, Streams
    <3> QED BY <2>1, <3>1, <3>2, FramedWhoeverStops
  <2> QED BY <2>2, <2>3
<1> QED BY <1>2 DEF Streams

LEMMA GiveUpKeepsStreams ==
  ASSUME FInv, recving.from # None, GiveUp(recving.from)
  PROVE  Busy' /\ Streams'
<1> DEFINE c == recving.from
<1>1. Close(c) /\ recving' = NoRecv /\ sending' = sending
  BY Zenon DEF GiveUp, RemovePlayer
<1>2. recving'.from = None
  BY <1>1 DEF NoRecv
<1>3. Streams'
  BY <1>1, <1>2, CloseKeepsStreams
<1>4. stack = <<>> /\ sending.to = None
  BY DEF FInv, Busy
<1>5. \E S : stack' \in Seq(S)
  <2>1. CASE stack' = <<>>
    <3>1. stack' \in Seq({})
      BY <2>1
    <3> QED BY <3>1
  <2>2. CASE RemovePlayer(c, <<>>)
    <3>1. PICK x : stack' = <<x>> \o <<>>
      BY <2>2, Zenon DEF RemovePlayer
    <3>2. stack' \in Seq({x})
      BY <3>1
    <3> QED BY <3>2
  <2> QED BY <2>1, <2>2, Zenon DEF GiveUp
<1> QED BY <1>1, <1>2, <1>3, <1>4, <1>5 DEF Busy

\* recv_buffer for the next field: what is taken stays, and nothing is behind it.
LEMMA NextField ==
  ASSUME FInv, NEW field, Received(field), recving.size > 0, NEW next, NEW size \in Int,
         Receive(recving.from, Full, next, size), UNCHANGED <<conn, stack, sending>>
  PROVE  /\ Streams'
         /\ buffer'.next = Done
         /\ Done = buffer.next + recving.size
         /\ \A k \in 1..Done : buffer'.data[k] = buffer.data[k]
         /\ \A k \in (Done' + 1)..Len(buffer'.data) : buffer'.data[k] = Zero
<1>1. PICK c \in Clients : c = recving.from
  BY StreamByParts DEF Received
<1>2. /\ recving.from # None /\ recving.total = recving.size /\ ~Miscounted
      /\ up' = up /\ over' = over
  <2>1. recving.from # None /\ recving.total >= recving.size /\ ~Miscounted
    BY DEF Received
  <2>2. /\ recving.total \in Nat /\ recving.size \in Int
        /\ recving.total = 0 \/ recving.total <= recving.size
    BY <2>1, StreamByParts
  <2> QED BY <2>1, <2>2 DEF conn
<1>3. /\ buffer.data \in Seq(Bytes) /\ buffer.next \in Nat /\ recving.size \in Nat
      /\ Done \in 0..Len(buffer.data)
  BY <1>2, StreamByParts
<1>4. Done = buffer.next + recving.size
  BY <1>2 DEF Done
<1> DEFINE b == Full
           r == reserve_space(b, size)
<1>5. IsBuffer(b) /\ b.next = Done /\ b.data = buffer.data
  <2>1. IsBuffer(buffer) /\ buffer.next + recving.size <= Len(buffer.data)
    BY <1>2 DEF FInv, IInv, ReceivesFit
  <2> QED BY <1>3, <1>4, <2>1, AdvancedIsBuffer DEF Full
<1>6. buffer' = r /\ recving' = [from |-> c, field |-> next, size |-> size, total |-> 0]
  BY <1>1 DEF Receive
<1> HIDE DEF b
<1>7. /\ IsBuffer(r) /\ r.next = b.next
      /\ Len(r.data) >= Len(b.data)
      /\ \A k \in 1..Len(r.data) : r.data[k] = IF k <= b.next THEN b.data[k] ELSE Zero
  BY <1>5, SpaceIsReserved
<1> HIDE DEF r
<1>8. r.data \in Seq(Bytes) /\ Done <= Len(r.data) /\ Done \in Nat /\ Len(r.data) \in Nat
  BY <1>3, <1>5, <1>7 DEF IsBuffer
<1>9. Done' = Done
  BY <1>5, <1>6, <1>7, <1>8 DEF Done
<1>10. ASSUME NEW k \in 1..Done PROVE buffer'.data[k] = buffer.data[k]
  <2>1. k \in 1..Len(r.data) /\ k <= b.next
    BY <1>5, <1>8
  <2> QED BY <1>5, <1>6, <1>7, <2>1
<1>11. ASSUME NEW k \in (Done' + 1)..Len(buffer'.data) PROVE buffer'.data[k] = Zero
  <2>1. k \in 1..Len(r.data) /\ ~(k <= b.next)
    BY <1>5, <1>6, <1>8, <1>9
  <2> QED BY <1>6, <1>7, <2>1
<1>12. Taken' = Taken
  <2>1. SubSeq(r.data, 1, Done) = SubSeq(buffer.data, 1, Done)
    BY <1>3, <1>6, <1>8, <1>10, SamePart
  <2> QED BY <1>6, <1>9, <2>1 DEF Taken
<1>13. ASSUME NEW d \in Clients PROVE Stream(d)' = Stream(d)
  BY <1>1, <1>2, <1>6, <1>12 DEF Stream
<1>14. Streams'
  BY <1>2, <1>13 DEF FInv, Streams
<1> QED BY <1>4, <1>5, <1>6, <1>7, <1>10, <1>11, <1>14

LEMMA GotHeaderKeepsStreams ==
  ASSUME FInv, GotHeader
  PROVE  Busy' /\ Streams'
<1>1. PICK c \in Clients : c = recving.from
  BY StreamByParts DEF GotHeader, Received
<1>2. Received("header") /\ recving.from # None /\ recving.field = "header"
  BY DEF GotHeader, Received
<1>3. CASE GiveUp(recving.from)
  BY <1>2, <1>3, GiveUpKeepsStreams
<1>4. CASE /\ buffer.data[1].value = ExpectedFlag(c)
           /\ Receive(recving.from, Full, "int", INT_BYTES)
           /\ UNCHANGED <<conn, stack, sending>>
  <2>1. recving.size = 1 /\ buffer.next = 0 /\ stack = <<>>
    BY <1>2 DEF FInv, IInv, IsRecving, Busy, InField
  <2>2. /\ Streams' /\ buffer'.next = 1 /\ buffer'.data[1] = buffer.data[1]
        /\ \A k \in (Done' + 1)..Len(buffer'.data) : buffer'.data[k] = Zero
    <3>1. /\ Streams' /\ buffer'.next = Done /\ Done = buffer.next + recving.size
          /\ \A k \in 1..Done : buffer'.data[k] = buffer.data[k]
          /\ \A k \in (Done' + 1)..Len(buffer'.data) : buffer'.data[k] = Zero
      BY <1>2, <1>4, <2>1, NextField, FlagsDiffer
    <3> QED BY <2>1, <3>1
  <2>3. /\ recving'.from = c /\ recving'.field = "int" /\ recving'.total = 0
        /\ recving'.size = INT_BYTES
    BY <1>1, <1>4 DEF Receive
  <2>4. ExpectedFlag(c)' = ExpectedFlag(c)
    BY <1>4 DEF ExpectedFlag, conn
  <2>5. buffer'.data[1].value = ExpectedFlag(c)'
    BY <1>4, <2>2, <2>4
  <2>6. InField'
    BY <2>2, <2>3, <2>5, FlagsDiffer DEF InField, INT_OFFSET
  <2> QED BY <1>4, <2>1, <2>2, <2>3, <2>6 DEF FInv, Busy
<1> QED BY <1>1, <1>3, <1>4, Zenon DEF GotHeader

LEMMA GotIntKeepsStreams ==
  ASSUME FInv, GotInt
  PROVE  Busy' /\ Streams'
<1>1. PICK c \in Clients : c = recving.from
  BY StreamByParts DEF GotInt, Received
<1>2. Received("int") /\ recving.from # None /\ recving.field = "int"
  BY DEF GotInt, Received
<1> DEFINE n == unpack_int_var(buffer, INT_OFFSET)
           field == IF ExpectedFlag(c) = CANVAS THEN "diffs" ELSE "text"
           size == IF field = "diffs" THEN AsInt(n * INT_BYTES) ELSE n
<1>3. CASE GiveUp(recving.from)
  BY <1>2, <1>3, GiveUpKeepsStreams
<1>4. CASE /\ IF ExpectedFlag(c) = CANVAS THEN Receive(c, Full, "diffs", AsInt(n * INT_BYTES))
              ELSE Receive(c, Full, "text", n)
           /\ UNCHANGED <<conn, stack, sending>>
  <2>1. /\ recving.size = INT_BYTES /\ buffer.next = INT_OFFSET /\ stack = <<>>
        /\ buffer.data[1].value = ExpectedFlag(c)
    BY <1>1, <1>2 DEF FInv, IInv, IsRecving, Busy, InField
  <2>2. /\ Done = STRING_OFFSET /\ INT_OFFSET = 1 /\ STRING_OFFSET \in Nat
        /\ STRING_OFFSET >= 2 /\ INT_BYTES \in Nat \ {0}
    <3>1. recving.total = recving.size
      BY <1>2, <2>1, StreamByParts, FlagsDiffer DEF Received
    <3> QED BY <2>1, <3>1, FlagsDiffer DEF Done, STRING_OFFSET, INT_OFFSET
  <2>3. n \in Int
    BY <1>2, LengthIsInt DEF FInv
  <2>4. Receive(c, Full, field, size)
    BY <1>4
  <2>5. size \in Int
    <3> HIDE DEF n
    <3>1. n * INT_BYTES \in Int
      BY <2>2, <2>3
    <3>2. AsInt(n * INT_BYTES) \in Int
      BY <3>1, IntsAreInts
    <3> QED BY <2>3, <3>2
  <2>12. field = "text" \/ Miscounted' \/ size = n * INT_BYTES
    <3>1. SUFFICES ASSUME ExpectedFlag(c) = CANVAS
                   PROVE  Miscounted' \/ AsInt(n * INT_BYTES) = n * INT_BYTES
      OBVIOUS
    <3>2. Receive(c, Full, "diffs", AsInt(n * INT_BYTES))
      BY <1>4, <3>1
    <3>3. IsBuffer(buffer) /\ ~Miscounted
      BY <1>2 DEF FInv, IInv, ReceivesFit, Received
    <3>4. buffer.next + recving.size = STRING_OFFSET /\ recving.size \in Nat
      BY <2>1, <2>2 DEF STRING_OFFSET
    <3>5. STRING_OFFSET <= Len(buffer.data)
      BY <3>3, <3>4 DEF FInv, IInv, ReceivesFit
    <3>6. IsBuffer(Full) /\ Full.next = STRING_OFFSET /\ Full.data = buffer.data
      BY <3>3, <3>4, <3>5, AdvancedIsBuffer DEF Full
    <3>7. n = unpack_int_var(Full, INT_OFFSET)
      BY <3>6 DEF unpack_int_var
    <3> HIDE DEF n
    <3> QED BY <2>3, <3>2, <3>5, <3>6, <3>7, DrawingFitsInt
  <2>6. /\ recving'.from = c /\ recving'.field = field /\ recving'.total = 0
        /\ recving'.size = size
    BY <2>4 DEF Receive
  <2> HIDE DEF size
  <2>7. /\ Streams' /\ buffer'.next = STRING_OFFSET
        /\ buffer'.data[1] = buffer.data[1]
        /\ buffer'.data[INT_OFFSET + 1] = buffer.data[INT_OFFSET + 1]
        /\ \A k \in (Done' + 1)..Len(buffer'.data) : buffer'.data[k] = Zero
    <3>1. /\ Streams' /\ buffer'.next = Done
          /\ \A k \in 1..Done : buffer'.data[k] = buffer.data[k]
          /\ \A k \in (Done' + 1)..Len(buffer'.data) : buffer'.data[k] = Zero
      <4>1. Receive(recving.from, Full, field, size) /\ size \in Int
        BY <1>1, <2>4, <2>5
      <4>2. recving.size > 0
        BY <2>1, <2>2
      <4> HIDE DEF field
      <4> QED BY <1>2, <1>4, <4>1, <4>2, NextField
    <3>2. 1 \in 1..Done /\ INT_OFFSET + 1 \in 1..Done
      BY <2>2
    <3> QED BY <2>2, <3>1, <3>2
  <2>8. ExpectedFlag(c)' = ExpectedFlag(c)
    BY <1>4 DEF ExpectedFlag, conn
  <2>9. n' = n
    BY <2>7 DEF unpack_int_var
  <2>10. buffer'.data[1].value = ExpectedFlag(c)'
    BY <2>1, <2>7, <2>8
  <2>11. InField'
    <3>1. field \in {"text", "diffs"} /\ (field = "diffs" <=> ExpectedFlag(c)' = CANVAS)
      BY <2>8
    <3>2. Miscounted' \/ size = n' * (IF field = "diffs" THEN INT_BYTES ELSE 1)
      <4>1. field = "text" => size = n /\ n * 1 = n
        BY <2>3 DEF size
      <4> QED BY <2>9, <2>12, <4>1
    <3> HIDE DEF field, n
    <3> QED BY <2>5, <2>6, <2>7, <2>10, <3>1, <3>2 DEF InField, n
  <2> QED BY <1>4, <2>1, <2>6, <2>7, <2>11 DEF FInv, Busy
<1> QED BY <1>1, <1>3, <1>4, Zenon DEF GotInt

\* A message is handled: what follows it is still on its way.
LEMMA HandledKeepsStreams ==
  ASSUME FInv, NEW field \in {"text", "diffs"}, Received(field),
         recving' = NoRecv, UNCHANGED <<up, over, sending>>, NEW S, stack' \in Seq(S)
  PROVE  Busy' /\ Streams'
<1> DEFINE c == recving.from
<1>1. c # None /\ c \in Clients
  BY StreamByParts DEF Received
<1>2. Ends(Stream(c), Done + 1, c, over)
  BY MessageReceived
<1>3. /\ Taken \in Seq(Bytes) /\ Len(Taken) = Done /\ up[c] \in Seq(Bytes)
      /\ Joined(Stream(c), Taken, up[c])
  BY <1>1, StreamByParts
<1>4. Framed(up[c], c, over)
  <2>1. Framed(Stream(c), c, over) /\ Stream(c) \in Seq(Bytes)
    BY <1>1, <1>3 DEF FInv, Streams, Joined
  <2>2. Ends(Stream(c), Len(Taken) + 1, c, over)
    BY <1>2, <1>3
  <2> QED BY <1>3, <2>1, <2>2, RestIsFramed, Zenon
<1>5. ASSUME NEW d \in Clients PROVE Framed(Stream(d)', d, over')
  <2>1. Stream(d)' = up[d]
    BY WireAssumption DEF Stream, NoRecv
  <2>2. d # c => Framed(up[d], d, over)
    BY DEF FInv, Streams, Stream
  <2> QED BY <1>4, <2>1, <2>2
<1>6. Streams'
  BY <1>5 DEF Streams
<1>7. sending.to = None /\ recving'.from = None
  BY <1>1 DEF FInv, Busy, NoRecv
<1>8. Busy'
  BY <1>7 DEF Busy
<1> QED BY <1>6, <1>8

LEMMA HandlersKeepStreams ==
  ASSUME FInv, InvalidUsername \/ LoggedIn \/ Guessed \/ Drawn
  PROVE  Busy' /\ Streams'
<1>1. CASE LoggedIn
  <2>1. PICK x, y, z : stack' = <<x, y, z>> \/ stack' = <<x>>
    BY <1>1, Zenon DEF LoggedIn
  <2>2. stack' \in Seq({x, y, z})
    <3> DEFINE S == {x, y, z}
    <3>1. x \in S /\ y \in S /\ z \in S
      OBVIOUS
    <3> HIDE DEF S
    <3>2. <<x, y, z>> \in Seq(S) /\ <<x>> \in Seq(S)
      BY <3>1
    <3>3. stack' \in Seq(S)
      BY <2>1, <3>2
    <3> QED BY <3>3 DEF S
  <2>3. Received("text") /\ recving' = NoRecv /\ UNCHANGED <<up, over, sending>>
    BY <1>1 DEF LoggedIn
  <2> QED BY <2>2, <2>3, HandledKeepsStreams
<1>2. CASE Guessed
  <2>1. PICK x, y : stack' = <<x, y>>
    BY <1>2, Zenon DEF Guessed
  <2>2. stack' \in Seq({x, y})
    BY <2>1
  <2>3. Received("text") /\ recving' = NoRecv /\ UNCHANGED <<up, over, sending>>
    BY <1>2 DEF Guessed, conn
  <2> QED BY <2>2, <2>3, HandledKeepsStreams
<1>3. CASE Drawn
  <2>1. CASE GiveUp(recving.from)
    BY <1>3, <2>1, GiveUpKeepsStreams DEF Drawn, Received
  <2>2. CASE /\ stack' = <<Sends(Others(recving.from), Content(Full), "broadcast")>>
             /\ recving' = NoRecv
             /\ UNCHANGED <<conn, sending>>
    <3>1. PICK x : stack' = <<x>>
      BY <2>2
    <3>2. stack' \in Seq({x})
      BY <3>1
    <3>3. Received("diffs") /\ recving' = NoRecv /\ UNCHANGED <<up, over, sending>>
      BY <1>3, <2>2 DEF Drawn, conn
    <3> QED BY <3>2, <3>3, HandledKeepsStreams
  <2> QED BY <1>3, <2>1, <2>2, Zenon DEF Drawn
<1>4. CASE InvalidUsername
  BY <1>4, GiveUpKeepsStreams DEF InvalidUsername, Received
<1> QED BY <1>1, <1>2, <1>3, <1>4

\* The server begins to receive when the client's message is at its start.
LEMMA ReceiveKeepsStreams ==
  ASSUME FInv, Idle, NEW c \in Clients, Receive(c, new_buffer, "header", 1),
         UNCHANGED <<up, over, stack, sending>>
  PROVE  Busy' /\ Streams'
<1>1. /\ IsBuffer(new_buffer) /\ new_buffer.next = 0
  BY NewBufferIsBuffer
<1> DEFINE b == new_buffer
           r == reserve_space(b, 1)
<1> HIDE DEF b
<1>2. /\ IsBuffer(r) /\ r.next = b.next
      /\ \A k \in 1..Len(r.data) : r.data[k] = IF k <= b.next THEN b.data[k] ELSE Zero
  BY <1>1, SpaceIsReserved DEF b
<1>3. buffer' = r /\ recving' = [from |-> c, field |-> "header", size |-> 1, total |-> 0]
  BY DEF Receive, b
<1> HIDE DEF r
<1>4. buffer'.next = 0 /\ Done' = 0
  BY <1>1, <1>2, <1>3 DEF Done, b
<1>5. r.data \in Seq(Bytes)
  BY <1>2 DEF IsBuffer
<1>6. \A k \in (Done' + 1)..Len(buffer'.data) : buffer'.data[k] = Zero
  BY <1>1, <1>2, <1>3, <1>4, <1>5 DEF b
<1>7. recving.from = None /\ stack = <<>>
  BY DEF Idle
<1>8. ASSUME NEW d \in Clients PROVE Stream(d)' = Stream(d)
  <2>1. Stream(d) = up[d] /\ up[d] \in Seq(Bytes)
    BY <1>7, NothingTaken DEF FInv, IInv
  <2>2. CASE d = c
    <3>1. Taken' = <<>>
      BY <1>3, <1>4, <1>5 DEF Taken
    <3>2. Stream(d)' = <<>> \o up[d]
      BY <1>3, <2>2, <3>1 DEF Stream
    <3> QED BY <2>1, <3>2
  <2>3. CASE d # c
    BY <1>3, <2>1, <2>3 DEF Stream
  <2> QED BY <2>2, <2>3
<1>9. Streams'
  BY <1>8 DEF FInv, Streams
<1>10. InField'
  BY <1>3, <1>4, <1>6 DEF InField
<1>11. Busy'
  BY <1>7, <1>10 DEF FInv, Busy
<1> QED BY <1>9, <1>11

\* A client sends a message or stops within it.
LEMMA WriteKeepsStreams ==
  ASSUME FInv, NEW c \in Clients, Write(c)
  PROVE  Busy' /\ Streams'
<1>1. /\ c \notin over /\ UNCHANGED <<status, drawer, buffer, recving, stack, sending>>
  BY DEF Write
<1>2. up \in [Clients -> Seq(Bytes)]
  BY DEF FInv, IInv
<1>3. PICK m \in FromClient :
        \/ up' = [up EXCEPT ![c] = @ \o m] /\ UNCHANGED over
        \/ /\ \E n \in 0..(Len(m) - 1) : up' = [up EXCEPT ![c] = @ \o SubSeq(m, 1, n)]
           /\ over' = over \cup {c}
  BY Zenon DEF Write
<1>4. m \in Seq(Bytes)
  BY ClientsSendBytes
<1>5. PICK t \in Seq(Bytes) :
        /\ Len(t) <= Len(m) /\ \A k \in 1..Len(t) : t[k] = m[k]
        /\ Len(t) < Len(m) => c \in over'
        /\ \A d \in Clients \ {c} : d \in over => d \in over'
        /\ up' = [up EXCEPT ![c] = @ \o t]
  <2>1. CASE up' = [up EXCEPT ![c] = @ \o m] /\ UNCHANGED over
    <3>1. /\ Len(m) <= Len(m) /\ ~(Len(m) < Len(m))
          /\ \A d \in Clients \ {c} : d \in over => d \in over'
      BY <1>4, <2>1
    <3> QED BY <1>4, <2>1, <3>1, Zenon
  <2>2. CASE /\ \E n \in 0..(Len(m) - 1) : up' = [up EXCEPT ![c] = @ \o SubSeq(m, 1, n)]
             /\ over' = over \cup {c}
    <3>1. PICK n \in 0..(Len(m) - 1) : up' = [up EXCEPT ![c] = @ \o SubSeq(m, 1, n)]
      BY <2>2
    <3> DEFINE t == SubSeq(m, 1, n)
    <3>2. t \in Seq(Bytes) /\ Len(t) = n /\ \A k \in 1..n : t[k] = m[k]
      BY <1>4
    <3>3. n <= Len(m)
      BY <1>4
    <3>4. up' = [up EXCEPT ![c] = @ \o t]
      BY <3>1
    <3> HIDE DEF t
    <3> QED BY <2>2, <3>2, <3>3, <3>4
  <2> QED BY <1>3, <2>1, <2>2
<1>6. up'[c] = up[c] \o t /\ up[c] \in Seq(Bytes)
  BY <1>2, <1>5
<1>7. Stream(c) \in Seq(Bytes) /\ Stream(c)' = Stream(c) \o t
  <2>1. CASE c = recving.from
    <3>1. Taken \in Seq(Bytes) /\ Taken' = Taken
      BY <1>1, <2>1, StreamByParts, WireAssumption DEF Taken, Done
    <3>2. Stream(c) = Taken \o up[c] /\ Stream(c)' = Taken \o (up[c] \o t)
      BY <1>1, <1>6, <2>1, <3>1 DEF Stream
    <3>3. Taken \o (up[c] \o t) = (Taken \o up[c]) \o t
      <4>1. ASSUME NEW x \in Seq(Bytes), NEW y \in Seq(Bytes), NEW z \in Seq(Bytes)
            PROVE  x \o (y \o z) = (x \o y) \o z
        <5>1. (x \o y) \o z = x \o (y \o z)
          BY ConcatAssociative
        <5> QED BY <5>1, Zenon
      <4> QED BY <1>6, <3>1, <4>1, Zenon
    <3>4. Taken \o up[c] \in Seq(Bytes)
      BY <1>6, <3>1
    <3> QED BY <3>2, <3>3, <3>4
  <2>2. CASE c # recving.from
    BY <1>1, <1>6, <2>2 DEF Stream
  <2> QED BY <2>1, <2>2
<1>8. Framed(Stream(c)', c, over')
  <2> DEFINE u == Stream(c)
             w == u \o t
  <2>1. Framed(u, c, over) /\ u \in Seq(Bytes)
    BY <1>7 DEF FInv, Streams
  <2> HIDE DEF u
  <2>2. Joined(w, u, t)
    BY <2>1, TwoParts, Zenon
  <2>3. Stream(c)' = w
    BY <1>7 DEF u
  <2> HIDE DEF w
  <2>4. Framed(w, c, over')
    BY <1>1, <1>5, <2>1, <2>2, AppendKeepsFramed, Zenon
  <2> QED BY <2>3, <2>4
<1>9. ASSUME NEW d \in Clients, d # c PROVE Framed(Stream(d)', d, over')
  <2>1. Stream(d)' = Stream(d)
    <3>1. up'[d] = up[d] /\ Taken' = Taken
      BY <1>1, <1>5, <1>9 DEF Taken, Done
    <3> QED BY <1>1, <3>1 DEF Stream
  <2>2. Framed(Stream(d), d, over)
    BY DEF FInv, Streams
  <2>3. d \in over => d \in over'
    BY <1>5, <1>9
  <2> QED BY <2>1, <2>2, <2>3, FramedWhoeverStops
<1>10. Streams'
  BY <1>8, <1>9 DEF Streams
<1>11. Busy'
  BY <1>1 DEF FInv, Busy, InField, Done, ExpectedFlag, Miscounted, unpack_int_var
<1> QED BY <1>10, <1>11

\* A step that receives nothing and takes nothing from a client.
LEMMA SameStreams ==
  ASSUME FInv, UNCHANGED <<up, over, buffer, recving>>
  PROVE  Streams'
<1>1. Taken' = Taken
  BY DEF Taken, Done
<1>2. ASSUME NEW c \in Clients PROVE Stream(c)' = Stream(c)
  BY <1>1 DEF Stream
<1> QED BY <1>2 DEF FInv, Streams

\* A send before the others still to be done.
LEMMA PushedIsSeq ==
  ASSUME NEW S, NEW q \in Seq(S), NEW x
  PROVE  <<x>> \o q \in Seq(S \cup {x}) /\ <<x>> \o q # <<>>
<1> DEFINE T == S \cup {x}
<1>1. x \in T /\ q \in Seq(T)
  <2>1. \A k \in 1..Len(q) : q[k] \in T
    OBVIOUS
  <2>2. q \in Seq(T)
    BY <2>1
  <2> QED BY <2>2
<1> HIDE DEF T
<1>2. <<x>> \o q \in Seq(T)
  BY <1>1
<1>3. <<x>> \o q # <<>>
  BY <1>1
<1> QED BY <1>2, <1>3 DEF T

LEMMA SendsKeepStreams ==
  ASSUME FInv, NextReceiver \/ Send \/ SendFails
  PROVE  Busy' /\ Streams'
<1>1. PICK S : stack \in Seq(S)
  BY DEF FInv, Busy
<1>2. CASE NextReceiver
  <2>1. stack # <<>> /\ UNCHANGED <<buffer, recving>> /\ UNCHANGED conn /\ recving.from = None
    BY <1>2, Zenon DEF NextReceiver, FInv, Busy
  <2>2. Streams'
    BY <2>1, SameStreams DEF conn
  <2>3. ASSUME stack' = Tail(stack), sending' = sending, sending.to = None
        PROVE  Busy'
    <3>1. stack' \in Seq(S)
      BY <1>1, <2>1, <2>3
    <3> QED BY <2>1, <2>3, <3>1 DEF Busy
  <2>4. ASSUME NEW c, stack' = [stack EXCEPT ![1].to = @ \ {c}]
        PROVE  stack' # <<>> /\ \E T : stack' \in Seq(T)
    <3> DEFINE x == [stack[1] EXCEPT !.to = @ \ {c}]
               T == S \cup {x}
    <3>1. stack' = [stack EXCEPT ![1] = x]
      BY <2>4, Zenon
    <3>2. x \in T /\ \A k \in 1..Len(stack) : stack[k] \in T
      BY <1>1
    <3> HIDE DEF T, x
    <3>3. stack \in Seq(T) /\ Len(stack) >= 1
      BY <1>1, <2>1, <3>2
    <3>4. stack' \in Seq(T) /\ Len(stack') = Len(stack)
      BY <3>1, <3>2, <3>3
    <3> QED BY <3>3, <3>4
  <2>5. (\E c : stack' = [stack EXCEPT ![1].to = @ \ {c}])
          \/ (stack' = Tail(stack) /\ sending' = sending /\ sending.to = None)
    BY <1>2, Zenon DEF NextReceiver
  <2>6. Busy'
    BY <2>1, <2>3, <2>4, <2>5 DEF Busy
  <2> QED BY <2>2, <2>6
<1>3. CASE Send
  <2>1. /\ sending.to # None /\ UNCHANGED <<buffer, recving, stack>>
        /\ Close(sending.to) \/ UNCHANGED <<up, over>>
    BY <1>3, Zenon DEF Send
  <2>2. recving.from = None /\ stack # <<>>
    BY <2>1 DEF FInv, Busy
  <2>3. Streams'
    BY <2>1, <2>2, SameStreams, CloseKeepsStreams
  <2> QED BY <1>1, <2>1, <2>2, <2>3 DEF Busy
<1>4. CASE SendFails
  <2>1. /\ sending.to # None /\ UNCHANGED <<buffer, recving>> /\ sending' = NoSend
        /\ Close(sending.to) \/ UNCHANGED <<up, over>>
    BY <1>4, Zenon DEF SendFails, RemovePlayer
  <2>2. recving.from = None /\ sending'.to = None
    BY <2>1 DEF FInv, Busy, NoSend
  <2>3. Streams'
    BY <2>1, <2>2, SameStreams, CloseKeepsStreams
  <2>4. \E T : stack' \in Seq(T)
    <3>1. \/ stack' = stack
          \/ \E x : stack' = <<x>> \o stack
          \/ \E x : stack' = <<x>> \o <<>>
      BY <1>4, Zenon DEF SendFails, RemovePlayer
    <3>2. <<>> \in Seq(S)
      OBVIOUS
    <3> QED BY <1>1, <3>1, <3>2, PushedIsSeq, Zenon
  <2> QED BY <2>1, <2>2, <2>3, <2>4 DEF Busy
<1> QED BY <1>2, <1>3, <1>4

LEMMA NotifyKeepsStreams ==
  ASSUME FInv, Notify
  PROVE  Busy' /\ Streams'
<1>1. Idle /\ UNCHANGED <<up, over, buffer, recving, sending>>
  BY Zenon DEF Notify
<1>2. Streams'
  BY <1>1, SameStreams
<1>3. PICK x, y : stack' = <<x>> \/ stack' = <<x, y>>
  BY Zenon DEF Notify
<1>4. stack' \in Seq({x, y})
  <2> DEFINE S == {x, y}
  <2>1. x \in S /\ y \in S
    OBVIOUS
  <2> HIDE DEF S
  <2>2. <<x, y>> \in Seq(S) /\ <<x>> \in Seq(S)
    BY <2>1
  <2>3. stack' \in Seq(S)
    BY <1>3, <2>2
  <2> QED BY <2>3 DEF S
<1>5. recving'.from = None /\ sending'.to = None
  BY <1>1 DEF Idle, FInv, Busy
<1>6. Busy'
  BY <1>4, <1>5 DEF Busy
<1> QED BY <1>2, <1>6

LEMMA StreamsStart == Init => FInv
<1> SUFFICES ASSUME Init PROVE FInv
  OBVIOUS
<1>1. /\ up = [c \in Clients |-> <<>>] /\ recving = NoRecv /\ stack = <<>> /\ sending = NoSend
  BY DEF Init
<1>2. recving.from = None /\ sending.to = None
  BY <1>1 DEF NoRecv, NoSend
<1>3. ASSUME NEW c \in Clients PROVE Framed(Stream(c), c, over)
  <2>1. Stream(c) = <<>>
    BY <1>1, <1>2, NothingTaken
  <2> QED BY <2>1, NothingIsFramed
<1>4. \E S : stack \in Seq(S)
  <2>1. stack \in Seq({})
    BY <1>1
  <2> QED BY <2>1
<1>5. Busy
  BY <1>2, <1>4 DEF Busy
<1> QED BY <1>3, <1>5, InitFits DEF FInv, Streams

LEMMA StepKeepsStreams == FInv /\ [Next]_vars => FInv'
<1> SUFFICES ASSUME FInv, [Next]_vars PROVE FInv'
  OBVIOUS
<1>1. IInv'
  BY StepFits DEF FInv
<1> DEFINE Kept == Busy' /\ Streams'
<1>2. ASSUME RecvFails PROVE Kept
  BY <1>2, GiveUpKeepsStreams DEF RecvFails
<1>3. ASSUME NEW c \in Clients, Accept(c) PROVE Kept
  BY <1>3, ReceiveKeepsStreams DEF Accept
<1>4. ASSUME NEW c \in Clients, Action(c) PROVE Kept
  BY <1>4, ReceiveKeepsStreams DEF Action, conn
<1>5. ASSUME UNCHANGED vars PROVE Kept
  <2>1. Streams'
    BY <1>5, SameStreams DEF vars
  <2>2. Busy'
    BY <1>5 DEF FInv, Busy, InField, Done, ExpectedFlag, Miscounted, unpack_int_var, vars
  <2> QED BY <2>1, <2>2
<1> HIDE DEF Kept
<1>6. ASSUME Next PROVE Kept
  <2>1. Recv \/ GotHeader \/ GotInt \/ InvalidUsername \/ LoggedIn \/ Guessed \/ Drawn \/ NextReceiver \/ Send
          \/ SendFails \/ Notify \/ (\E c \in Clients : Write(c)) => Kept
    BY RecvKeepsStreams, GotHeaderKeepsStreams, GotIntKeepsStreams, HandlersKeepStreams,
       SendsKeepStreams, NotifyKeepsStreams, WriteKeepsStreams, Zenon DEF Kept
  <2> QED BY <1>2, <1>3, <1>4, <1>6, <2>1, Zenon DEF Next, Handler, Kept
<1> QED BY <1>1, <1>5, <1>6 DEF FInv, Kept

\* However the messages of clients are cut, and wherever the server gives up or a client
\* stops: when the server is back in its loop, what it reads next from a player begins
\* with a header, for every size of the fields and every length.
THEOREM ServerStaysInStep == Spec => []ServerInStep
<1>1. FInv => ServerInStep
  <2> SUFFICES ASSUME FInv, Idle, NEW c \in Clients, up[c] # <<>>
               PROVE  Head(up[c]).kind = "header"
    BY DEF ServerInStep, In
  <2>1. up[c] \in Seq(Bytes) /\ Framed(up[c], c, over)
    BY NothingTaken DEF FInv, IInv, Streams, Idle
  <2>2. Len(up[c]) >= 1 /\ Head(up[c]) = up[c][1]
    BY <2>1
  <2> QED BY <2>1, <2>2 DEF Framed, Ends
<1> QED BY <1>1, StreamsStart, StepKeepsStreams, PTL DEF Spec

\* The text t is in b from the offset on, with a zero behind it.
HasText(b, offset, t) ==
  /\ b.data \in Seq(Bytes) /\ offset \in Nat /\ t \in Seq(Bytes)
  /\ offset + Len(t) < Len(b.data)
  /\ \A k \in 1..Len(t) : b.data[offset + k] = t[k] /\ t[k] # Zero
  /\ b.data[offset + Len(t) + 1] = Zero

\* strcpy finds the text that ends in the first zero.
LEMMA TextIsFound ==
  ASSUME NEW b, NEW offset, NEW t, HasText(b, offset, t)
  PROVE  strcpy(b, offset) = {t}
<1> USE DEF HasText
<1> DEFINE data == b.data
           n == Len(t)
           rest == SubSeq(data, offset + 1, Len(data))
           ends == {k \in 1..Len(rest) : rest[k] = Zero}
           first == {j \in ends : \A e \in ends : j <= e}
<1>1. data \in Seq(Bytes) /\ Len(data) \in Nat /\ n \in Nat /\ offset + n < Len(data)
  OBVIOUS
<1> HIDE DEF data
<1>2. /\ rest \in Seq(Bytes) /\ Len(rest) = Len(data) - offset
      /\ \A k \in 1..(Len(data) - offset) : rest[k] = data[offset + k]
  BY <1>1
<1> HIDE DEF rest
<1>3. ASSUME NEW k \in 1..n PROVE rest[k] = t[k] /\ rest[k] # Zero
  <2>1. k \in 1..(Len(data) - offset)
    BY <1>1
  <2>2. data[offset + k] = t[k] /\ t[k] # Zero
    BY DEF data, n
  <2> QED BY <1>2, <2>1, <2>2
<1>4. n + 1 \in 1..Len(rest) /\ rest[n + 1] = Zero
  <2>1. n + 1 \in 1..(Len(data) - offset) /\ offset + (n + 1) = offset + n + 1
    BY <1>1
  <2>2. data[offset + n + 1] = Zero
    BY DEF data, n
  <2>3. rest[n + 1] = data[offset + (n + 1)]
    BY <1>2, <2>1
  <2> QED BY <1>2, <2>1, <2>2, <2>3
<1>5. n + 1 \in ends /\ \A e \in ends : e \in Int /\ n + 1 <= e
  <2>1. ASSUME NEW e \in ends PROVE e \in Int /\ n + 1 <= e
    <3>1. e \in 1..Len(rest) /\ rest[e] = Zero
      OBVIOUS
    <3>2. e \in Int /\ e >= 1
      BY <3>1
    <3>3. ~(e <= n)
      BY <1>3, <3>1, <3>2
    <3> QED BY <1>1, <3>2, <3>3
  <2> QED BY <1>4, <2>1
<1> HIDE DEF ends, n
<1>6. first = {n + 1}
  <2>1. n + 1 \in first
    BY <1>5
  <2>2. ASSUME NEW j \in first PROVE j = n + 1
    <3>1. j \in ends /\ j <= n + 1
      BY <1>5
    <3> QED BY <1>1, <1>5, <3>1
  <2> QED BY <2>1, <2>2
<1>7. SubSeq(rest, 1, (n + 1) - 1) = t
  <2>1. (n + 1) - 1 = n
    BY <1>1
  <2> DEFINE q == SubSeq(rest, 1, n)
  <2>2. q \in Seq(Bytes) /\ Len(q) = n /\ \A k \in 1..n : q[k] = rest[k]
    BY <1>1, <1>2, <1>4
  <2> HIDE DEF q
  <2>3. q = t
    BY <1>1, <1>3, <2>2, SeqEqual DEF n
  <2> QED BY <2>1, <2>3 DEF q
<1> HIDE DEF first
<1>8. {SubSeq(rest, 1, k - 1) : k \in first} = {t}
  BY <1>6, <1>7
<1>9. strcpy(b, offset) = IF ends = {} THEN {rest, Append(rest, Stray)}
                          ELSE {SubSeq(rest, 1, k - 1) : k \in first}
  BY Zenon DEF strcpy, ends, rest, first, data
<1> QED BY <1>5, <1>8, <1>9

\* A text that leaves room for a zero is what strcpy finds.
LEMMA TextsAreHeard ==
  ASSUME FInv
  PROVE  HeardAsSent
<1> DEFINE c == recving.from
           n == recving.size
           Heard == IF status[c] = "new" THEN {VALID, INVALID} ELSE {Sentence}
<1> SUFFICES ASSUME Received("text"), STRING_OFFSET + recving.total # Len(buffer.data)
             PROVE  \E text \in Heard : strcpy(Full, STRING_OFFSET) = {Text(text, n)}
  BY DEF HeardAsSent
<1>1. c # None /\ recving.field = "text" /\ recving.total >= n /\ ~Miscounted
  BY DEF Received
<1>2. /\ buffer.data \in Seq(Bytes) /\ n \in Int /\ Len(buffer.data) \in Nat
      /\ recving.total = Following(n) /\ Following(n) \in Nat
      /\ Done <= Len(buffer.data)
  BY <1>1, StreamByParts DEF Following
<1>3. /\ buffer.next = STRING_OFFSET /\ ExpectedFlag(c) # CANVAS
      /\ \A k \in (Done + 1)..Len(buffer.data) : buffer.data[k] = Zero
  BY <1>1 DEF FInv, Busy, InField
<1>4. Done = STRING_OFFSET + Following(n) /\ STRING_OFFSET \in Nat
  BY <1>1, <1>2, <1>3, FlagsDiffer DEF Done, STRING_OFFSET, INT_OFFSET
<1>5. PICK m \in FromClient :
        /\ Len(m) = Done
        /\ \A k \in 1..Done : buffer.data[k] = m[k]
        /\ m[1].value = ExpectedFlag(c)
  BY MessageReceived
<1> DEFINE l == m[INT_OFFSET + 1].value
<1>6. /\ Len(m) = STRING_OFFSET + Following(l) /\ l \in Int
      /\ \E x \in TextsOf(ExpectedFlag(c)) :
           \A k \in 1..l : m[STRING_OFFSET + k] = Text(x, l)[k]
  BY <1>3, <1>5, MessagesHaveShape DEF IsMessage
<1> HIDE DEF l
<1>7. Following(l) = Following(n) /\ 1..l = 1..Following(n) /\ 1..n = 1..Following(n)
  BY <1>2, <1>4, <1>5, <1>6 DEF Following
<1>8. TextsOf(ExpectedFlag(c)) = Heard /\ Heard \subseteq Int
  BY <1>3, FlagsDiffer DEF ExpectedFlag, TextsOf, VALID, INVALID, Sentence
<1> HIDE DEF Heard
<1>15. PICK which \in Heard : \A k \in 1..l : m[STRING_OFFSET + k] = Text(which, l)[k]
  BY <1>6, <1>8
<1> DEFINE t == Text(which, n)
<1>16. Text(which, l) = t
  BY <1>7 DEF Text, Parts
<1>9. t \in Seq(Bytes) /\ Len(t) = Following(n)
  BY <1>2, <1>8, TextsAreSeqs DEF Following
<1>10. ASSUME NEW k \in 1..Following(n) PROVE t[k] # Zero
  <2>1. t[k] = [kind |-> "char", value |-> which, part |-> k]
    BY <1>2, <1>7, <1>8, TextsAreSeqs
  <2>2. t[k].kind = "char" /\ Zero.kind = "zero"
    BY <2>1 DEF Zero
  <2> QED BY <2>2
<1> HIDE DEF t
<1>11. ASSUME NEW k \in 1..Following(n) PROVE buffer.data[STRING_OFFSET + k] = t[k]
  <2>1. STRING_OFFSET + k \in 1..Done
    BY <1>2, <1>4
  <2> QED BY <1>5, <1>7, <1>15, <1>16, <2>1
<1>12. /\ STRING_OFFSET + Following(n) < Len(buffer.data)
       /\ buffer.data[STRING_OFFSET + Following(n) + 1] = Zero
  <2>1. STRING_OFFSET + Following(n) + 1 \in (Done + 1)..Len(buffer.data)
    BY <1>2, <1>3, <1>4
  <2> QED BY <1>2, <1>3, <1>4, <2>1
<1>13. Full.data = buffer.data
  BY DEF Full, Advanced, FInv, IInv, ReceivesFit, IsBuffer
<1>14. strcpy(Full, STRING_OFFSET) = {t}
  <2> HIDE DEF n, c
  <2>1. HasText(Full, STRING_OFFSET, t)
    BY <1>2, <1>4, <1>9, <1>10, <1>11, <1>12, <1>13 DEF HasText
  <2> QED BY <2>1, TextIsFound, Zenon
<1> QED BY <1>14 DEF t

\* A name and a guess are heard as they were sent, in whatever pieces they came and
\* whatever the buffer held before; only a text that fills the memory to its last byte
\* has no zero behind it.
THEOREM TextsAreHeardAsSent == Spec => []HeardAsSent
<1>1. FInv => HeardAsSent
  BY TextsAreHeard
<1> QED BY <1>1, StreamsStart, StepKeepsStreams, PTL DEF Spec

-----------------------------------------------------------------------------
(* Which clients lose their connection *)

Conns == [Clients -> {"away", "new", "in"}]

\* Only c goes away.
OnlyLoses(c) ==
  /\ status' \in Conns
  /\ \A d \in Clients \ {c} : status'[d] = status[d]

\* Nobody goes away.
LosesNobody ==
  /\ status' \in Conns
  /\ \A d \in Clients : status[d] # "away" => status'[d] # "away"

LEMMA CloseLosesOne ==
  ASSUME status \in Conns, NEW c, Close(c)
  PROVE  OnlyLoses(c)
BY DEF Conns, Close, OnlyLoses

LEMMA GiveUpLosesOne ==
  ASSUME status \in Conns, NEW c, GiveUp(c)
  PROVE  OnlyLoses(c)
<1>1. Close(c)
  BY DEF GiveUp, RemovePlayer
<1> QED BY <1>1, CloseLosesOne

LEMMA UnchangedLosesNobody ==
  ASSUME status \in Conns, UNCHANGED status
  PROVE  LosesNobody
BY DEF LosesNobody

\* A length that is too long for its field is too long for a regular message.
LEMMA TooLongIsIrregular ==
  ASSUME NEW c, NEW n \in Int, TooLong(ExpectedFlag(c), n)
  PROVE  /\ ExpectedFlag(c) # CANVAS
         /\ ~(n <= IF status[c] = "new" THEN MAX_USERNAME_LEN ELSE MAX_GUESS_LEN)
<1>1. CASE status[c] = "new"
  BY <1>1, WireAssumption DEF ExpectedFlag, TooLong, LOGIN, CHAT, CANVAS
<1>2. CASE status[c] # "new"
  BY <1>2, WireAssumption DEF ExpectedFlag, TooLong, LOGIN, CHAT, CANVAS
<1> QED BY <1>1, <1>2

\* What strcpy finds is in the buffer, or a stray character behind it.
LEMMA FoundInBuffer ==
  ASSUME NEW b, b.data \in Seq(Bytes), NEW offset \in Nat, NEW text \in strcpy(b, offset),
         NEW k \in 1..Len(text)
  PROVE  text[k] = Stray \/ text[k] = b.data[offset + k]
<1> DEFINE data == b.data
           rest == SubSeq(data, offset + 1, Len(data))
           ends == {j \in 1..Len(rest) : rest[j] = Zero}
<1>1. rest \in Seq(Bytes) /\ \A j \in 1..Len(rest) : rest[j] = data[offset + j]
  <2> HIDE DEF data
  <2>1. data \in Seq(Bytes)
    BY DEF data
  <2> QED BY <2>1
<1>2. \/ text = rest \/ text = Append(rest, Stray)
      \/ \E j \in 1..Len(rest) : text = SubSeq(rest, 1, j - 1)
  BY DEF strcpy
<1> HIDE DEF data, ends
<1>6. ASSUME NEW r \in Seq(Bytes), \A j \in 1..Len(r) : r[j] = data[offset + j],
             \/ text = r \/ text = Append(r, Stray)
             \/ \E j \in 1..Len(r) : text = SubSeq(r, 1, j - 1)
      PROVE  text[k] = Stray \/ text[k] = data[offset + k]
  <2>1. CASE text = r
    BY <1>6, <2>1
  <2>2. CASE text = Append(r, Stray)
    <3>1. Len(text) = Len(r) + 1 /\ text[Len(r) + 1] = Stray
          /\ \A j \in 1..Len(r) : text[j] = r[j]
      BY <1>6, <2>2
    <3>2. Len(r) \in Nat /\ (k \in 1..Len(r) \/ k = Len(r) + 1)
      BY <1>6, <3>1
    <3> QED BY <1>6, <3>1, <3>2
  <2>3. ASSUME NEW j \in 1..Len(r), text = SubSeq(r, 1, j - 1)
        PROVE  text[k] = data[offset + k]
    <3>1. /\ Len(text) = j - 1
          /\ \A i \in 1..(j - 1) : text[i] = r[i]
      BY <1>6, <2>3
    <3>2. k \in 1..(j - 1) /\ k \in 1..Len(r)
      BY <1>6, <3>1
    <3> QED BY <1>6, <3>1, <3>2
  <2> QED BY <1>6, <2>1, <2>2, <2>3
<1>7. text[k] = Stray \/ text[k] = data[offset + k]
  <2> HIDE DEF rest
  <2> QED BY <1>1, <1>2, <1>6
<1> QED BY <1>7 DEF data

\* A username that is not let pass has an invalid character, or fills the buffer.
LEMMA InvalidIsIrregular ==
  ASSUME FInv, InvalidUsername
  PROVE  ~Regular(recving.from)
<1> DEFINE c == recving.from
           n == recving.size
<1>1. Received("text") /\ recving.field = "text" /\ status[c] = "new" /\ c # None
  BY DEF InvalidUsername, Received
<1>2. SUFFICES ASSUME n > 0, recving.total = n, STRING_OFFSET + n # Len(buffer.data),
                      \A k \in 1..n : buffer.data[STRING_OFFSET + k].value # INVALID
               PROVE  FALSE
  BY <1>1, Zenon DEF Regular
<1>3. PICK which \in {VALID, INVALID} : strcpy(Full, STRING_OFFSET) = {Text(which, n)}
  BY <1>1, <1>2, TextsAreHeard DEF HeardAsSent
<1>4. n \in Nat /\ which \in Int
  BY <1>1, <1>2, StreamByParts DEF VALID, INVALID
<1> DEFINE t == Text(which, n)
<1>15. ASSUME NEW w \in Int, NEW m \in Nat
      PROVE  /\ Len(Text(w, m)) = m
             /\ \A k \in 1..m : Text(w, m)[k] = [kind |-> "char", value |-> w, part |-> k]
  BY TextsAreSeqs
<1>5. Len(t) = n
  <2> HIDE DEF n
  <2> QED BY <1>4, <1>15
<1>6. \A k \in 1..n : t[k] = [kind |-> "char", value |-> which, part |-> k]
  <2> HIDE DEF n
  <2> QED BY <1>4, <1>15
<1> HIDE DEF t
<1>7. MayNotPass(t)
  BY <1>3 DEF InvalidUsername, t
<1>8. PICK k \in 1..n : t[k].value = INVALID \/ t[k] = Stray
  BY <1>5, <1>7 DEF MayNotPass
<1>9. t[k] # Stray
  <2>2. Stray.part = 0
    BY DEF Stray
  <2>1. t[k].part = k /\ Stray.part = 0 /\ k # 0
    <3>1. t[k] = [kind |-> "char", value |-> which, part |-> k]
      BY <1>6
    <3>2. t[k].part = k
      BY <3>1
    <3>3. k # 0
      BY <1>4
    <3> QED BY <2>2, <3>2, <3>3
  <2> QED BY <2>1
<1>10. t[k] = Full.data[STRING_OFFSET + k]
  <2>1. Full.data = buffer.data /\ buffer.data \in Seq(Bytes)
    BY DEF Full, Advanced, FInv, IInv, ReceivesFit, IsBuffer
  <2>2. STRING_OFFSET \in Nat
    BY FlagsDiffer DEF STRING_OFFSET, INT_OFFSET
  <2>3. t \in strcpy(Full, STRING_OFFSET) /\ k \in 1..Len(t)
    BY <1>3, <1>5 DEF t
  <2> QED BY <1>9, <2>1, <2>2, <2>3, FoundInBuffer
<1>11. Full.data = buffer.data
  BY DEF Full, Advanced, FInv, IInv, ReceivesFit, IsBuffer
<1> QED BY <1>2, <1>8, <1>9, <1>10, <1>11

\* Each step loses nobody, or who could not be sent to, or whose message is irregular.
LEMMA StepLosesFew ==
  ASSUME FInv, status \in Conns, [Next]_vars
  PROVE  \/ LosesNobody
         \/ OnlyLoses(sending.to) /\ sending.to \in Clients
         \/ /\ OnlyLoses(recving.from) /\ recving.from \in Clients
            /\ ~Regular(recving.from)
<1> DEFINE c == recving.from
           Reason == \/ LosesNobody
                     \/ OnlyLoses(sending.to) /\ sending.to \in Clients
                     \/ OnlyLoses(c) /\ c \in Clients /\ ~Regular(c)
<1> SUFFICES Reason
  OBVIOUS
<1>1. IsRecving /\ (c # None => c \in Clients)
  BY DEF FInv, IInv, IsRecving
<1>2. CASE UNCHANGED status
  BY <1>2, UnchangedLosesNobody
<1>3. CASE RecvFails
  <2>1. recving.size \in Int /\ recving.total \in Nat
    BY <1>1 DEF IsRecving
  <2>2. ~Regular(c)
    BY <1>3, <2>1 DEF RecvFails, Regular, Miscounted
  <2> QED BY <1>1, <1>3, <2>2, GiveUpLosesOne DEF RecvFails
<1>15. CASE InvalidUsername
  <2>1. /\ Received("text") /\ status[c] = "new" /\ GiveUp(c)
        /\ c # None /\ recving.field = "text"
    BY <1>15 DEF InvalidUsername, Received
  <2>2. ~Regular(c)
    BY <1>15, <2>1, InvalidIsIrregular
  <2> QED BY <1>1, <2>1, <2>2, GiveUpLosesOne
<1>4. CASE GotHeader
  <2>1. CASE UNCHANGED conn
    BY <1>2, <2>1 DEF conn
  <2>2. CASE buffer.data[1].value # ExpectedFlag(c) /\ GiveUp(c)
    <3>1. ~Regular(c)
      BY <2>2, Zenon DEF Regular
    <3> QED BY <1>1, <1>4, <2>2, <3>1, GiveUpLosesOne DEF GotHeader, Received
  <2> QED BY <1>4, <2>1, <2>2, Zenon DEF GotHeader
<1>5. CASE GotInt
  <2> DEFINE n == unpack_int_var(buffer, INT_OFFSET)
  <2>1. CASE UNCHANGED conn
    BY <1>2, <2>1 DEF conn
  <2>2. CASE TooLong(ExpectedFlag(c), n) /\ GiveUp(c)
    <3>1. recving.field = "int" /\ c # None
      BY <1>5 DEF GotInt, Received
    <3>2. n \in Int
      BY <1>5, LengthIsInt DEF GotInt, FInv
    <3>3. /\ ExpectedFlag(c) # CANVAS
          /\ ~(n <= IF status[c] = "new" THEN MAX_USERNAME_LEN ELSE MAX_GUESS_LEN)
      BY <2>2, <3>2, TooLongIsIrregular, Zenon
    <3>4. ~Regular(c)
      BY <3>1, <3>3, Zenon DEF Regular
    <3> QED BY <1>1, <2>2, <3>1, <3>4, GiveUpLosesOne
  <2> QED BY <1>5, <2>1, <2>2, Zenon DEF GotInt
<1>6. CASE LoggedIn
  <2>1. status' = [status EXCEPT ![c] = "in"] \/ UNCHANGED status
    BY <1>6, Zenon DEF LoggedIn
  <2> QED BY <1>2, <2>1 DEF LosesNobody, Conns
<1>7. CASE Drawn
  <2>1. CASE UNCHANGED conn
    BY <1>2, <2>1 DEF conn
  <2>2. CASE ~OnCanvas /\ GiveUp(c)
    <3>1. recving.field = "diffs" /\ c # None
      BY <1>7 DEF Drawn, Received
    <3>2. ~Regular(c)
      BY <2>2, <3>1, Zenon DEF Regular
    <3> QED BY <1>1, <2>2, <3>1, <3>2, GiveUpLosesOne
  <2> QED BY <1>7, <2>1, <2>2, Zenon DEF Drawn
<1>8. ASSUME Close(sending.to), sending.to # None PROVE Reason
  <2>1. OnlyLoses(sending.to)
    BY <1>8, CloseLosesOne
  <2>2. CASE sending.to \in Clients
    BY <2>1, <2>2
  <2>3. CASE sending.to \notin Clients
    BY <2>1, <2>3 DEF OnlyLoses, LosesNobody
  <2> QED BY <2>2, <2>3
<1>9. CASE Send
  BY <1>2, <1>8, <1>9, Zenon DEF Send
<1>10. CASE SendFails
  BY <1>2, <1>8, <1>10, Zenon DEF SendFails, RemovePlayer
<1>11. ASSUME NEW d \in Clients, Accept(d) PROVE Reason
  <2>1. status' = [status EXCEPT ![d] = "new"]
    BY <1>11, Zenon DEF Accept
  <2> QED BY <2>1 DEF LosesNobody, Conns
<1>12. CASE Recv \/ Guessed \/ NextReceiver \/ Notify
  BY <1>2, <1>12, Zenon DEF Recv, Guessed, NextReceiver, Notify, conn
<1>13. ASSUME NEW d \in Clients, Write(d) \/ Action(d) PROVE Reason
  BY <1>2, <1>13, Zenon DEF Write, Action, conn
<1>14. CASE UNCHANGED vars
  BY <1>2, <1>14 DEF vars
<1> HIDE DEF Reason
<1> QED BY <1>3, <1>4, <1>5, <1>6, <1>7, <1>9, <1>10, <1>11, <1>12, <1>13, <1>14, <1>15, Zenon
        DEF Next, Handler

\* A client whose message is in its turn, complete in time, neither empty nor too long,
\* within the canvas and, when it logs in, without a character a username may not have and
\* short of filling the buffer to its last byte, loses its connection only to a send that
\* fails or, when it logs in, to the answer that refuses it: for all sizes and lengths,
\* and wherever the transfers are cut.
THEOREM RegularClientsAreKept == Spec => KeptIfRegular
<1> DEFINE CInv == FInv /\ status \in Conns
<1>1. Init => CInv
  <2>1. Init => status \in Conns
    BY DEF Init, Conns
  <2> QED BY <2>1, StreamsStart
<1>2. CInv /\ [Next]_vars => CInv'
  <2>1. CInv /\ [Next]_vars => status' \in Conns
    BY StepLosesFew DEF LosesNobody, OnlyLoses
  <2> QED BY <2>1, StepKeepsStreams
<1>3. CInv /\ [Next]_vars =>
        [\A c \in Clients :
           status[c] # "away" /\ status'[c] = "away" =>
             sending.to = c \/ (recving.from = c /\ ~Regular(c))]_vars
  BY StepLosesFew, Zenon DEF LosesNobody, OnlyLoses
<1> HIDE DEF CInv
<1> QED BY <1>1, <1>2, <1>3, PTL DEF Spec, KeptIfRegular
-----------------------------------------------------------------------------
(* What a client waits for *)

\* What a client may wait for, and its sequences.
Waits == {"int", "char", "byte", "time", "canvas", "round_end", "STR", "DIFFS", "PLAYERS",
          "misled", "confused"}
Wants == Seq(Waits)

\* So many of one kind.
LEMMA AllAreWants ==
  ASSUME NEW kind \in Waits, NEW n \in Int
  PROVE  /\ All(kind, n) \in Wants
         /\ n \in Nat => Len(All(kind, n)) = n /\ \A k \in 1..n : All(kind, n)[k] = kind
         /\ n <= 0 => All(kind, n) = <<>>
<1>1. CASE n \in Nat
  BY <1>1 DEF All, Wants
<1>2. CASE n \notin Nat
  <2>1. \A k \in 1..n : FALSE
    BY <1>2
  <2>2. All(kind, n) = <<>>
    BY <2>1 DEF All
  <2> QED BY <1>2, <2>2 DEF Wants
<1> QED BY <1>1, <1>2

LEMMA IntsAreWants ==
  ASSUME NEW n \in Int
  PROVE  Ints(n) \in Wants /\ Ints(n) = All("int", n * INT_BYTES)
<1>1. n * INT_BYTES \in Int
  BY BufferAssumption
<1>2. Ints(n) = All("int", n * INT_BYTES)
  BY DEF Ints, All
<1>3. "int" \in Waits
  BY DEF Waits
<1> QED BY <1>1, <1>2, <1>3, AllAreWants

LEMMA PlayerIsWant ==
  /\ String \in Wants /\ Player \in Wants
  /\ String = Ints(1) \o <<"STR">> /\ Player = String \o <<"byte">>
<1>1. Ints(1) \in Wants
  BY IntsAreWants
<1>2. "STR" \in Waits /\ "byte" \in Waits
  BY DEF Waits
<1>3. String \in Wants /\ String = Ints(1) \o <<"STR">>
  BY <1>1, <1>2 DEF String, Wants
<1>4. Player \in Wants /\ Player = String \o <<"byte">>
  BY <1>2, <1>3 DEF Player, Wants
<1> QED BY <1>3, <1>4

\* Arrays.
LEMMA ItemsAreWants ==
  ASSUME NEW array \in Arrays, NEW n \in Int
  PROVE  /\ Items(array, n) \in Wants
         /\ array = "STR" => Items(array, n) = All("char", n)
         /\ array = "DIFFS" => Items(array, n) = Ints(n)
         /\ array = "PLAYERS" => Items(array, n) = Repeated(Player, n)
<1>1. array = "STR" => Items(array, n) = All("char", n)
  BY DEF Items
<1>2. array = "DIFFS" => Items(array, n) = Ints(n)
  BY DEF Items
<1>3. array = "PLAYERS" => Items(array, n) = Repeated(Player, n)
  BY DEF Items, Repeated
<1>4. Repeated(Player, n) \in Wants
  <2>1. CASE n \in Nat
    BY <2>1, PlayerIsWant, RepeatedFirst DEF Wants
  <2>2. CASE n \notin Nat
    <3> DEFINE none == [k \in 1..n |-> Player]
    <3>1. none = <<>> /\ Len(none) = 0
      <4>1. \A k \in 1..n : FALSE
        BY <2>2
      <4>2. none = <<>>
        BY <4>1
      <4> QED BY <4>2
    <3> HIDE DEF none
    <3>2. FlattenSeq(none) = <<>>
      BY <3>1, Zenon DEF FlattenSeq
    <3>3. Repeated(Player, n) = <<>>
      BY <3>2 DEF Repeated, none
    <3> QED BY <3>3 DEF Wants
  <2> QED BY <2>1, <2>2
<1>5. All("char", n) \in Wants
  BY AllAreWants DEF Waits
<1> QED BY <1>1, <1>2, <1>3, <1>4, <1>5, IntsAreWants DEF Arrays

\* The flags are different numbers.
LEMMA RowsOfFlags ==
  /\ Row(CHAT) = String
  /\ Row(CORRECT_GUESS_ANNOUNCEMENT) = String
  /\ Row(CANVAS) = Ints(1) \o <<"DIFFS">>
  /\ Row(START_AND_GUESS) = All("time", TIME_BYTES)
  /\ Row(START_AND_DRAW) = String \o All("time", TIME_BYTES)
  /\ Row(GAME_IN_PROGRESS) = All("round_end", TIME_BYTES)
  /\ Row(WAITING_FOR_PLAYERS) = Ints(2)
  /\ Row(PLAYER_LIST) = Ints(1) \o <<"PLAYERS">>
  /\ Row(PLAYER_LIST_CHANGE) = Player
  /\ \A flag \in {OK, CORRECT_GUESS, WRONG_GUESS, INVALID_USERNAME, SERVER_ERROR, SERVER_FULL,
                  GAME_ENDS} : Row(flag) = <<>>
<1>1. Ints(1) \in Wants
  BY IntsAreWants
<1>2. /\ Append(Ints(1), "DIFFS") = Ints(1) \o <<"DIFFS">>
      /\ Append(Ints(1), "PLAYERS") = Ints(1) \o <<"PLAYERS">>
  BY <1>1 DEF Wants, Waits
<1> USE DEF OK, CANVAS, CHAT, START_AND_GUESS, START_AND_DRAW, LOGIN, CORRECT_GUESS, WRONG_GUESS,
            CORRECT_GUESS_ANNOUNCEMENT, INVALID_USERNAME, WAITING_FOR_PLAYERS, GAME_ENDS,
            GAME_IN_PROGRESS, SERVER_ERROR, PLAYER_LIST, PLAYER_LIST_CHANGE, SERVER_FULL, HEART_BEAT
<1>3. Row(CHAT) = String /\ Row(CORRECT_GUESS_ANNOUNCEMENT) = String
  BY DEF Row
<1>4. /\ Row(CANVAS) = Append(Ints(1), "DIFFS")
      /\ Row(START_AND_GUESS) = All("time", TIME_BYTES)
  BY DEF Row
<1>5. /\ Row(START_AND_DRAW) = String \o All("time", TIME_BYTES)
      /\ Row(GAME_IN_PROGRESS) = All("round_end", TIME_BYTES)
  BY DEF Row
<1>6. /\ Row(WAITING_FOR_PLAYERS) = Ints(2)
      /\ Row(PLAYER_LIST) = Append(Ints(1), "PLAYERS")
      /\ Row(PLAYER_LIST_CHANGE) = Player
  BY DEF Row
<1>7. \A flag \in {OK, CORRECT_GUESS, WRONG_GUESS, INVALID_USERNAME, SERVER_ERROR, SERVER_FULL,
                  GAME_ENDS} : Row(flag) = <<>>
  BY DEF Row
<1> QED BY <1>2, <1>3, <1>4, <1>5, <1>6, <1>7

\* What follows a header, whatever its flag.
LEMMA RowIsWant ==
  ASSUME NEW flag
  PROVE  Row(flag) \in Wants
<1>1. /\ All("time", TIME_BYTES) \in Wants /\ All("round_end", TIME_BYTES) \in Wants
  BY BufferAssumption, AllAreWants DEF Waits
<1>2. Ints(1) \in Wants /\ Ints(2) \in Wants
  BY IntsAreWants
<1>3. String \in Wants /\ Player \in Wants
  BY PlayerIsWant
<1>4. /\ Append(Ints(1), "DIFFS") \in Wants /\ Append(Ints(1), "PLAYERS") \in Wants
      /\ <<>> \in Wants
  BY <1>2 DEF Wants, Waits
<1>5. String \o All("time", TIME_BYTES) \in Wants
  BY <1>1, <1>3 DEF Wants
<1> QED BY <1>1, <1>2, <1>3, <1>4, <1>5, Zenon DEF Row

\* After a byte the client waits for something again.
LEMMA HearsToWant ==
  ASSUME NEW w \in Wants, NEW b \in Bytes
  PROVE  Hear(w, b) \in Wants
<1>1. Row(b.value) \in Wants /\ Confused \in Wants /\ Misled \in Wants
  BY RowIsWant DEF Confused, Misled, Wants, Waits
<1>2. w # <<>> => Tail(w) \in Wants
  BY <1>1 DEF Wants
<1>3. Len(w) > 1 /\ w[2] \in Arrays => Items(w[2], b.value) \o SubSeq(w, 3, Len(w)) \in Wants
  <2> SUFFICES ASSUME Len(w) > 1, w[2] \in Arrays
               PROVE  Items(w[2], b.value) \o SubSeq(w, 3, Len(w)) \in Wants
    OBVIOUS
  <2>1. b.value \in Int
    BY DEF Bytes
  <2>2. Items(w[2], b.value) \in Wants
    BY <2>1, ItemsAreWants
  <2>3. SubSeq(w, 3, Len(w)) \in Wants
    BY DEF Wants
  <2> QED BY <2>2, <2>3 DEF Wants
<1> QED BY <1>1, <1>2, <1>3, Zenon DEF Hear

-----------------------------------------------------------------------------
(* What a client waits for after a row of bytes, as a fold *)

\* What each byte does.
Hearings(q) == [k \in 1..Len(q) |-> [w \in Wants |-> Hear(w, q[k])]]

\* Where they lead.
LEMMA HearingsLead ==
  ASSUME NEW w \in Wants, NEW q \in Seq(Bytes)
  PROVE  /\ Hearings(q) \in Seq([Wants -> Wants]) /\ Len(Hearings(q)) = Len(q)
         /\ Through(Hearings(q), Wants, w, HearAll(w, q))
<1> DEFINE n == Len(q)
           P(g) == g = [S \in SUBSET (DOMAIN q) |->
                          IF S = {} THEN w ELSE Hear(g[S \ {Max(S)}], q[Max(S)])]
<1>1. n \in Nat /\ DOMAIN q = 1..n
  OBVIOUS
<1>2. \A x \in Wants, k \in 1..n : Hear(x, q[k]) \in Wants
  BY HearsToWant
<1>3. /\ Hearings(q) \in Seq([Wants -> Wants]) /\ Len(Hearings(q)) = n
      /\ \A k \in 1..n, x \in Wants : Hearings(q)[k][x] = Hear(x, q[k])
  BY <1>1, <1>2 DEF Hearings
<1>4. PICK h \in [SUBSET (1..n) -> Wants] : Iterates(h, Hearings(q), w, n)
  BY <1>3, IterationExists
<1>5. P(h)
  <2>1. ASSUME NEW S \in SUBSET (1..n), S # {}
        PROVE  Hearings(q)[Max(S)][h[S \ {Max(S)}]] = Hear(h[S \ {Max(S)}], q[Max(S)])
    <3>1. Max(S) \in 1..n /\ S \ {Max(S)} \in SUBSET (1..n)
      BY <1>1, <2>1, MaxIsGreatest
    <3>2. h[S \ {Max(S)}] \in Wants
      BY <3>1
    <3> QED BY <1>3, <3>1, <3>2
  <2>2. h = [S \in SUBSET (1..n) |->
               IF S = {} THEN w ELSE Hearings(q)[Max(S)][h[S \ {Max(S)}]]]
    BY <1>4 DEF Iterates
  <2> HIDE DEF n
  <2> QED BY <1>1, <2>1, <2>2
<1> DEFINE g == CHOOSE f : P(f)
<1>6. HearAll(w, q) = g[1..n]
  <2>1. HearAll(w, q) = g[DOMAIN q]
    BY Zenon DEF HearAll, FoldLeft, MapThenFoldSet
  <2> QED BY <1>1, <2>1
<1>7. P(g)
  <2> HIDE DEF P
  <2> QED BY <1>5, Zenon
<1> HIDE DEF g
<1>8. g[{}] = w
  BY <1>7
<1>9. ASSUME NEW k \in 1..n, g[1..(k - 1)] \in Wants
      PROVE  g[1..k] = Hearings(q)[k][g[1..(k - 1)]]
  <2>1. Max(1..k) = k /\ (1..k) \ {k} = 1..(k - 1) /\ 1..k # {} /\ 1..k \in SUBSET (1..n)
    BY <1>1, MaxOfRange
  <2>2. g[1..k] = Hear(g[(1..k) \ {Max(1..k)}], q[Max(1..k)])
    BY <1>1, <1>7, <2>1
  <2>3. g[1..k] = Hear(g[1..(k - 1)], q[k])
    BY <2>1, <2>2
  <2> QED BY <1>3, <1>9, <2>3
<1> HIDE DEF P
<1>10. Through(Hearings(q), Wants, w, g[1..n])
  BY <1>3, <1>8, <1>9, IterationLeads
<1> QED BY <1>3, <1>6, <1>10

\* First the bytes of a, then those of b.
LEMMA HeardInTurn ==
  ASSUME NEW w \in Wants, NEW a \in Seq(Bytes), NEW b \in Seq(Bytes)
  PROVE  /\ HearAll(w, a) \in Wants
         /\ HearAll(w, a \o b) = HearAll(HearAll(w, a), b)
<1> DEFINE both == a \o b
           u == HearAll(w, a)
<1>1. /\ both \in Seq(Bytes) /\ Len(both) = Len(a) + Len(b)
      /\ Len(a) \in Nat /\ Len(b) \in Nat
      /\ \A k \in 1..Len(a) : both[k] = a[k]
      /\ \A k \in 1..Len(b) : both[Len(a) + k] = b[k]
  OBVIOUS
<1>2. /\ Hearings(a) \in Seq([Wants -> Wants]) /\ Len(Hearings(a)) = Len(a)
      /\ Through(Hearings(a), Wants, w, u)
  BY HearingsLead
<1>3. u \in Wants
  BY <1>2 DEF Through
<1> HIDE DEF u, both
<1>4. /\ Hearings(b) \in Seq([Wants -> Wants]) /\ Len(Hearings(b)) = Len(b)
      /\ Through(Hearings(b), Wants, u, HearAll(u, b))
  BY <1>3, HearingsLead
<1>5. /\ Hearings(both) \in Seq([Wants -> Wants]) /\ Len(Hearings(both)) = Len(both)
      /\ Through(Hearings(both), Wants, w, HearAll(w, both))
  BY <1>1, HearingsLead
<1> DEFINE x == Hearings(a) \o Hearings(b)
<1>6. /\ x \in Seq([Wants -> Wants]) /\ Len(x) = Len(a) + Len(b)
      /\ \A k \in 1..Len(a) : x[k] = Hearings(a)[k]
      /\ \A k \in 1..Len(b) : x[Len(a) + k] = Hearings(b)[k]
  <2> DEFINE F == [Wants -> Wants]
             f == Hearings(a)
             g == Hearings(b)
  <2>1. f \in Seq(F) /\ g \in Seq(F) /\ Len(f) = Len(a) /\ Len(g) = Len(b) /\ x = f \o g
    BY <1>2, <1>4
  <2> HIDE DEF F, f, g, x
  <2>2. /\ f \o g \in Seq(F) /\ Len(f \o g) = Len(f) + Len(g)
        /\ \A k \in 1..Len(f) : (f \o g)[k] = f[k]
        /\ \A k \in 1..Len(g) : (f \o g)[Len(f) + k] = g[k]
    <3>1. f \in Seq(F) /\ g \in Seq(F)
      BY <2>1
    <3> QED BY <3>1
  <2>3. /\ x \in Seq(F) /\ Len(x) = Len(a) + Len(b)
        /\ \A k \in 1..Len(a) : x[k] = f[k]
        /\ \A k \in 1..Len(b) : x[Len(a) + k] = g[k]
    BY <2>1, <2>2
  <2> QED BY <2>3 DEF F, f, g
<1> HIDE DEF x
<1>7. ASSUME NEW k \in 1..Len(x) PROVE x[k] = Hearings(both)[k]
  <2>1. k \in 1..Len(both) /\ Hearings(both)[k] = [y \in Wants |-> Hear(y, both[k])]
    BY <1>1, <1>6 DEF Hearings
  <2>2. CASE k <= Len(a)
    <3>1. k \in 1..Len(a)
      BY <1>1, <1>6, <2>2
    <3>2. Hearings(a)[k] = [y \in Wants |-> Hear(y, a[k])]
      BY <3>1 DEF Hearings
    <3> QED BY <1>1, <1>6, <2>1, <3>1, <3>2
  <2>3. CASE ~(k <= Len(a))
    <3> DEFINE j == k - Len(a)
    <3>1. j \in 1..Len(b) /\ Len(a) + j = k
      BY <1>1, <1>6, <2>3
    <3> HIDE DEF j
    <3>2. Hearings(b)[j] = [y \in Wants |-> Hear(y, b[j])]
      BY <3>1 DEF Hearings
    <3>3. both[k] = b[j] /\ x[k] = Hearings(b)[j]
      BY <1>1, <1>6, <3>1
    <3> QED BY <2>1, <3>2, <3>3
  <2> QED BY <2>2, <2>3
<1>8. x = Hearings(both)
  BY <1>1, <1>5, <1>6, <1>7, SeqEqual
<1>9. Through(x, Wants, w, HearAll(u, b))
  BY <1>2, <1>4, ThroughJoined DEF x
<1>10. HearAll(w, both) = HearAll(u, b)
  BY <1>5, <1>8, <1>9, ThroughOnce
<1> QED BY <1>3, <1>10 DEF u, both

\* Nothing, and one byte.
LEMMA HeardFew ==
  ASSUME NEW w \in Wants, NEW b \in Bytes
  PROVE  HearAll(w, <<>>) = w /\ HearAll(w, <<b>>) = Hear(w, b)
<1> DEFINE none == <<>>
           one == <<b>>
<1>1. none \in Seq(Bytes) /\ one \in Seq(Bytes) /\ Len(none) = 0 /\ Len(one) = 1 /\ one[1] = b
  OBVIOUS
<1> HIDE DEF none, one
<1>2. PICK f \in [0..Len(Hearings(none)) -> Wants] :
        f[0] = w /\ f[Len(Hearings(none))] = HearAll(w, none)
  BY <1>1, HearingsLead DEF Through
<1>3. Len(Hearings(none)) = 0
  BY <1>1, HearingsLead
<1>4. PICK g \in [0..Len(Hearings(one)) -> Wants] :
        /\ g[0] = w /\ g[Len(Hearings(one))] = HearAll(w, one)
        /\ \A k \in 1..Len(Hearings(one)) : g[k] = Hearings(one)[k][g[k - 1]]
  BY <1>1, HearingsLead DEF Through
<1>5. Len(Hearings(one)) = 1
  BY <1>1, HearingsLead
<1>6. Hearings(one)[1] = [y \in Wants |-> Hear(y, one[1])]
  BY <1>1 DEF Hearings
<1>7. g[1] = Hearings(one)[1][w]
  BY <1>4, <1>5
<1>8. HearAll(w, one) = Hear(w, b)
  BY <1>1, <1>4, <1>5, <1>6, <1>7
<1> QED BY <1>2, <1>3, <1>8 DEF none, one

\* What every byte leaves as it is stays so.
LEMMA StaysForEver ==
  ASSUME NEW w \in Wants, \A b \in Bytes : Hear(w, b) = w, NEW q \in Seq(Bytes)
  PROVE  HearAll(w, q) = w
<1>3. /\ Hearings(q) \in Seq([Wants -> Wants]) /\ Len(Hearings(q)) = Len(q)
      /\ Through(Hearings(q), Wants, w, HearAll(w, q))
  BY HearingsLead
<1>4. PICK f \in [0..Len(q) -> Wants] :
        /\ f[0] = w /\ f[Len(q)] = HearAll(w, q)
        /\ \A k \in 1..Len(q) : f[k] = Hearings(q)[k][f[k - 1]]
  BY <1>3 DEF Through
<1> DEFINE S == {k \in 0..Len(q) : f[k] = w}
<1>5. Len(q) \in Nat
  OBVIOUS
<1>6. ASSUME NEW k \in 0..Len(q), \A m \in 0..(k - 1) : m \in S PROVE k \in S
  <2>1. CASE k = 0
    BY <1>4, <2>1
  <2>2. CASE k # 0
    <3>1. k \in 1..Len(q) /\ k - 1 \in 0..(k - 1)
      BY <2>2
    <3>2. f[k - 1] = w
      BY <1>6, <3>1
    <3>3. Hearings(q)[k] = [y \in Wants |-> Hear(y, q[k])] /\ q[k] \in Bytes
      BY <3>1 DEF Hearings
    <3>4. Hearings(q)[k][w] = w
      BY <3>3
    <3> QED BY <1>4, <3>1, <3>2, <3>4
  <2> QED BY <2>1, <2>2
<1> HIDE DEF S
<1>7. \A k \in 0..Len(q) : k \in S
  BY <1>5, <1>6, UpTo
<1>8. Len(q) \in S
  BY <1>5, <1>7
<1> QED BY <1>4, <1>8 DEF S

\* Whoever is confused, or misled, stays so.
LEMMA ConfusedForEver ==
  ASSUME NEW q \in Seq(Bytes)
  PROVE  HearAll(Confused, q) = Confused
<1>1. Confused \in Wants
  BY DEF Confused, Wants, Waits
<1>2. ASSUME NEW b \in Bytes PROVE Hear(Confused, b) = Confused
  <2>1. Confused # <<>> /\ Head(Confused) = "confused" /\ Head(Misled) = "misled"
    BY DEF Confused, Misled
  <2>2. b.kind \in Kinds /\ b.kind # "confused"
    BY DEF Bytes, Kinds
  <2>3. Confused # Misled /\ Head(Confused) # "round_end"
    BY <2>1
  <2> QED BY <2>1, <2>2, <2>3 DEF Hear
<1> QED BY <1>1, <1>2, StaysForEver

LEMMA MisledForEver ==
  ASSUME NEW q \in Seq(Bytes)
  PROVE  HearAll(Misled, q) = Misled
<1>1. Misled \in Wants
  BY DEF Misled, Wants, Waits
<1>2. ASSUME NEW b \in Bytes PROVE Hear(Misled, b) = Misled
  <2>1. Misled # <<>>
    BY DEF Misled
  <2> QED BY <2>1 DEF Hear
<1> QED BY <1>1, <1>2, StaysForEver

-----------------------------------------------------------------------------
(* A field as the client reads it *)

\* What is left to wait for behind a field whose last byte has the value v: an array gets
\* its length.
Continued(rest, v) ==
  IF rest # <<>> /\ rest[1] \in Arrays THEN Items(rest[1], v) \o Tail(rest) ELSE rest

Plain == {"int", "char", "byte", "time", "canvas"}

\* One byte of a field is heard.
LEMMA ByteHeard ==
  ASSUME NEW kind \in Plain, NEW b \in Bytes, b.kind = kind, NEW rest \in Wants
  PROVE  /\ <<kind>> \o rest \in Wants
         /\ Hear(<<kind>> \o rest, b) = Continued(rest, b.value)
         /\ Continued(rest, b.value) \in Wants
<1> DEFINE w == <<kind>> \o rest
<1>1. /\ w \in Wants /\ w # <<>> /\ Head(w) = kind /\ Tail(w) = rest /\ Len(w) = 1 + Len(rest)
      /\ Len(rest) \in Nat
  BY DEF Wants, Waits, Plain
<1>2. rest # <<>> => w[2] = rest[1] /\ SubSeq(w, 3, Len(w)) = Tail(rest) /\ Len(w) > 1
  <2> SUFFICES ASSUME rest # <<>>
               PROVE  w[2] = rest[1] /\ SubSeq(w, 3, Len(w)) = Tail(rest) /\ Len(w) > 1
    OBVIOUS
  <2>1. Len(rest) >= 1
    BY DEF Wants
  <2>2. w[2] = rest[1]
    BY <2>1 DEF Wants
  <2>3. SubSeq(w, 3, Len(w)) = Tail(rest)
    <3> DEFINE a == SubSeq(w, 3, Len(w))
               t == Tail(rest)
    <3>1. a \in Wants /\ t \in Wants /\ Len(a) = Len(rest) - 1 /\ Len(t) = Len(rest) - 1
      BY <1>1, <2>1 DEF Wants
    <3>2. ASSUME NEW k \in 1..Len(a) PROVE a[k] = t[k]
      BY <1>1, <2>1, <3>1 DEF Wants
    <3> HIDE DEF a, t
    <3>3. a = t
      BY <3>1, <3>2, SeqEqual DEF Wants
    <3> QED BY <3>3 DEF a, t
  <2> QED BY <1>1, <2>1, <2>2, <2>3
<1>3. rest = <<>> => ~(Len(w) > 1)
  BY <1>1
<1>4. kind # "round_end" /\ w # Misled
  <2>1. kind # "round_end" /\ kind # "misled" /\ Head(Misled) = "misled"
    BY DEF Plain, Misled
  <2> QED BY <1>1, <2>1
<1> HIDE DEF w
<1>5. Hear(w, b) = Continued(rest, b.value)
  <2>1. CASE rest # <<>> /\ rest[1] \in Arrays
    BY <1>1, <1>2, <1>4, <2>1 DEF Hear, Continued
  <2>2. CASE ~(rest # <<>> /\ rest[1] \in Arrays)
    BY <1>1, <1>2, <1>3, <1>4, <2>2 DEF Hear, Continued
  <2> QED BY <2>1, <2>2
<1>6. Hear(w, b) \in Wants
  BY <1>1, HearsToWant
<1> QED BY <1>1, <1>5, <1>6 DEF w

\* One of a kind, then the others.
LEMMA AllFirst ==
  ASSUME NEW kind \in Waits, NEW n \in Nat
  PROVE  /\ All(kind, 0) = <<>>
         /\ All(kind, n + 1) = <<kind>> \o All(kind, n)
<1>1. All(kind, 0) = <<>>
  BY AllAreWants
<1> DEFINE a == All(kind, n + 1)
           r == All(kind, n)
<1>2. /\ a \in Seq(Waits) /\ Len(a) = n + 1 /\ \A k \in 1..(n + 1) : a[k] = kind
      /\ r \in Seq(Waits) /\ Len(r) = n /\ \A k \in 1..n : r[k] = kind
  BY AllAreWants DEF Wants
<1> HIDE DEF a, r
<1> DEFINE s == <<kind>> \o r
<1>3. s \in Seq(Waits) /\ Len(s) = n + 1 /\ \A k \in 1..(n + 1) : s[k] = kind
  BY <1>2
<1> HIDE DEF s
<1>4. a = s
  BY <1>2, <1>3, SeqEqual
<1> QED BY <1>1, <1>4 DEF a, r, s

\* The bytes of a field, one after the other.
LEMMA FieldHeard ==
  ASSUME NEW kind \in Plain, NEW n \in Nat, NEW rest \in Wants,
         NEW t \in Seq(Bytes), Len(t) = n + 1, \A k \in 1..Len(t) : t[k].kind = kind
  PROVE  /\ All(kind, n + 1) \o rest \in Wants
         /\ HearAll(All(kind, n + 1) \o rest, t) = Continued(rest, t[n + 1].value)
<1> DEFINE IsField(u, j) == /\ u \in Seq(Bytes) /\ Len(u) = j + 1
                            /\ \A k \in 1..Len(u) : u[k].kind = kind
           S == {j \in 0..n : \A u : IsField(u, j) =>
                   HearAll(All(kind, j + 1) \o rest, u) = Continued(rest, u[j + 1].value)}
<1>1. kind \in Waits
  BY DEF Plain, Waits
<1>2. ASSUME NEW j \in Nat
      PROVE  /\ All(kind, j) \o rest \in Wants
             /\ All(kind, j + 1) \o rest = <<kind>> \o (All(kind, j) \o rest)
  <2>1. All(kind, j) \in Seq(Waits)
    BY <1>1, AllAreWants DEF Wants
  <2>2. <<kind>> \in Seq(Waits)
    BY <1>1
  <2>3. rest \in Seq(Waits)
    BY DEF Wants
  <2>4. (<<kind>> \o All(kind, j)) \o rest = <<kind>> \o (All(kind, j) \o rest)
    BY <2>1, <2>2, <2>3, Regrouped
  <2>5. All(kind, j) \o rest \in Seq(Waits)
    BY <2>1, <2>3, Regrouped
  <2>6. All(kind, j + 1) = <<kind>> \o All(kind, j)
    BY <1>1, AllFirst
  <2>7. All(kind, j + 1) \o rest = <<kind>> \o (All(kind, j) \o rest)
    BY <2>4, <2>6, Zenon
  <2> QED BY <2>5, <2>7, Zenon DEF Wants
<1>3. ASSUME NEW j \in 0..n, \A m \in 0..(j - 1) : m \in S PROVE j \in S
  <2> SUFFICES ASSUME NEW u, IsField(u, j)
               PROVE  HearAll(All(kind, j + 1) \o rest, u) = Continued(rest, u[j + 1].value)
    OBVIOUS
  <2> DEFINE w == All(kind, j) \o rest
  <2>1. w \in Wants /\ All(kind, j + 1) \o rest = <<kind>> \o w
    <3>1. j \in Nat
      OBVIOUS
    <3> QED BY <1>2, <3>1, Zenon
  <2>2. u[1] \in Bytes /\ u[1].kind = kind
    OBVIOUS
  <2> HIDE DEF w
  <2>3. /\ <<kind>> \o w \in Wants
        /\ Hear(<<kind>> \o w, u[1]) = Continued(w, u[1].value)
    BY <2>1, <2>2, ByteHeard
  <2>4. HearAll(<<kind>> \o w, <<u[1]>>) = Continued(w, u[1].value)
    BY <2>2, <2>3, HeardFew
  <2>5. CASE j = 0
    <3>1. u = <<u[1]>>
      BY <2>5, OneElement
    <3>2. w = rest
      <4>1. All(kind, 0) = <<>>
        BY <1>1, AllFirst
      <4>2. <<>> \o rest = rest
        BY DEF Wants
      <4> QED BY <2>5, <4>1, <4>2 DEF w
    <3>3. u[j + 1] = u[1]
      BY <2>5
    <3> QED BY <2>1, <2>4, <3>1, <3>2, <3>3
  <2>6. CASE j # 0
    <3> DEFINE i == j - 1
               v == Tail(u)
    <3>1. i \in 0..(j - 1) /\ i \in 0..n /\ i \in Nat /\ i + 1 = j
      BY <2>6
    <3>2. /\ v \in Seq(Bytes) /\ Len(v) = i + 1 /\ \A k \in 1..Len(v) : v[k].kind = kind
          /\ v[i + 1] = u[j + 1] /\ u = <<u[1]>> \o v
      <4>1. u # <<>> /\ Len(u) = j + 1 /\ j \in Nat \ {0}
        BY <2>6
      <4>2. v \in Seq(Bytes) /\ Len(v) = j /\ \A k \in 1..j : v[k] = u[k + 1]
        BY <4>1
      <4>5. u = <<u[1]>> \o v
        BY <4>1, FirstAndRest
      <4>6. \A k \in 1..Len(v) : v[k].kind = kind
        <5> SUFFICES ASSUME NEW k \in 1..j PROVE v[k].kind = kind
          BY <4>2
        <5>1. k + 1 \in 1..Len(u)
          BY <4>1
        <5> QED BY <4>2, <5>1
      <4> QED BY <3>1, <4>1, <4>2, <4>5, <4>6
    <3> HIDE DEF i, v
    <3>3. All(kind, i) \o rest \in Wants /\ w = <<kind>> \o (All(kind, i) \o rest)
      BY <1>2, <3>1 DEF w
    <3>4. Continued(w, u[1].value) = w
      <4> DEFINE y == All(kind, i) \o rest
      <4>1. y \in Seq(Waits)
        BY <3>3 DEF Wants
      <4> HIDE DEF y
      <4>2. (<<kind>> \o y)[1] = kind
        BY <4>1
      <4>3. w[1] = kind
        BY <3>3, <4>2 DEF y
      <4>4. kind \notin Arrays
        BY DEF Plain, Arrays
      <4> QED BY <4>3, <4>4 DEF Continued
    <3>5. HearAll(<<kind>> \o w, <<u[1]>> \o v) = HearAll(HearAll(<<kind>> \o w, <<u[1]>>), v)
      <4>1. <<u[1]>> \in Seq(Bytes)
        BY <2>2
      <4> QED BY <2>3, <3>2, <4>1, HeardInTurn
    <3>6. HearAll(w, v) = Continued(rest, v[i + 1].value)
      <4>1. i \in S
        BY <1>3, <3>1
      <4> QED BY <3>1, <3>2, <4>1 DEF w
    <3> QED BY <2>1, <2>4, <3>2, <3>4, <3>5, <3>6
  <2> QED BY <2>5, <2>6
<1>4. n \in S
  <2> HIDE DEF S
  <2>1. \A j \in 0..n : j \in S
    BY <1>3, UpTo
  <2> QED BY <2>1
<1>5. HearAll(All(kind, n + 1) \o rest, t) = Continued(rest, t[n + 1].value)
  BY <1>4
<1>6. All(kind, n + 1) \o rest \in Wants
  BY <1>2
<1> QED BY <1>5, <1>6

\* A header, when it is waited for, and when the end of the round is.
LEMMA HeaderHeard ==
  ASSUME NEW flag \in Int
  PROVE  /\ Header(flag) \in Seq(Bytes)
         /\ HearAll(<<>>, Header(flag)) = Row(flag)
         /\ HearAll(All("round_end", TIME_BYTES), Header(flag)) = Misled
<1> DEFINE b == [kind |-> "header", value |-> flag, part |-> 1]
<1>1. b \in Bytes
  BY DEF Bytes, Kinds
<1>2. Header(flag) = <<b>>
  <2> DEFINE h == Header(flag)
  <2>1. h \in Seq(Bytes) /\ Len(h) = 1 /\ h[1] = b
    BY <1>1 DEF Header, Parts
  <2> HIDE DEF h, b
  <2>2. h = <<h[1]>>
    BY <2>1, OneElement
  <2> QED BY <2>1, <2>2 DEF h
<1>3. b.kind = "header" /\ b.value = flag
  OBVIOUS
<1> HIDE DEF b
<1>4. HearAll(<<>>, <<b>>) = Row(flag)
  <2>1. <<>> \in Wants
    BY DEF Wants
  <2>2. HearAll(<<>>, <<b>>) = Hear(<<>>, b)
    BY <1>1, <2>1, HeardFew
  <2> QED BY <1>3, <2>2 DEF Hear
<1>5. HearAll(All("round_end", TIME_BYTES), <<b>>) = Misled
  <2> DEFINE w == All("round_end", TIME_BYTES)
  <2>1. w \in Seq(Waits) /\ Len(w) = TIME_BYTES /\ w[1] = "round_end"
    BY BufferAssumption, AllAreWants DEF Wants, Waits
  <2> HIDE DEF w
  <2>2. w # <<>> /\ Head(w) = "round_end" /\ w \in Wants
    BY <2>1, BufferAssumption DEF Wants
  <2>3. HearAll(w, <<b>>) = Hear(w, b)
    BY <1>1, <2>2, HeardFew
  <2>4. w # Misled
    BY <2>2 DEF Misled
  <2>5. Hear(w, b) = Misled
    BY <1>3, <2>2, <2>4 DEF Hear
  <2> QED BY <2>3, <2>5 DEF w
<1>6. <<b>> \in Seq(Bytes)
  BY <1>1
<1> QED BY <1>2, <1>4, <1>5, <1>6

\* A field that is waited for is heard.
LEMMA PartsHeard ==
  ASSUME NEW kind \in Plain, NEW value \in Int, NEW n \in Nat \ {0}, NEW rest \in Wants
  PROVE  /\ Parts(kind, value, n) \in Seq(Bytes)
         /\ All(kind, n) \o rest \in Wants
         /\ HearAll(All(kind, n) \o rest, Parts(kind, value, n)) = Continued(rest, value)
<1> DEFINE t == Parts(kind, value, n)
           m == n - 1
<1>1. m \in Nat /\ m + 1 = n
  OBVIOUS
<1>2. t \in Seq(Bytes) /\ Len(t) = n /\ \A k \in 1..n : t[k].kind = kind /\ t[k].value = value
  <2>1. kind \in Kinds
    BY DEF Plain, Kinds
  <2>2. t \in Seq(Bytes) /\ Len(t) = n
    BY <2>1, PartsAreBytes
  <2>3. \A k \in 1..n : t[k].kind = kind /\ t[k].value = value
    BY DEF Parts
  <2> QED BY <2>2, <2>3
<1> HIDE DEF t, m
<1>3. /\ All(kind, m + 1) \o rest \in Wants
      /\ HearAll(All(kind, m + 1) \o rest, t) = Continued(rest, t[m + 1].value)
  <2>1. Len(t) = m + 1 /\ \A k \in 1..Len(t) : t[k].kind = kind
    BY <1>1, <1>2
  <2> QED BY <1>1, <1>2, <2>1, FieldHeard
<1>4. t[n].value = value
  BY <1>2
<1> QED BY <1>1, <1>2, <1>3, <1>4 DEF t

-----------------------------------------------------------------------------
(* Serializing field after field, as a fold *)

\* Buffers, whether next is within data or has gone past what an int counts.
Buffers == {b \in [{"data", "next"} -> Seq(Bytes) \cup Nat] :
              b.data \in Seq(Bytes) /\ b.next \in Nat}

LEMMA DataChanged ==
  ASSUME NEW b \in Buffers, NEW d \in Seq(Bytes)
  PROVE  LET r == [b EXCEPT !.data = d]
         IN  r \in Buffers /\ r.data = d /\ r.next = b.next
<1> DEFINE r == [b EXCEPT !.data = d]
<1>1. b \in [{"data", "next"} -> Seq(Bytes) \cup Nat] /\ b.next \in Nat
  BY DEF Buffers
<1>2. r \in [{"data", "next"} -> Seq(Bytes) \cup Nat] /\ r.data = d /\ r.next = b.next
  BY <1>1
<1> HIDE DEF r
<1>3. r \in Buffers
  BY <1>1, <1>2 DEF Buffers
<1> QED BY <1>2, <1>3 DEF r

LEMMA NextChanged ==
  ASSUME NEW b \in Buffers, NEW n \in Nat
  PROVE  Advanced(b, n) \in Buffers /\ Advanced(b, n).next = b.next + n
<1> DEFINE m == b.next + n
           r == [b EXCEPT !.next = m]
<1>1. /\ b \in [{"data", "next"} -> Seq(Bytes) \cup Nat] /\ b.data \in Seq(Bytes)
      /\ m \in Nat
  BY DEF Buffers
<1>4. r = Advanced(b, n) /\ m = b.next + n
  BY DEF Advanced
<1> HIDE DEF m
<1>2. r \in [{"data", "next"} -> Seq(Bytes) \cup Nat] /\ r.data = b.data /\ r.next = m
  BY <1>1
<1> HIDE DEF r
<1>3. r \in Buffers
  BY <1>1, <1>2 DEF Buffers
<1> QED BY <1>2, <1>3, <1>4

\* What is serialized stays one, and is appended as long as an int counts it.
LEMMA SerializesToBuffer ==
  ASSUME NEW b \in Buffers, NEW x \in Seq(Bytes)
  PROVE  /\ serialize(b, x) \in Buffers
         /\ serialize(b, x).next = b.next + Len(x)
         /\ IsBuffer(b) /\ b.next + Len(x) <= INT_MAX =>
              /\ IsBuffer(serialize(b, x))
              /\ Content(serialize(b, x)) = Content(b) \o x
<1> DEFINE l == Len(x)
           n == NewSize(b, l)
           d == [k \in 1..n |-> IF k <= b.next /\ k <= Len(b.data) THEN b.data[k] ELSE Zero]
           r == reserve_space(b, l)
           e == [k \in 1..Len(r.data) |->
                   IF k \in (b.next + 1)..(b.next + l) THEN x[k - b.next] ELSE r.data[k]]
           c == Copied(r, b.next, x)
<1>1. b.data \in Seq(Bytes) /\ b.next \in Nat /\ l \in Nat
  BY DEF Buffers
<1>2. n \in Nat
  <2> DEFINE min_size == AsInt(b.next + l)
             double == AsInt(2 * Len(b.data))
  <2>1. min_size \in Int /\ double \in Int
    <3>1. b.next + l \in Int /\ 2 * Len(b.data) \in Int
      BY <1>1
    <3> QED BY <3>1, IntsAreInts
  <2>2. n = IF min_size <= Len(b.data) THEN Len(b.data)
            ELSE IF min_size > double THEN min_size ELSE double
    BY DEF NewSize
  <2> HIDE DEF min_size, double, n
  <2> QED BY <1>1, <2>1, <2>2
<1>3. d \in Seq(Bytes)
  <2> HIDE DEF n
  <2>1. \A k \in 1..n : d[k] \in Bytes
    BY <1>1, <1>2, ZeroIsByte
  <2> QED BY <1>2, <2>1
<1>4. r = [b EXCEPT !.data = d]
  BY DEF reserve_space
<1> HIDE DEF d, n, r
<1>5. r \in Buffers /\ r.data \in Seq(Bytes) /\ r.next = b.next
  BY <1>3, <1>4, DataChanged
<1>6. e \in Seq(Bytes)
  <2> HIDE DEF l
  <2>1. ASSUME NEW k \in 1..Len(r.data) PROVE e[k] \in Bytes
    <3>1. CASE k \in (b.next + 1)..(b.next + l)
      <4>1. k - b.next \in 1..Len(x)
        BY <1>1, <3>1 DEF l
      <4> QED BY <3>1, <4>1
    <3>2. CASE k \notin (b.next + 1)..(b.next + l)
      BY <1>5, <3>2
    <3> QED BY <3>1, <3>2
  <2> DEFINE m == Len(r.data)
  <2>2. m \in Nat
    BY <1>5
  <2>3. e = [k \in 1..m |-> e[k]]
    OBVIOUS
  <2>4. \A k \in 1..m : e[k] \in Bytes
    BY <2>1
  <2> HIDE DEF m, e
  <2> QED BY <2>2, <2>3, <2>4
<1>7. c = [r EXCEPT !.data = e]
  BY DEF Copied
<1> HIDE DEF e, c
<1>8. c \in Buffers /\ c.next = b.next
  BY <1>5, <1>6, <1>7, DataChanged
<1>9. serialize(b, x) = Advanced(c, l)
  BY DEF serialize, c, r
<1> HIDE DEF l
<1>10. serialize(b, x) \in Buffers /\ serialize(b, x).next = b.next + l
  BY <1>1, <1>8, <1>9, NextChanged
<1> QED BY <1>10, SerializeAppends DEF l

\* What each field does.
Pours(fields) == [k \in 1..Len(fields) |-> [b \in Buffers |-> serialize(b, fields[k])]]

\* Where they lead.
LEMMA PoursLead ==
  ASSUME NEW b \in Buffers, NEW q \in Seq(Seq(Bytes))
  PROVE  /\ Pours(q) \in Seq([Buffers -> Buffers]) /\ Len(Pours(q)) = Len(q)
         /\ Through(Pours(q), Buffers, b, serialize_all(b, q))
<1> DEFINE n == Len(q)
           P(g) == g = [S \in SUBSET (DOMAIN q) |->
                          IF S = {} THEN b ELSE serialize(g[S \ {Max(S)}], q[Max(S)])]
<1>1. n \in Nat /\ DOMAIN q = 1..n
  OBVIOUS
<1>2. \A x \in Buffers, k \in 1..n : serialize(x, q[k]) \in Buffers
  BY SerializesToBuffer
<1>3. /\ Pours(q) \in Seq([Buffers -> Buffers]) /\ Len(Pours(q)) = n
      /\ \A k \in 1..n, x \in Buffers : Pours(q)[k][x] = serialize(x, q[k])
  BY <1>1, <1>2 DEF Pours
<1>4. PICK h \in [SUBSET (1..n) -> Buffers] : Iterates(h, Pours(q), b, n)
  BY <1>3, IterationExists
<1>5. P(h)
  <2>1. ASSUME NEW S \in SUBSET (1..n), S # {}
        PROVE  Pours(q)[Max(S)][h[S \ {Max(S)}]] = serialize(h[S \ {Max(S)}], q[Max(S)])
    <3>1. Max(S) \in 1..n /\ S \ {Max(S)} \in SUBSET (1..n)
      BY <1>1, <2>1, MaxIsGreatest
    <3>2. h[S \ {Max(S)}] \in Buffers
      BY <3>1
    <3> QED BY <1>3, <3>1, <3>2
  <2>2. h = [S \in SUBSET (1..n) |->
               IF S = {} THEN b ELSE Pours(q)[Max(S)][h[S \ {Max(S)}]]]
    BY <1>4 DEF Iterates
  <2> HIDE DEF n
  <2> QED BY <1>1, <2>1, <2>2
<1> DEFINE g == CHOOSE f : P(f)
<1>6. serialize_all(b, q) = g[1..n]
  <2>1. serialize_all(b, q) = g[DOMAIN q]
    BY Zenon DEF serialize_all, FoldLeft, MapThenFoldSet
  <2> QED BY <1>1, <2>1
<1>7. P(g)
  <2> HIDE DEF P
  <2> QED BY <1>5, Zenon
<1> HIDE DEF g
<1>8. g[{}] = b
  BY <1>7
<1>9. ASSUME NEW k \in 1..n, g[1..(k - 1)] \in Buffers
      PROVE  g[1..k] = Pours(q)[k][g[1..(k - 1)]]
  <2>1. Max(1..k) = k /\ (1..k) \ {k} = 1..(k - 1) /\ 1..k # {} /\ 1..k \in SUBSET (1..n)
    BY <1>1, MaxOfRange
  <2>2. g[1..k] = serialize(g[(1..k) \ {Max(1..k)}], q[Max(1..k)])
    BY <1>1, <1>7, <2>1
  <2>3. g[1..k] = serialize(g[1..(k - 1)], q[k])
    BY <2>1, <2>2
  <2> QED BY <1>3, <1>9, <2>3
<1> HIDE DEF P
<1>10. Through(Pours(q), Buffers, b, g[1..n])
  BY <1>3, <1>8, <1>9, IterationLeads
<1> QED BY <1>3, <1>6, <1>10

\* No field, and one more.
LEMMA SerializedOneMore ==
  ASSUME NEW b \in Buffers, NEW q \in Seq(Seq(Bytes)), NEW x \in Seq(Bytes)
  PROVE  /\ serialize_all(b, q) \in Buffers
         /\ serialize_all(b, <<>>) = b
         /\ serialize_all(b, Append(q, x)) = serialize(serialize_all(b, q), x)
<1> DEFINE f == Pours(q)
           h == [y \in Buffers |-> serialize(y, x)]
           all == serialize_all(b, q)
           more == Append(q, x)
<1>1. f \in Seq([Buffers -> Buffers]) /\ Len(f) = Len(q) /\ Through(f, Buffers, b, all)
  BY PoursLead
<1>2. h \in [Buffers -> Buffers]
  BY SerializesToBuffer
<1>3. all \in Buffers
  BY <1>1 DEF Through
<1>4. /\ more \in Seq(Seq(Bytes)) /\ Len(more) = Len(q) + 1 /\ Len(q) \in Nat
      /\ more[Len(q) + 1] = x /\ \A k \in 1..Len(q) : more[k] = q[k]
  OBVIOUS
<1>5. h[all] = serialize(all, x)
  BY <1>3
<1>6. \A k \in 1..Len(q) : f[k] = [y \in Buffers |-> serialize(y, q[k])]
  BY DEF Pours
<1>7. \A k \in 1..Len(more) : Pours(more)[k] = [y \in Buffers |-> serialize(y, more[k])]
  BY DEF Pours
<1> HIDE DEF f, more, all
<1>8. /\ Pours(more) \in Seq([Buffers -> Buffers]) /\ Len(Pours(more)) = Len(more)
      /\ Through(Pours(more), Buffers, b, serialize_all(b, more))
  BY <1>4, PoursLead
<1>9. Pours(more) = Append(f, h)
  <2>1. h = [y \in Buffers |-> serialize(y, more[Len(q) + 1])]
    BY <1>4
  <2> DEFINE F == [Buffers -> Buffers]
             p == Pours(more)
             a == Append(f, h)
  <2>2. a \in Seq(F) /\ Len(a) = Len(q) + 1 /\ a[Len(q) + 1] = h /\ \A k \in 1..Len(q) : a[k] = f[k]
    <3> HIDE DEF F, h
    <3>1. f \in Seq(F) /\ h \in F /\ Len(f) = Len(q)
      BY <1>1, <1>2 DEF F
    <3> QED BY <3>1
  <2>3. ASSUME NEW k \in 1..Len(p) PROVE p[k] = a[k]
    <3>1. k \in 1..Len(more) /\ p[k] = [y \in Buffers |-> serialize(y, more[k])]
      BY <1>7, <1>8
    <3>2. CASE k = Len(q) + 1
      <4> HIDE DEF h, p, a
      <4> QED BY <2>1, <2>2, <3>1, <3>2
    <3>3. CASE k # Len(q) + 1
      <4>1. k \in 1..Len(q)
        BY <1>4, <3>1, <3>3
      <4>2. p[k] = [y \in Buffers |-> serialize(y, q[k])]
        BY <1>4, <3>1, <4>1
      <4> HIDE DEF p, a
      <4> QED BY <1>6, <2>2, <4>1, <4>2
    <3> QED BY <3>2, <3>3
  <2>4. p \in Seq(F) /\ Len(p) = Len(a)
    BY <1>4, <1>8, <2>2
  <2> HIDE DEF F, p, a
  <2>5. p = a
    BY <2>2, <2>3, <2>4, SeqEqual
  <2> QED BY <2>5 DEF p, a
<1>10. Through(Append(f, h), Buffers, b, h[all])
  <2> HIDE DEF h
  <2> QED BY <1>1, <1>2, ThroughOneMore
<1>11. serialize_all(b, more) = h[all]
  <2> HIDE DEF h
  <2> DEFINE s == serialize_all(b, more)
  <2>1. Through(Pours(more), Buffers, b, s) /\ Through(Pours(more), Buffers, b, h[all])
    BY <1>8, <1>9, <1>10
  <2> HIDE DEF s
  <2>2. s = h[all]
    BY <1>8, <2>1, ThroughOnce
  <2> QED BY <2>2 DEF s
<1>12. serialize_all(b, <<>>) = b
  <2> DEFINE none == <<>>
  <2>1. none \in Seq(Seq(Bytes)) /\ Len(none) = 0
    OBVIOUS
  <2> HIDE DEF none
  <2>2. Through(Pours(none), Buffers, b, serialize_all(b, none)) /\ Len(Pours(none)) = 0
    BY <2>1, PoursLead
  <2>3. serialize_all(b, none) = b
    BY <2>2 DEF Through
  <2> QED BY <2>3 DEF none
<1> QED BY <1>3, <1>5, <1>11, <1>12 DEF all, more

\* What a client waits for that has heard the fields serialized to b, and how many bytes
\* they are.
Meant(b, fields) == HearAll(<<>>, Content(serialize_all(b, fields)))
Written(b, fields) == serialize_all(b, fields).next

-----------------------------------------------------------------------------
(* What the server says, and that a client waits for nothing more after it *)

\* A buffer with nothing in it.
Empty(b) == b \in Buffers /\ IsBuffer(b) /\ b.next = 0

\* The client that has heard the fields waits for w, if an int counts their bytes.
Says(b, fields, w) ==
  /\ fields \in Seq(Seq(Bytes))
  /\ w \in Wants
  /\ Written(b, fields) <= INT_MAX =>
       /\ IsBuffer(serialize_all(b, fields))
       /\ Meant(b, fields) = w

\* It has heard a whole message, or been misled by one.
Well == {<<>>, Misled}
Understood(bytes) == bytes \in Seq(Bytes) /\ HearAll(<<>>, bytes) \in Well

\* A client that waits for nothing, or is misled, is left so.
LEMMA WellForEver ==
  ASSUME NEW w \in Well, NEW bytes, Understood(bytes)
  PROVE  w \in Wants /\ HearAll(w, bytes) \in Well
<1>1. <<>> \in Wants /\ Misled \in Wants
  BY DEF Misled, Wants, Waits
<1> QED BY <1>1, MisledForEver DEF Well, Understood

LEMMA ContentIsBytes ==
  ASSUME NEW b, IsBuffer(b)
  PROVE  Content(b) \in Seq(Bytes) /\ (b.next = 0 => Content(b) = <<>>)
<1>1. Content(b) \in Seq(Bytes) /\ Len(Content(b)) = b.next
  BY DEF IsBuffer, Content
<1> HIDE DEF Content
<1> QED BY <1>1

LEMMA NewBufferIsEmpty == Empty(new_buffer)
<1>1. IsBuffer(new_buffer) /\ new_buffer.next = 0
  BY NewBufferIsBuffer
<1>2. new_buffer \in [{"data", "next"} -> Seq(Bytes) \cup Nat]
  <2>1. new_buffer.data \in Seq(Bytes)
    BY <1>1 DEF IsBuffer
  <2> DEFINE d == [k \in 1..INITIAL_SIZE |-> Zero]
  <2>2. d \in Seq(Bytes) /\ new_buffer = [data |-> d, next |-> 0]
    BY <2>1 DEF new_buffer
  <2> HIDE DEF d
  <2> QED BY <2>2
<1> QED BY <1>1, <1>2 DEF Empty, Buffers, IsBuffer

LEMMA SaidIsUnderstood ==
  ASSUME NEW b, NEW fields, NEW w \in Well, Says(b, fields, w), Written(b, fields) <= INT_MAX
  PROVE  Understood(Content(serialize_all(b, fields)))
BY ContentIsBytes DEF Says, Understood, Meant

\* Nothing, and one more field.
LEMMA WrittenOneMore ==
  ASSUME NEW b \in Buffers, NEW q \in Seq(Seq(Bytes)), NEW x \in Seq(Bytes)
  PROVE  /\ Written(b, q) \in Nat
         /\ Written(b, <<>>) = b.next
         /\ Append(q, x) \in Seq(Seq(Bytes))
         /\ Written(b, Append(q, x)) = Written(b, q) + Len(x)
<1>1. /\ serialize_all(b, q) \in Buffers /\ serialize_all(b, <<>>) = b
      /\ serialize_all(b, Append(q, x)) = serialize(serialize_all(b, q), x)
  BY SerializedOneMore
<1>2. Append(q, x) \in Seq(Seq(Bytes))
  OBVIOUS
<1>3. serialize_all(b, q).next \in Nat
  BY <1>1 DEF Buffers
<1> QED BY <1>1, <1>2, <1>3, SerializesToBuffer DEF Written

LEMMA SaysNothing ==
  ASSUME NEW b, Empty(b)
  PROVE  Says(b, <<>>, <<>>)
<1>1. <<>> \in Seq(Seq(Bytes)) /\ <<>> \in Wants /\ <<>> \in Seq(Bytes)
  BY DEF Wants
<1>2. b \in Buffers /\ IsBuffer(b) /\ b.next = 0
  BY DEF Empty
<1>3. serialize_all(b, <<>>) = b
  BY <1>1, <1>2, SerializedOneMore
<1>4. Content(b) = <<>>
  BY <1>2, ContentIsBytes
<1>5. HearAll(<<>>, <<>>) = <<>>
  <2>1. Zero \in Bytes
    BY ZeroIsByte
  <2> QED BY <1>1, <2>1, HeardFew
<1> QED BY <1>1, <1>2, <1>3, <1>4, <1>5 DEF Says, Meant

LEMMA SaysOneMore ==
  ASSUME NEW b, Empty(b), NEW q, NEW w, Says(b, q, w), NEW x \in Seq(Bytes)
  PROVE  w \in Wants /\ Says(b, Append(q, x), HearAll(w, x))
<1> DEFINE d == serialize_all(b, q)
           more == Append(q, x)
<1>1. /\ b \in Buffers /\ IsBuffer(b) /\ b.next = 0 /\ q \in Seq(Seq(Bytes)) /\ w \in Wants
      /\ Written(b, q) <= INT_MAX => IsBuffer(d) /\ Meant(b, q) = w
  BY DEF Empty, Says
<1>2. /\ d \in Buffers /\ serialize_all(b, more) = serialize(d, x)
  BY <1>1, SerializedOneMore
<1>3. /\ more \in Seq(Seq(Bytes)) /\ Written(b, q) \in Nat
      /\ Written(b, more) = Written(b, q) + Len(x) /\ d.next = Written(b, q)
  BY <1>1, WrittenOneMore DEF Written
<1>4. HearAll(w, x) \in Wants
  BY <1>1, HeardInTurn
<1> HIDE DEF d, more
<1>5. ASSUME Written(b, more) <= INT_MAX
      PROVE  IsBuffer(serialize_all(b, more)) /\ Meant(b, more) = HearAll(w, x)
  <2>1. INT_MAX \in Nat /\ Len(x) \in Nat
    BY BufferAssumption
  <2>2. Written(b, q) <= INT_MAX /\ d.next + Len(x) <= INT_MAX
    BY <1>3, <1>5, <2>1
  <2>3. IsBuffer(d) /\ Meant(b, q) = w
    BY <1>1, <2>2
  <2>4. IsBuffer(serialize(d, x)) /\ Content(serialize(d, x)) = Content(d) \o x
    BY <1>2, <2>2, <2>3, SerializesToBuffer
  <2>5. Content(d) \in Seq(Bytes) /\ <<>> \in Wants
    BY <2>3, ContentIsBytes DEF Wants
  <2>6. HearAll(<<>>, Content(d) \o x) = HearAll(HearAll(<<>>, Content(d)), x)
    BY <2>5, HeardInTurn
  <2>7. HearAll(<<>>, Content(d)) = w
    BY <2>3 DEF Meant, d
  <2>8. Meant(b, more) = HearAll(<<>>, Content(d) \o x)
    BY <1>2, <2>4, Zenon DEF Meant
  <2> QED BY <1>2, <2>4, <2>6, <2>7, <2>8
<1>6. Says(b, more, HearAll(w, x))
  BY <1>3, <1>4, <1>5 DEF Says
<1> QED BY <1>1, <1>6 DEF more

\* The header.
LEMMA SaysHeader ==
  ASSUME NEW b, Empty(b), NEW flag \in Int
  PROVE  /\ Says(b, <<Header(flag)>>, Row(flag))
         /\ Header(flag) \in Seq(Bytes) /\ Len(Header(flag)) = 1
         /\ Written(b, <<Header(flag)>>) = 1
<1> DEFINE h == Header(flag)
           none == <<>>
<1>1. h \in Seq(Bytes) /\ HearAll(<<>>, h) = Row(flag)
  BY HeaderHeard
<1>2. Len(h) = 1
  BY DEF Header, Parts
<1> HIDE DEF h
<1>3. none \in Seq(Seq(Bytes)) /\ b \in Buffers /\ b.next = 0
  BY DEF Empty
<1>4. <<h>> = Append(none, h)
  OBVIOUS
<1>5. Says(b, none, <<>>)
  BY SaysNothing
<1>6. Written(b, none) = 0
  BY <1>1, <1>3, WrittenOneMore
<1> HIDE DEF none
<1>7. Says(b, Append(none, h), HearAll(<<>>, h))
  BY <1>1, <1>5, SaysOneMore
<1>8. Written(b, Append(none, h)) = 1
  <2>1. Written(b, Append(none, h)) = Written(b, none) + Len(h)
    BY <1>1, <1>3, WrittenOneMore
  <2> QED BY <1>2, <1>6, <2>1
<1> QED BY <1>1, <1>2, <1>4, <1>7, <1>8 DEF h

\* No array comes first.
Settled(rest) == rest # <<>> => rest[1] \notin Arrays

\* A field of bytes of one kind.
LEMMA SaysField ==
  ASSUME NEW b, Empty(b), NEW q, NEW kind \in Plain, NEW n \in Nat \ {0}, NEW rest \in Wants,
         Says(b, q, All(kind, n) \o rest),
         NEW t \in Seq(Bytes), Len(t) = n, \A k \in 1..Len(t) : t[k].kind = kind
  PROVE  /\ Says(b, Append(q, t), Continued(rest, t[n].value))
         /\ Settled(rest) => Says(b, Append(q, t), rest)
<1> DEFINE m == n - 1
<1>1. m \in Nat /\ m + 1 = n
  OBVIOUS
<1> HIDE DEF m
<1>2. Len(t) = m + 1
  BY <1>1
<1>3. HearAll(All(kind, m + 1) \o rest, t) = Continued(rest, t[m + 1].value)
  BY <1>1, <1>2, FieldHeard
<1>4. Says(b, Append(q, t), HearAll(All(kind, n) \o rest, t))
  BY SaysOneMore
<1>5. Says(b, Append(q, t), Continued(rest, t[n].value))
  BY <1>1, <1>3, <1>4
<1>6. Settled(rest) => Continued(rest, t[n].value) = rest
  BY DEF Settled, Continued
<1> QED BY <1>5, <1>6

\* The bytes of one value.
LEMMA SaysParts ==
  ASSUME NEW b, Empty(b), NEW q, NEW kind \in Plain, NEW n \in Nat \ {0}, NEW rest \in Wants,
         Says(b, q, All(kind, n) \o rest), NEW value \in Int
  PROVE  /\ Says(b, Append(q, Parts(kind, value, n)), Continued(rest, value))
         /\ Settled(rest) => Says(b, Append(q, Parts(kind, value, n)), rest)
<1> DEFINE t == Parts(kind, value, n)
<1>1. t \in Seq(Bytes) /\ HearAll(All(kind, n) \o rest, t) = Continued(rest, value)
  BY PartsHeard
<1> HIDE DEF t
<1>2. Says(b, Append(q, t), HearAll(All(kind, n) \o rest, t))
  BY <1>1, SaysOneMore
<1>3. Says(b, Append(q, t), Continued(rest, value))
  BY <1>1, <1>2
<1>4. Settled(rest) => Continued(rest, value) = rest
  BY DEF Settled, Continued
<1> QED BY <1>3, <1>4 DEF t

\* A number.
LEMMA SaysInt ==
  ASSUME NEW b, Empty(b), NEW q, NEW rest \in Wants, Says(b, q, Ints(1) \o rest), NEW x \in Int
  PROVE  /\ Says(b, Append(q, Int32(x)), Continued(rest, x))
         /\ Settled(rest) => Says(b, Append(q, Int32(x)), rest)
<1>1. Ints(1) = All("int", INT_BYTES) /\ INT_BYTES \in Nat \ {0}
  <2>1. 1 * INT_BYTES = INT_BYTES
    BY BufferAssumption
  <2> QED BY <2>1, BufferAssumption, IntsAreWants
<1>2. "int" \in Plain
  BY DEF Plain
<1> QED BY <1>1, <1>2, SaysParts DEF Int32

\* What is waited for, as fields and what follows.
LEMMA OneOf ==
  ASSUME NEW kind \in Waits
  PROVE  All(kind, 1) = <<kind>>
<1>1. All(kind, 0 + 1) = <<kind>> \o All(kind, 0) /\ All(kind, 0) = <<>>
  BY AllFirst
<1> QED BY <1>1

LEMMA PlainIsSettled ==
  ASSUME NEW kind \in Plain, NEW n \in Nat \ {0}, NEW rest \in Wants
  PROVE  /\ All(kind, n) \in Wants /\ All(kind, n) \o rest \in Wants
         /\ Settled(All(kind, n)) /\ Settled(All(kind, n) \o rest)
<1> DEFINE a == All(kind, n)
<1>1. kind \in Waits /\ kind \notin Arrays
  BY DEF Plain, Waits, Arrays
<1>2. a \in Seq(Waits) /\ Len(a) = n /\ a[1] = kind
  BY <1>1, AllAreWants DEF Wants
<1> HIDE DEF a
<1>3. rest \in Seq(Waits)
  BY DEF Wants
<1>4. a \o rest \in Seq(Waits) /\ (a \o rest)[1] = kind
  BY <1>2, <1>3
<1> QED BY <1>1, <1>2, <1>4 DEF Settled, a, Wants

LEMMA NothingIsSettled == Settled(<<>>) /\ <<>> \in Wants
BY DEF Settled, Wants

\* The bytes of each value.
LEMMA ValuesAreBytes ==
  /\ \A x \in Int : /\ Int32(x) \in Seq(Bytes) /\ Len(Int32(x)) = INT_BYTES
                    /\ Byte(x) \in Seq(Bytes) /\ Len(Byte(x)) = 1
  /\ Time \in Seq(Bytes) /\ Len(Time) = TIME_BYTES
  /\ Bitarray \in Seq(Bytes) /\ Len(Bitarray) = CANVAS_BYTES
<1>1. {"int", "byte", "time", "canvas"} \subseteq Kinds
  BY DEF Kinds
<1>2. \A x \in Int : Int32(x) \in Seq(Bytes) /\ Len(Int32(x)) = INT_BYTES
  BY <1>1, BufferAssumption, PartsAreBytes DEF Int32
<1>3. \A x \in Int : Byte(x) \in Seq(Bytes) /\ Len(Byte(x)) = 1
  BY <1>1, PartsAreBytes DEF Byte
<1>4. Time \in Seq(Bytes) /\ Len(Time) = TIME_BYTES
  BY <1>1, BufferAssumption, PartsAreBytes DEF Time
<1>5. Bitarray \in Seq(Bytes) /\ Len(Bitarray) = CANVAS_BYTES
  BY <1>1, BufferAssumption, PartsAreBytes DEF Bitarray
<1> QED BY <1>2, <1>3, <1>4, <1>5

\* How many bytes two more fields make.
LEMMA WrittenTwoMore ==
  ASSUME NEW b, Empty(b), NEW q \in Seq(Seq(Bytes)), NEW x \in Seq(Bytes), NEW y \in Seq(Bytes)
  PROVE  /\ Written(b, q) \in Nat
         /\ Append(q, x) \in Seq(Seq(Bytes)) /\ Append(Append(q, x), y) \in Seq(Seq(Bytes))
         /\ Written(b, Append(q, x)) = Written(b, q) + Len(x)
         /\ Written(b, Append(Append(q, x), y)) = Written(b, q) + Len(x) + Len(y)
<1> DEFINE r == Append(q, x)
<1>1. b \in Buffers
  BY DEF Empty
<1>2. /\ Written(b, q) \in Nat /\ r \in Seq(Seq(Bytes)) /\ Written(b, r) = Written(b, q) + Len(x)
  BY <1>1, WrittenOneMore
<1> HIDE DEF r
<1>3. /\ Append(r, y) \in Seq(Seq(Bytes)) /\ Written(b, Append(r, y)) = Written(b, r) + Len(y)
  BY <1>1, <1>2, WrittenOneMore
<1> QED BY <1>2, <1>3 DEF r

\* A string with its length.
LEMMA SaysString ==
  ASSUME NEW b, Empty(b), NEW q, NEW rest \in Wants, Settled(rest), Says(b, q, String \o rest),
         NEW t \in Seq(Bytes), Len(t) # 0, \A k \in 1..Len(t) : t[k].kind = "char"
  PROVE  /\ Says(b, Append(Append(q, Int32(Len(t))), t), rest)
         /\ Written(b, Append(Append(q, Int32(Len(t))), t)) = Written(b, q) + INT_BYTES + Len(t)
         /\ Written(b, q) \in Nat
<1> DEFINE n == Len(t)
           more == <<"STR">> \o rest
<1>1. n \in Nat \ {0} /\ n \in Int
  OBVIOUS
<1>2. /\ more \in Wants /\ more # <<>> /\ more[1] = "STR" /\ Tail(more) = rest
      /\ rest \in Seq(Waits) /\ <<"STR">> \in Seq(Waits)
  BY DEF Wants, Waits
<1>3. String \o rest = Ints(1) \o more
  <2>1. Ints(1) \in Seq(Waits) /\ String = Ints(1) \o <<"STR">>
    BY PlayerIsWant, IntsAreWants DEF Wants
  <2>2. (Ints(1) \o <<"STR">>) \o rest = Ints(1) \o (<<"STR">> \o rest)
    BY <1>2, <2>1, Regrouped
  <2> QED BY <2>1, <2>2, Zenon
<1> HIDE DEF more, n
<1>4. Says(b, Append(q, Int32(n)), Continued(more, n))
  BY <1>1, <1>2, <1>3, SaysInt
<1>5. Continued(more, n) = All("char", n) \o rest
  <2>1. "STR" \in Arrays
    BY DEF Arrays
  <2>2. Items("STR", n) = All("char", n)
    BY <1>1, <2>1, ItemsAreWants
  <2> QED BY <1>2, <2>1, <2>2 DEF Continued
<1>6. "char" \in Plain
  BY DEF Plain
<1>7. Says(b, Append(q, Int32(n)), All("char", n) \o rest)
  BY <1>4, <1>5
<1>8. n = Len(t)
  BY DEF n
<1>9. Says(b, Append(Append(q, Int32(n)), t), rest)
  BY <1>1, <1>6, <1>7, <1>8, SaysField
<1>10. /\ Written(b, Append(Append(q, Int32(n)), t)) = Written(b, q) + INT_BYTES + n
       /\ Written(b, q) \in Nat
  <2> DEFINE i == Int32(n)
  <2>1. i \in Seq(Bytes) /\ Len(i) = INT_BYTES
    BY <1>1, ValuesAreBytes
  <2> HIDE DEF i
  <2>2. q \in Seq(Seq(Bytes))
    BY DEF Says
  <2>3. /\ Written(b, Append(Append(q, i), t)) = Written(b, q) + Len(i) + Len(t)
        /\ Written(b, q) \in Nat
    BY <2>1, <2>2, WrittenTwoMore
  <2> QED BY <1>8, <2>1, <2>3 DEF i
<1> QED BY <1>8, <1>9, <1>10

\* Texts are strings.
LEMMA TextsAreChars ==
  ASSUME NEW which \in Int, NEW n \in Nat
  PROVE  /\ Text(which, n) \in Seq(Bytes) /\ Len(Text(which, n)) = n
         /\ \A k \in 1..n : Text(which, n)[k].kind = "char"
<1>1. "char" \in Kinds
  BY DEF Kinds
<1>2. Text(which, n) \in Seq(Bytes) /\ Len(Text(which, n)) = n
  BY <1>1, PartsAreBytes DEF Text
<1> QED BY <1>2 DEF Text, Parts

\* A player, with its name and whether it is there.
LEMMA SaysPlayer ==
  ASSUME NEW b, Empty(b), NEW q, NEW rest \in Wants, Settled(rest), Says(b, q, Player \o rest),
         NEW online \in Int
  PROVE  LET r == Append(Append(Append(q, Int32(NAME_LEN)), Name), Byte(online))
         IN  Says(b, r, rest) /\ Written(b, r) = Written(b, q) + (INT_BYTES + NAME_LEN + 1)
<1> DEFINE more == All("byte", 1) \o rest
<1>1. "byte" \in Plain /\ "byte" \in Waits
  BY DEF Plain, Waits
<1>2. more \in Wants /\ Settled(more)
  BY <1>1, PlainIsSettled
<1>3. Player \o rest = String \o more
  <2>1. String \in Seq(Waits) /\ Player = String \o <<"byte">>
    BY PlayerIsWant DEF Wants
  <2>2. <<"byte">> \in Seq(Waits) /\ rest \in Seq(Waits) /\ All("byte", 1) = <<"byte">>
    BY <1>1, OneOf DEF Wants
  <2>3. (String \o <<"byte">>) \o rest = String \o (<<"byte">> \o rest)
    BY <2>1, <2>2, Regrouped
  <2> QED BY <2>1, <2>2, <2>3, Zenon
<1> HIDE DEF more
<1>4. Name \in Seq(Bytes) /\ Len(Name) = NAME_LEN /\ \A k \in 1..Len(Name) : Name[k].kind = "char"
  BY TextAssumption, TextsAreChars DEF Name
<1>5. Len(Name) # 0
  BY <1>4, TextAssumption
<1> DEFINE r == Append(Append(q, Int32(NAME_LEN)), Name)
<1>6. /\ Says(b, r, more)
      /\ Written(b, r) = Written(b, q) + INT_BYTES + NAME_LEN /\ Written(b, q) \in Nat
  BY <1>2, <1>3, <1>4, <1>5, SaysString
<1> HIDE DEF r
<1>7. Says(b, Append(r, Parts("byte", online, 1)), rest)
  <2>1. Says(b, r, All("byte", 1) \o rest)
    BY <1>6 DEF more
  <2> QED BY <1>1, <2>1, SaysParts
<1>8. Written(b, Append(r, Byte(online))) = Written(b, r) + 1
  <2> DEFINE y == Byte(online)
  <2>1. y \in Seq(Bytes) /\ Len(y) = 1
    BY ValuesAreBytes
  <2> HIDE DEF y
  <2>2. b \in Buffers /\ r \in Seq(Seq(Bytes))
    BY <1>6 DEF Says, Empty
  <2>3. Written(b, Append(r, y)) = Written(b, r) + Len(y)
    BY <2>1, <2>2, WrittenOneMore
  <2> QED BY <2>1, <2>3 DEF y
<1>9. INT_BYTES \in Nat /\ NAME_LEN \in Nat
  BY BufferAssumption, TextAssumption
<1>10. Written(b, Append(r, Byte(online))) = Written(b, q) + (INT_BYTES + NAME_LEN + 1)
  BY <1>6, <1>8, <1>9
<1> QED BY <1>7, <1>10 DEF Byte, r

\* Tuples, field after field.
LEMMA Tuples ==
  ASSUME NEW T, NEW a \in T, NEW b \in T, NEW c \in T, NEW d \in T
  PROVE  /\ <<a, b>> = Append(<<a>>, b) /\ <<a, b, c>> = Append(<<a, b>>, c)
         /\ <<a, b, c, d>> = Append(<<a, b, c>>, d)
OBVIOUS

\* The texts of the server.
LEMMA NamesAreChars ==
  /\ Name \in Seq(Bytes) /\ Len(Name) = NAME_LEN /\ \A k \in 1..Len(Name) : Name[k].kind = "char"
  /\ Word \in Seq(Bytes) /\ Len(Word) = WORD_LEN /\ \A k \in 1..Len(Word) : Word[k].kind = "char"
  /\ Len(Name) # 0 /\ Len(Word) # 0
<1>1. NAME_LEN \in Nat /\ WORD_LEN \in Nat /\ NAME_LEN # 0 /\ WORD_LEN # 0
  BY TextAssumption
<1>2. ASSUME NEW which \in {1, 2}, NEW n \in Nat
      PROVE  /\ Text(which, n) \in Seq(Bytes) /\ Len(Text(which, n)) = n
             /\ \A k \in 1..n : Text(which, n)[k].kind = "char"
  <2>1. which \in Int
    OBVIOUS
  <2> QED BY <2>1, TextsAreChars, Zenon
<1>3. /\ Text(1, NAME_LEN) \in Seq(Bytes) /\ Len(Text(1, NAME_LEN)) = NAME_LEN
      /\ \A k \in 1..NAME_LEN : Text(1, NAME_LEN)[k].kind = "char"
  BY <1>1, <1>2, Zenon
<1>4. /\ Text(2, WORD_LEN) \in Seq(Bytes) /\ Len(Text(2, WORD_LEN)) = WORD_LEN
      /\ \A k \in 1..WORD_LEN : Text(2, WORD_LEN)[k].kind = "char"
  BY <1>1, <1>2, Zenon
<1>5. Name = Text(1, NAME_LEN) /\ Word = Text(2, WORD_LEN)
  BY DEF Name, Word
<1> QED BY <1>1, <1>3, <1>4, <1>5

\* The time and the canvas.
LEMMA SaysTime ==
  ASSUME NEW b, Empty(b), NEW q, NEW rest \in Wants, Settled(rest)
  PROVE  /\ Time \in Seq(Bytes) /\ Bitarray \in Seq(Bytes)
         /\ Says(b, q, All("time", TIME_BYTES) \o rest) => Says(b, Append(q, Time), rest)
         /\ Says(b, q, All("canvas", CANVAS_BYTES) \o rest) => Says(b, Append(q, Bitarray), rest)
<1>1. /\ TIME_BYTES \in Nat \ {0} /\ "time" \in Plain
      /\ CANVAS_BYTES \in Nat \ {0} /\ "canvas" \in Plain /\ 0 \in Int
  BY BufferAssumption DEF Plain
<1>2. Time = Parts("time", 0, TIME_BYTES) /\ Bitarray = Parts("canvas", 0, CANVAS_BYTES)
  BY DEF Time, Bitarray
<1>3. Parts("time", 0, TIME_BYTES) \in Seq(Bytes) /\ Parts("canvas", 0, CANVAS_BYTES) \in Seq(Bytes)
  BY <1>1, PartsHeard
<1>4. Says(b, q, All("time", TIME_BYTES) \o rest)
        => Says(b, Append(q, Parts("time", 0, TIME_BYTES)), rest)
  BY <1>1, SaysParts
<1>5. Says(b, q, All("canvas", CANVAS_BYTES) \o rest)
        => Says(b, Append(q, Parts("canvas", 0, CANVAS_BYTES)), rest)
  BY <1>1, SaysParts
<1> QED BY <1>2, <1>3, <1>4, <1>5

\* A text with its length behind a header.
LEMMA SaysHis ==
  ASSUME NEW b, Empty(b), NEW flag \in Int, NEW rest \in Wants, Settled(rest),
         Row(flag) = String \o rest,
         NEW t \in Seq(Bytes), Len(t) # 0, \A k \in 1..Len(t) : t[k].kind = "char"
  PROVE  /\ Says(b, his(flag, t), rest)
         /\ Written(b, his(flag, t)) = 1 + INT_BYTES + Len(t)
<1> DEFINE h == <<Header(flag)>>
           n == Int32(Len(t))
<1>1. Says(b, h, String \o rest) /\ Written(b, h) = 1
  BY SaysHeader
<1>2. Header(flag) \in Seq(Bytes) /\ n \in Seq(Bytes)
  BY HeaderHeard, ValuesAreBytes
<1> HIDE DEF n
<1>3. <<Header(flag), n, t>> = Append(Append(h, n), t)
  <2> DEFINE T == Seq(Bytes)
             a == Header(flag)
  <2>1. a \in T /\ n \in T /\ t \in T
    BY <1>2
  <2> HIDE DEF T, a
  <2>2. <<a, n, t>> = Append(Append(<<a>>, n), t)
    BY <2>1
  <2> QED BY <2>2 DEF a, h
<1> HIDE DEF h
<1>4. /\ Says(b, Append(Append(h, n), t), rest)
      /\ Written(b, Append(Append(h, n), t)) = 1 + INT_BYTES + Len(t)
  BY <1>1, SaysString DEF n
<1> QED BY <1>3, <1>4 DEF his, n

LEMMA FlagsAreInts ==
  {OK, CANVAS, CHAT, START_AND_GUESS, START_AND_DRAW, LOGIN, CORRECT_GUESS, WRONG_GUESS,
   CORRECT_GUESS_ANNOUNCEMENT, INVALID_USERNAME, WAITING_FOR_PLAYERS, GAME_ENDS,
   GAME_IN_PROGRESS, SERVER_ERROR, PLAYER_LIST, PLAYER_LIST_CHANGE, SERVER_FULL, HEART_BEAT}
    \subseteq Int
BY DEF OK, CANVAS, CHAT, START_AND_GUESS, START_AND_DRAW, LOGIN, CORRECT_GUESS, WRONG_GUESS,
       CORRECT_GUESS_ANNOUNCEMENT, INVALID_USERNAME, WAITING_FOR_PLAYERS, GAME_ENDS,
       GAME_IN_PROGRESS, SERVER_ERROR, PLAYER_LIST, PLAYER_LIST_CHANGE, SERVER_FULL, HEART_BEAT

\* What follows nothing, and what nothing follows.
LEMMA WithNothing ==
  ASSUME NEW w \in Wants
  PROVE  w \o <<>> = w /\ <<>> \o w = w
BY DEF Wants

\* An int counts the bytes of every message.
LEMMA IntsCountMessages ==
  /\ INT_MAX \in Nat /\ 1 <= INT_MAX
  /\ 1 + 2 * INT_BYTES <= INT_MAX
  /\ 1 + INT_BYTES + WORD_LEN + TIME_BYTES <= INT_MAX
  /\ 1 + TIME_BYTES <= INT_MAX
  /\ 2 + INT_BYTES + WORD_LEN + TIME_BYTES + CANVAS_BYTES <= INT_MAX
  /\ 2 + TIME_BYTES + CANVAS_BYTES <= INT_MAX
  /\ 1 + INT_BYTES + NAME_LEN <= INT_MAX
  /\ 1 + INT_BYTES + NAME_LEN + MAX_GUESS_LEN <= INT_MAX
BY BufferAssumption, TextAssumption, WireAssumption, WidthAssumption

\* So many players of the game, and one at least, can be told of.
LEMMA IntsCountPlayers ==
  ASSUME NEW c \in Clients, NEW n \in Nat, n <= Cardinality(Clients)
  PROVE  /\ 1 + INT_BYTES + n * (INT_BYTES + NAME_LEN + 1) <= INT_MAX
         /\ 1 + (INT_BYTES + NAME_LEN + 1) <= INT_MAX
<1> DEFINE m == Cardinality(Clients)
           k == INT_BYTES + NAME_LEN + 1
<1>1. /\ m \in Nat /\ k \in Nat /\ INT_BYTES \in Nat /\ INT_MAX \in Nat
      /\ 1 + INT_BYTES + m * k <= INT_MAX /\ n <= m
  BY BufferAssumption, TextAssumption, WireAssumption, WidthAssumption, FS_CardinalityType
<1>2. m # 0
  BY WireAssumption, FS_EmptySet
<1> HIDE DEF m, k
<1>3. n * k <= m * k /\ 1 * k <= m * k
  <2>1. m - n \in Nat /\ m - 1 \in Nat
    BY <1>1, <1>2
  <2>2. (m - n) * k \in Nat /\ (m - 1) * k \in Nat
    BY <1>1, <2>1
  <2>3. (m - n) * k = m * k - n * k /\ (m - 1) * k = m * k - 1 * k
    BY <1>1
  <2> QED BY <1>1, <2>2, <2>3
<1>4. n * k \in Nat /\ m * k \in Nat /\ 1 * k = k
  BY <1>1
<1> QED BY <1>1, <1>3, <1>4 DEF k

\* A header alone.
LEMMA HeaderUnderstood ==
  ASSUME NEW flag \in {OK, CORRECT_GUESS, WRONG_GUESS, INVALID_USERNAME, SERVER_ERROR, SERVER_FULL,
                       GAME_ENDS}
  PROVE  Understood(Message(<<Header(flag)>>)) /\ Len(Message(<<Header(flag)>>)) = 1
<1>1. flag \in Int /\ Row(flag) = <<>>
  BY FlagsAreInts, RowsOfFlags
<1>2. /\ Says(new_buffer, <<Header(flag)>>, <<>>)
      /\ Written(new_buffer, <<Header(flag)>>) = 1
  BY <1>1, NewBufferIsEmpty, SaysHeader
<1>3. 1 <= INT_MAX /\ <<>> \in Well
  BY IntsCountMessages DEF Well
<1> DEFINE d == serialize_all(new_buffer, <<Header(flag)>>)
<1>4. IsBuffer(d) /\ d.next = 1
  BY <1>2, <1>3 DEF Says, Written
<1>5. Understood(Content(d))
  BY <1>2, <1>3, SaidIsUnderstood
<1>6. Len(Content(d)) = 1
  <2> HIDE DEF d
  <2> QED BY <1>4 DEF IsBuffer, Content
<1> QED BY <1>5, <1>6 DEF Message

\* What the others are told of a guess.
LEMMA TextUnderstood ==
  ASSUME NEW b, Empty(b), NEW flag \in {CHAT, CORRECT_GUESS_ANNOUNCEMENT},
         NEW t \in Seq(Bytes), Len(t) # 0, \A k \in 1..Len(t) : t[k].kind = "char",
         1 + INT_BYTES + Len(t) <= INT_MAX
  PROVE  Understood(Content(serialize_all(b, his(flag, t))))
<1>1. flag \in Int /\ Row(flag) = String
  BY FlagsAreInts, RowsOfFlags
<1>2. String \o <<>> = String
  BY PlayerIsWant, WithNothing
<1>3. Says(b, his(flag, t), <<>>) /\ Written(b, his(flag, t)) = 1 + INT_BYTES + Len(t)
  BY <1>1, <1>2, NothingIsSettled, SaysHis
<1>4. <<>> \in Well
  BY DEF Well
<1> QED BY <1>3, <1>4, SaidIsUnderstood

\* A change of the player list.
LEMMA ChangeUnderstood ==
  ASSUME NEW online \in Int, NEW c \in Clients
  PROVE  Understood(Message(player_list_change(online)))
<1> DEFINE h == <<Header(PLAYER_LIST_CHANGE)>>
<1>1. Says(new_buffer, h, Player \o <<>>) /\ Written(new_buffer, h) = 1
  <2>1. PLAYER_LIST_CHANGE \in Int /\ Row(PLAYER_LIST_CHANGE) = Player
    BY FlagsAreInts, RowsOfFlags
  <2>2. Player \o <<>> = Player
    BY PlayerIsWant, WithNothing
  <2> QED BY <2>1, <2>2, NewBufferIsEmpty, SaysHeader
<1>2. player_list_change(online) = Append(Append(Append(h, Int32(NAME_LEN)), Name), Byte(online))
  <2> DEFINE x == Header(PLAYER_LIST_CHANGE)
             a == Int32(NAME_LEN)
             e == Name
             d == Byte(online)
             T == {x, a, e, d}
  <2>1. x \in T /\ a \in T /\ e \in T /\ d \in T
    OBVIOUS
  <2> HIDE DEF x, a, e, d, T
  <2>2. <<x>> \o <<a, e, d>> = Append(Append(Append(<<x>>, a), e), d)
    BY <2>1
  <2> QED BY <2>2 DEF player_list_change, player, x, a, e, d
<1> HIDE DEF h
<1>3. /\ Says(new_buffer, player_list_change(online), <<>>)
      /\ Written(new_buffer, player_list_change(online)) = 1 + (INT_BYTES + NAME_LEN + 1)
  BY <1>1, <1>2, NewBufferIsEmpty, NothingIsSettled, SaysPlayer
<1>4. <<>> \in Well /\ 1 + (INT_BYTES + NAME_LEN + 1) <= INT_MAX
  <2>1. 0 \in Nat /\ 0 <= Cardinality(Clients)
    BY WireAssumption, FS_CardinalityType
  <2> QED BY <2>1, IntsCountPlayers DEF Well
<1> QED BY <1>3, <1>4, SaidIsUnderstood DEF Message

\* How many play, and how many are needed.
LEMMA WaitingUnderstood ==
  ASSUME NEW connected \in Int, NEW min \in Int
  PROVE  Understood(Message(waiting_for_players(connected, min)))
<1> DEFINE h == <<Header(WAITING_FOR_PLAYERS)>>
           one == All("int", INT_BYTES)
           x == Int32(connected)
           y == Int32(min)
<1>1. INT_BYTES \in Nat \ {0} /\ "int" \in Plain /\ "int" \in Waits
  BY BufferAssumption DEF Plain, Waits
<1>2. one \in Wants /\ Settled(one) /\ one \o <<>> = one
  BY <1>1, PlainIsSettled, NothingIsSettled, WithNothing
<1>3. Ints(2) = one \o one
  <2> DEFINE two == All("int", 2 * INT_BYTES)
  <2>1. Ints(2) = two
    BY IntsAreWants
  <2>2. 2 * INT_BYTES \in Nat /\ 2 * INT_BYTES = INT_BYTES + INT_BYTES
    BY <1>1
  <2>3. /\ two \in Seq(Waits) /\ Len(two) = INT_BYTES + INT_BYTES
        /\ \A k \in 1..(INT_BYTES + INT_BYTES) : two[k] = "int"
    BY <1>1, <2>2, AllAreWants DEF Wants
  <2>4. /\ one \in Seq(Waits) /\ Len(one) = INT_BYTES /\ \A k \in 1..INT_BYTES : one[k] = "int"
    BY <1>1, AllAreWants DEF Wants
  <2> HIDE DEF one, two
  <2>5. /\ one \o one \in Seq(Waits) /\ Len(one \o one) = INT_BYTES + INT_BYTES
        /\ \A k \in 1..(INT_BYTES + INT_BYTES) : (one \o one)[k] = "int"
    BY <1>1, <2>4
  <2> DEFINE both == one \o one
  <2>6. both \in Seq(Waits) /\ Len(two) = Len(both) /\ \A k \in 1..Len(two) : two[k] = both[k]
    BY <2>3, <2>5
  <2> HIDE DEF both
  <2>7. two = both
    BY <2>3, <2>6, SeqEqual
  <2> QED BY <2>1, <2>7 DEF both
<1> HIDE DEF one
<1>4. Says(new_buffer, h, one \o one) /\ Written(new_buffer, h) = 1
  <2>1. WAITING_FOR_PLAYERS \in Int /\ Row(WAITING_FOR_PLAYERS) = Ints(2)
    BY FlagsAreInts, RowsOfFlags
  <2> QED BY <1>3, <2>1, NewBufferIsEmpty, SaysHeader
<1> HIDE DEF h
<1>5. Says(new_buffer, Append(h, x), one)
  BY <1>1, <1>2, <1>4, NewBufferIsEmpty, SaysParts DEF one, Int32
<1>6. Says(new_buffer, Append(h, x), one \o <<>>)
  BY <1>2, <1>5
<1>7. Says(new_buffer, Append(Append(h, x), y), <<>>)
  <2> DEFINE q == Append(h, x)
  <2> HIDE DEF q, x
  <2> QED BY <1>1, <1>6, NewBufferIsEmpty, NothingIsSettled, SaysParts DEF one, Int32, q
<1>8. waiting_for_players(connected, min) = Append(Append(h, x), y)
  <2> DEFINE a == Header(WAITING_FOR_PLAYERS)
             T == {a, x, y}
  <2>1. a \in T /\ x \in T /\ y \in T
    OBVIOUS
  <2> HIDE DEF a, x, y, T
  <2>2. <<a, x, y>> = Append(Append(<<a>>, x), y)
    BY <2>1
  <2> QED BY <2>2 DEF waiting_for_players, h, a, x, y
<1>9. Says(new_buffer, waiting_for_players(connected, min), <<>>)
  BY <1>7, <1>8
<1>10. Written(new_buffer, Append(Append(h, x), y)) = 1 + 2 * INT_BYTES
  <2>1. x \in Seq(Bytes) /\ Len(x) = INT_BYTES /\ y \in Seq(Bytes) /\ Len(y) = INT_BYTES
    BY ValuesAreBytes
  <2>2. h \in Seq(Seq(Bytes))
    BY <1>4 DEF Says
  <2> HIDE DEF x, y
  <2>3. Written(new_buffer, Append(Append(h, x), y)) = Written(new_buffer, h) + Len(x) + Len(y)
    BY <2>1, <2>2, NewBufferIsEmpty, WrittenTwoMore
  <2> QED BY <1>1, <1>4, <2>1, <2>3
<1>11. <<>> \in Well /\ Written(new_buffer, waiting_for_players(connected, min)) <= INT_MAX
  BY <1>8, <1>10, IntsCountMessages DEF Well
<1> QED BY <1>9, <1>11, SaidIsUnderstood DEF Message

\* The rounds begin.
LEMMA StartsUnderstood ==
  Understood(Message(game_draw_start)) /\ Understood(Message(game_guess_start))
<1> DEFINE time == All("time", TIME_BYTES)
<1>1. TIME_BYTES \in Nat \ {0} /\ "time" \in Plain
  BY BufferAssumption DEF Plain
<1>2. time \in Wants /\ Settled(time) /\ time \o <<>> = time
  BY <1>1, PlainIsSettled, NothingIsSettled, WithNothing
<1>3. START_AND_DRAW \in Int /\ START_AND_GUESS \in Int
      /\ Row(START_AND_DRAW) = String \o time /\ Row(START_AND_GUESS) = time
  BY FlagsAreInts, RowsOfFlags
<1> HIDE DEF time
<1>4. /\ Says(new_buffer, game_draw_start, <<>>)
      /\ Written(new_buffer, game_draw_start) = 1 + INT_BYTES + WORD_LEN + TIME_BYTES
  <2> DEFINE q == his(START_AND_DRAW, Word)
  <2>1. /\ Says(new_buffer, q, time \o <<>>)
        /\ Written(new_buffer, q) = 1 + INT_BYTES + WORD_LEN
    BY <1>2, <1>3, NamesAreChars, NewBufferIsEmpty, SaysHis
  <2> HIDE DEF q
  <2>2. Says(new_buffer, Append(q, Time), <<>>)
    BY <2>1, NewBufferIsEmpty, NothingIsSettled, SaysTime DEF time
  <2>3. Written(new_buffer, Append(q, Time)) = 1 + INT_BYTES + WORD_LEN + TIME_BYTES
    BY <2>1, NewBufferIsEmpty, ValuesAreBytes, WrittenOneMore DEF Says, Empty
  <2> QED BY <2>2, <2>3 DEF game_draw_start, q
<1>5. /\ Says(new_buffer, game_guess_start, <<>>)
      /\ Written(new_buffer, game_guess_start) = 1 + TIME_BYTES
  <2> DEFINE x == Header(START_AND_GUESS)
             y == Time
             T == {x, y}
  <2>1. Says(new_buffer, <<x>>, time \o <<>>) /\ Written(new_buffer, <<x>>) = 1
    BY <1>2, <1>3, NewBufferIsEmpty, SaysHeader
  <2>2. x \in T /\ y \in T
    OBVIOUS
  <2> HIDE DEF x, T, y
  <2>3. Says(new_buffer, Append(<<x>>, y), <<>>)
    BY <2>1, NewBufferIsEmpty, NothingIsSettled, SaysTime DEF time, y
  <2>4. <<x, y>> = Append(<<x>>, y)
    BY <2>2
  <2>5. Written(new_buffer, Append(<<x>>, y)) = 1 + TIME_BYTES
    <3> DEFINE h == <<x>>
    <3>1. h \in Seq(Seq(Bytes)) /\ y \in Seq(Bytes) /\ Len(y) = TIME_BYTES
      BY <2>1, ValuesAreBytes DEF Says, y
    <3> HIDE DEF h
    <3>2. Written(new_buffer, Append(h, y)) = Written(new_buffer, h) + Len(y)
      BY <3>1, NewBufferIsEmpty, WrittenOneMore DEF Empty
    <3> QED BY <2>1, <3>1, <3>2 DEF h
  <2> QED BY <2>3, <2>4, <2>5 DEF game_guess_start, x, y
<1>6. <<>> \in Well
  BY DEF Well
<1> QED BY <1>4, <1>5, <1>6, IntsCountMessages, SaidIsUnderstood DEF Message

\* More fields leave a client misled.
LEMMA SaysOnceMisled ==
  ASSUME NEW b, Empty(b), NEW q, Says(b, q, Misled), NEW x \in Seq(Bytes)
  PROVE  Says(b, Append(q, x), Misled)
BY SaysOneMore, MisledForEver

\* A client joins the round: waiting for the end of the round, it is misled by its role.
LEMMA JoiningMisleads ==
  ASSUME NEW second_flag \in {START_AND_DRAW, START_AND_GUESS}
  PROVE  Understood(Message(game_in_progress(second_flag)))
<1> DEFINE x == Header(GAME_IN_PROGRESS)
           y == Header(second_flag)
           time == Time
           canvas == Bitarray
           h == Append(<<x>>, y)
<1>1. /\ GAME_IN_PROGRESS \in Int /\ second_flag \in Int
      /\ Row(GAME_IN_PROGRESS) = All("round_end", TIME_BYTES)
  BY FlagsAreInts, RowsOfFlags
<1>2. Says(new_buffer, <<x>>, Row(GAME_IN_PROGRESS)) /\ Written(new_buffer, <<x>>) = 1
  BY <1>1, NewBufferIsEmpty, SaysHeader
<1>3. /\ x \in Seq(Bytes) /\ y \in Seq(Bytes) /\ Len(y) = 1
      /\ HearAll(Row(GAME_IN_PROGRESS), y) = Misled
  BY <1>1, HeaderHeard, SaysHeader, NewBufferIsEmpty
<1>4. time \in Seq(Bytes) /\ Len(time) = TIME_BYTES /\ canvas \in Seq(Bytes)
      /\ Len(canvas) = CANVAS_BYTES
  BY ValuesAreBytes
<1>5. Misled \in Well /\ TIME_BYTES \in Nat /\ CANVAS_BYTES \in Nat /\ INT_BYTES \in Nat
      /\ WORD_LEN \in Nat
  BY BufferAssumption, TextAssumption DEF Well
<1>6. <<x, y>> = h
  BY <1>3, Tuples
<1> HIDE DEF time, canvas, x, y
<1>7. Says(new_buffer, h, Misled) /\ h \in Seq(Seq(Bytes))
  <2> DEFINE q == <<x>>
             w == Row(GAME_IN_PROGRESS)
  <2>1. Says(new_buffer, q, w) /\ HearAll(w, y) = Misled
    BY <1>2, <1>3
  <2> HIDE DEF q, w
  <2>2. Says(new_buffer, Append(q, y), Misled)
    BY <1>3, <2>1, NewBufferIsEmpty, SaysOneMore
  <2>3. Says(new_buffer, h, Misled)
    BY <2>2 DEF q
  <2> HIDE DEF h
  <2> QED BY <2>3 DEF Says
<1>8. Written(new_buffer, h) = 2
  <2> DEFINE q == <<x>>
  <2>1. q \in Seq(Seq(Bytes))
    BY <1>3
  <2> HIDE DEF q
  <2>2. Written(new_buffer, Append(q, y)) = Written(new_buffer, q) + Len(y)
    BY <1>3, <2>1, NewBufferIsEmpty, WrittenOneMore DEF Empty
  <2> QED BY <1>2, <1>3, <2>2 DEF q
<1> HIDE DEF h
<1>9. ASSUME NEW q, Says(new_buffer, q, Misled),
             Written(new_buffer, q) + TIME_BYTES + CANVAS_BYTES <= INT_MAX
      PROVE  Understood(Message(q \o <<time, canvas>>))
  <2> DEFINE r == Append(q, time)
             s == Append(r, canvas)
  <2>1. q \in Seq(Seq(Bytes))
    BY <1>9 DEF Says
  <2>2. Written(new_buffer, s) = Written(new_buffer, q) + TIME_BYTES + CANVAS_BYTES
    BY <1>4, <2>1, NewBufferIsEmpty, WrittenTwoMore
  <2>3. Says(new_buffer, r, Misled)
    BY <1>4, <1>9, NewBufferIsEmpty, SaysOnceMisled
  <2>4. q \o <<time, canvas>> = s
    <3> DEFINE T == Seq(Bytes)
    <3>1. q \in Seq(T) /\ time \in T /\ canvas \in T
      BY <1>4, <2>1
    <3> HIDE DEF T
    <3> QED BY <3>1
  <2> HIDE DEF r
  <2>5. Says(new_buffer, s, Misled)
    BY <1>4, <2>3, NewBufferIsEmpty, SaysOnceMisled
  <2> HIDE DEF s
  <2>6. Written(new_buffer, s) <= INT_MAX
    BY <1>9, <2>2
  <2>7. Understood(Content(serialize_all(new_buffer, s)))
    BY <1>5, <2>5, <2>6, SaidIsUnderstood
  <2> QED BY <2>4, <2>7 DEF Message
<1>10. CASE second_flag = START_AND_DRAW
  <2> DEFINE n == Int32(WORD_LEN)
             w == Word
             q == Append(h, n)
             r == Append(q, w)
  <2>1. n \in Seq(Bytes) /\ Len(n) = INT_BYTES /\ w \in Seq(Bytes) /\ Len(w) = WORD_LEN
    BY <1>5, ValuesAreBytes, NamesAreChars
  <2> HIDE DEF n, w
  <2>2. Written(new_buffer, r) = 2 + INT_BYTES + WORD_LEN
    BY <1>7, <1>8, <2>1, NewBufferIsEmpty, WrittenTwoMore
  <2>3. Says(new_buffer, q, Misled)
    BY <1>7, <2>1, NewBufferIsEmpty, SaysOnceMisled
  <2>4. h \o <<n, w>> = r
    <3> DEFINE T == Seq(Bytes)
    <3>1. h \in Seq(T) /\ n \in T /\ w \in T
      BY <1>7, <2>1
    <3> HIDE DEF T
    <3> QED BY <3>1
  <2> HIDE DEF q
  <2>5. Says(new_buffer, r, Misled)
    BY <2>1, <2>3, NewBufferIsEmpty, SaysOnceMisled
  <2> HIDE DEF r
  <2>6. Understood(Message(r \o <<time, canvas>>))
    BY <1>5, <1>9, <2>2, <2>5, IntsCountMessages
  <2>7. game_in_progress(second_flag) = (h \o <<n, w>>) \o <<time, canvas>>
    BY <1>6, <1>10 DEF game_in_progress, x, y, n, w, time, canvas
  <2> QED BY <2>4, <2>6, <2>7
<1>11. CASE second_flag # START_AND_DRAW
  <2>1. Understood(Message(h \o <<time, canvas>>))
    BY <1>5, <1>7, <1>8, <1>9, IntsCountMessages
  <2>2. h \o <<>> = h
    BY <1>7
  <2>3. game_in_progress(second_flag) = (h \o <<>>) \o <<time, canvas>>
    BY <1>6, <1>11 DEF game_in_progress, x, y, time, canvas
  <2> QED BY <2>1, <2>2, <2>3
<1> QED BY <1>10, <1>11

\* A player begins with a number, and so do several.
LEMMA PlayersAreSettled ==
  ASSUME NEW n \in Nat
  PROVE  Repeated(Player, n) \in Wants /\ Settled(Repeated(Player, n))
<1>1. Player \in Seq(Waits)
  BY PlayerIsWant DEF Wants
<1>2. Repeated(Player, n) \in Wants
  BY <1>1, RepeatedFirst DEF Wants
<1>3. CASE n = 0
  <2>1. Repeated(Player, 0) = <<>>
    BY <1>1, RepeatedMore
  <2> QED BY <1>2, <1>3, <2>1, NothingIsSettled
<1>4. CASE n # 0
  <2> DEFINE m == n - 1
             r == Repeated(Player, m)
             more == <<"STR">> \o (<<"byte">> \o r)
  <2>1. m \in Nat /\ m + 1 = n
    BY <1>4
  <2> HIDE DEF m
  <2>2. r \in Seq(Waits) /\ Repeated(Player, n) = Player \o r
    BY <1>1, <2>1, RepeatedFirst
  <2>3. /\ Ints(1) \in Seq(Waits) /\ String = Ints(1) \o <<"STR">> /\ Player = String \o <<"byte">>
        /\ Ints(1) = All("int", INT_BYTES) /\ INT_BYTES \in Nat \ {0}
    <3>1. 1 * INT_BYTES = INT_BYTES
      BY BufferAssumption
    <3> QED BY <3>1, BufferAssumption, IntsAreWants, PlayerIsWant DEF Wants
  <2> HIDE DEF r
  <2>4. <<"STR">> \in Seq(Waits) /\ <<"byte">> \in Seq(Waits)
    BY DEF Waits
  <2>5. <<"byte">> \o r \in Seq(Waits) /\ more \in Seq(Waits)
    BY <2>2, <2>4
  <2>6. Player \o r = Ints(1) \o more
    <3>1. String \in Seq(Waits)
      BY PlayerIsWant DEF Wants
    <3>2. (String \o <<"byte">>) \o r = String \o (<<"byte">> \o r)
      BY <2>2, <2>4, <3>1, Regrouped
    <3> DEFINE z == <<"byte">> \o r
    <3> HIDE DEF z
    <3>3. z \in Seq(Waits)
      BY <2>5 DEF z
    <3>4. (Ints(1) \o <<"STR">>) \o z = Ints(1) \o (<<"STR">> \o z)
      BY <2>3, <2>4, <3>3, Regrouped
    <3> QED BY <2>3, <3>2, <3>4, Zenon DEF z
  <2> HIDE DEF more
  <2>7. "int" \in Plain
    BY DEF Plain
  <2>8. Settled(Ints(1) \o more)
    BY <2>3, <2>5, <2>7, PlainIsSettled DEF Wants
  <2> QED BY <1>2, <2>2, <2>6, <2>8
<1> QED BY <1>3, <1>4

\* The list of players: as many as it says.
LEMMA ListUnderstood ==
  ASSUME NEW e \in Clients, NEW count \in Nat, count <= Cardinality(Clients)
  PROVE  Understood(Message(player_list(count)))
<1> DEFINE h == Header(PLAYER_LIST)
           n == Int32(count)
           begin == <<h, n>>
           p == player(1)
           fields(c) == begin \o Repeated(p, c)
           size(c) == 1 + INT_BYTES + c * (INT_BYTES + NAME_LEN + 1)
           S == {c \in 0..count : /\ Says(new_buffer, fields(c), Repeated(Player, count - c))
                                  /\ Written(new_buffer, fields(c)) = size(c)}
<1>1. h \in Seq(Bytes) /\ n \in Seq(Bytes) /\ count \in Int
  <2>1. PLAYER_LIST \in Int
    BY FlagsAreInts
  <2>2. h \in Seq(Bytes)
    BY <2>1, NothingIsSettled, HeaderHeard
  <2>3. n \in Seq(Bytes)
    BY BufferAssumption, NothingIsSettled, PartsHeard DEF Int32, Plain
  <2> QED BY <2>2, <2>3
<1>2. p \in Seq(Seq(Bytes)) /\ p = <<Int32(NAME_LEN), Name, Byte(1)>>
      /\ Int32(NAME_LEN) \in Seq(Bytes) /\ Byte(1) \in Seq(Bytes)
  <2>1. Int32(NAME_LEN) \in Seq(Bytes)
    BY BufferAssumption, TextAssumption, NothingIsSettled, PartsHeard DEF Int32, Plain
  <2>2. Byte(1) \in Seq(Bytes)
    BY NothingIsSettled, PartsHeard DEF Byte, Plain
  <2> QED BY <2>1, <2>2, NamesAreChars DEF player
<1>3. begin \in Seq(Seq(Bytes)) /\ begin = Append(<<h>>, n)
  BY <1>1
<1>10. Written(new_buffer, begin) = 1 + INT_BYTES
  <2>1. Written(new_buffer, <<h>>) = 1
    BY FlagsAreInts, NewBufferIsEmpty, SaysHeader
  <2>2. Len(n) = INT_BYTES
    BY <1>1, ValuesAreBytes
  <2> DEFINE q == <<h>>
  <2>3. q \in Seq(Seq(Bytes))
    BY <1>1
  <2> HIDE DEF q, h, n, begin
  <2>4. Written(new_buffer, Append(q, n)) = Written(new_buffer, q) + Len(n)
    BY <1>1, <2>3, NewBufferIsEmpty, WrittenOneMore DEF Empty
  <2> QED BY <1>3, <2>1, <2>2, <2>4 DEF q
<1>11. INT_BYTES \in Nat /\ NAME_LEN \in Nat
  BY BufferAssumption, TextAssumption
<1>4. Says(new_buffer, begin, Repeated(Player, count))
  <2> DEFINE w == <<"PLAYERS">>
  <2>1. PLAYER_LIST \in Int /\ Row(PLAYER_LIST) = Ints(1) \o w
    BY FlagsAreInts, RowsOfFlags
  <2>2. w \in Wants /\ w # <<>> /\ w[1] \in Arrays /\ w[1] = "PLAYERS" /\ Tail(w) = <<>>
    BY DEF Wants, Waits, Arrays
  <2> HIDE DEF w, begin, n
  <2>3. Says(new_buffer, <<h>>, Ints(1) \o w)
    BY <2>1, NewBufferIsEmpty, SaysHeader
  <2> HIDE DEF h
  <2>4. Says(new_buffer, Append(<<h>>, n), Continued(w, count))
    BY <1>1, <2>2, <2>3, NewBufferIsEmpty, SaysInt DEF n
  <2>5. Continued(w, count) = Repeated(Player, count)
    <3>1. Items("PLAYERS", count) = Repeated(Player, count) /\ Items("PLAYERS", count) \in Wants
      BY <1>1, <2>2, ItemsAreWants
    <3>2. Items("PLAYERS", count) \o <<>> = Items("PLAYERS", count)
      BY <3>1, WithNothing
    <3> QED BY <2>2, <3>1, <3>2 DEF Continued
  <2> QED BY <1>3, <2>4, <2>5
<1> HIDE DEF h, n, begin, p
<1>5. \A c \in Nat : /\ Repeated(p, c) \in Seq(Seq(Bytes)) /\ Repeated(p, 0) = <<>>
                     /\ Repeated(p, c + 1) = Repeated(p, c) \o p
  BY <1>2, RepeatedMore, RepeatedFirst
<1>6. ASSUME NEW c \in 0..count, \A m \in 0..(c - 1) : m \in S PROVE c \in S
  <2>1. CASE c = 0
    <3>1. begin \o <<>> = begin
      BY <1>3
    <3>2. Repeated(p, 0) = <<>>
      BY <1>5
    <3>3. count - c = count
      BY <2>1
    <3>4. size(c) = 1 + INT_BYTES
      BY <1>11, <2>1
    <3> HIDE DEF size
    <3> QED BY <1>4, <1>10, <2>1, <3>1, <3>2, <3>3, <3>4
  <2>2. CASE c # 0
    <3> DEFINE m == c - 1
               k == count - c
    <3>1. m \in Nat /\ k \in Nat /\ m \in 0..(c - 1) /\ m + 1 = c /\ count - m = k + 1
      BY <2>2
    <3>2. m \in S
      BY <1>6, <3>1
    <3> DEFINE r == Repeated(Player, k)
               q == begin \o Repeated(p, m)
    <3>3. /\ Says(new_buffer, q, Repeated(Player, k + 1))
          /\ Written(new_buffer, q) = size(m)
      BY <3>1, <3>2
    <3>9. size(c) = size(m) + (INT_BYTES + NAME_LEN + 1)
      <4> DEFINE l == INT_BYTES + NAME_LEN + 1
      <4>1. l \in Nat /\ INT_BYTES \in Nat
        BY <1>11
      <4> HIDE DEF l
      <4>2. c * l = m * l + l
        BY <2>2, <4>1
      <4>3. c * l \in Nat /\ m * l \in Nat
        BY <3>1, <4>1
      <4>4. 1 + INT_BYTES + c * l = 1 + INT_BYTES + m * l + l
        BY <4>1, <4>2, <4>3
      <4> QED BY <4>4 DEF l
    <3> HIDE DEF m, k, size
    <3>4. r \in Wants /\ Settled(r) /\ Repeated(Player, k + 1) = Player \o r
      <4>1. Player \in Seq(Waits)
        BY PlayerIsWant DEF Wants
      <4> QED BY <3>1, <4>1, PlayersAreSettled, RepeatedFirst
    <3> HIDE DEF r
    <3> DEFINE u == Repeated(p, m)
    <3>5. u \in Seq(Seq(Bytes)) /\ Repeated(p, m + 1) = u \o p
      BY <1>5, <3>1
    <3>6. fields(c) = q \o p /\ q \in Seq(Seq(Bytes))
      <4>0. Repeated(p, c) = u \o p
        BY <3>1, <3>5
      <4> HIDE DEF u
      <4>1. begin \o (u \o p) = (begin \o u) \o p /\ begin \o u \in Seq(Seq(Bytes))
        <5> DEFINE T == Seq(Bytes)
        <5>1. begin \in Seq(T) /\ u \in Seq(T) /\ p \in Seq(T)
          BY <1>2, <1>3, <3>5
        <5> HIDE DEF T
        <5>2. begin \o (u \o p) = (begin \o u) \o p /\ begin \o u \in Seq(T)
          BY <5>1, Regrouped
        <5> QED BY <5>2 DEF T
      <4> QED BY <4>0, <4>1 DEF u
    <3> HIDE DEF q
    <3>7. q \o p = Append(Append(Append(q, Int32(NAME_LEN)), Name), Byte(1))
      <4> DEFINE T == Seq(Bytes)
                 x == Int32(NAME_LEN)
                 y == Name
                 z == Byte(1)
      <4>1. q \in Seq(T) /\ x \in T /\ y \in T /\ z \in T /\ p = <<x, y, z>>
        BY <1>2, <3>6, NamesAreChars
      <4> HIDE DEF T, x, y, z
      <4>2. q \o <<x, y, z>> = Append(Append(Append(q, x), y), z)
        BY <4>1
      <4> QED BY <4>1, <4>2 DEF x, y, z
    <3>8. /\ Says(new_buffer, q \o p, r)
          /\ Written(new_buffer, q \o p) = Written(new_buffer, q) + (INT_BYTES + NAME_LEN + 1)
      <4>1. Says(new_buffer, q, Player \o r)
        BY <3>3, <3>4
      <4>2. 1 \in Int
        OBVIOUS
      <4>3. LET u3 == Append(Append(Append(q, Int32(NAME_LEN)), Name), Byte(1))
            IN  /\ Says(new_buffer, u3, r)
                /\ Written(new_buffer, u3) = Written(new_buffer, q) + (INT_BYTES + NAME_LEN + 1)
        BY <3>4, <4>1, <4>2, NewBufferIsEmpty, SaysPlayer
      <4> QED BY <3>7, <4>3
    <3>10. Written(new_buffer, fields(c)) = size(c)
      BY <3>3, <3>6, <3>8, <3>9
    <3> QED BY <3>6, <3>8, <3>10 DEF r, k
  <2> QED BY <2>1, <2>2
<1> HIDE DEF S
<1>7. \A c \in 0..count : c \in S
  BY <1>6, UpTo
<1>8. count \in S
  BY <1>7
<1>9. /\ Says(new_buffer, player_list(count), <<>>)
      /\ Written(new_buffer, player_list(count)) = size(count)
  <2>1. /\ Says(new_buffer, fields(count), Repeated(Player, count - count))
        /\ Written(new_buffer, fields(count)) = size(count)
    BY <1>8 DEF S
  <2>2. Repeated(Player, 0) = <<>>
    <3>1. Player \in Seq(Waits)
      BY PlayerIsWant DEF Wants
    <3> QED BY <3>1, RepeatedMore
  <2>3. player_list(count) = fields(count)
    BY DEF player_list, Repeated, begin, h, n, p
  <2>4. count - count = 0
    OBVIOUS
  <2> HIDE DEF size
  <2> QED BY <2>1, <2>2, <2>3, <2>4
<1>12. <<>> \in Well /\ size(count) <= INT_MAX
  BY IntsCountPlayers DEF Well
<1> HIDE DEF size
<1>13. Written(new_buffer, player_list(count)) <= INT_MAX
  BY <1>9, <1>12
<1> QED BY <1>9, <1>12, <1>13, SaidIsUnderstood DEF Message

-----------------------------------------------------------------------------
(* What is sent on of what a client has sent *)

\* A row of characters.
Chars(t) == t \in Seq(Bytes) /\ \A k \in 1..Len(t) : t[k].kind = "char"

LEMMA TextIsChars ==
  ASSUME NEW which \in Int, NEW n \in Int
  PROVE  Chars(Text(which, n)) /\ Len(Text(which, n)) = Following(n)
<1> DEFINE t == Text(which, n)
<1>1. t \in Seq(Bytes) /\ Len(t) = Following(n)
  BY TextsAreSeqs DEF Following
<1>2. ASSUME NEW k \in 1..n PROVE t[k].kind = "char"
  <2>1. t[k] = [kind |-> "char", value |-> which, part |-> k]
    BY TextsAreSeqs
  <2> HIDE DEF t
  <2> QED BY <2>1
<1> HIDE DEF t
<1>3. \A k \in 1..Len(t) : k \in 1..n
  BY <1>1 DEF Following
<1> QED BY <1>1, <1>2, <1>3 DEF Chars, t

\* Whatever begins like a drawing is one, unless its length is below zero.
LEMMA DrawingsByHeader ==
  ASSUME NEW m \in FromClient, m[1].value = CANVAS
  PROVE  (\E d \in Strokes : m = ClientDrawing(d)) \/ m[INT_OFFSET + 1].value < 0
<1>1. ASSUME NEW f \in {LOGIN, CHAT, CANVAS}, NEW which \in Int, NEW n \in Lengths,
             m = ClientText(f, which, n)
      PROVE  f = CANVAS /\ m[INT_OFFSET + 1].value = n
  <2>1. n \in Int
    BY LengthsAreInts
  <2> DEFINE t == Text(which, n)
  <2>2. m = Headed(f, n, t)
    BY <1>1 DEF ClientText, Headed
  <2>5. Chars(t)
    BY <2>1, TextIsChars
  <2> HIDE DEF t
  <2>3. t \in Seq(Bytes) /\ Headless(t) /\ f \in Int
    BY <2>5, FlagsDiffer DEF Chars, Headless
  <2>4. IsHeaded(m, f, n, t)
    BY <2>1, <2>2, <2>3, HeadedBytes, Zenon
  <2> QED BY <2>4 DEF IsHeaded
<1>2. CASE \E d \in Strokes : m = ClientDrawing(d)
  BY <1>2
<1>3. CASE \E flag \in {LOGIN, CHAT, CANVAS}, text \in {VALID, INVALID, Sentence},
            n \in Lengths :
              /\ m = ClientText(flag, text, n)
              /\ flag = CANVAS => n < 0
              /\ flag # CANVAS => text \in TextsOf(flag)
  <2>1. PICK flag \in {LOGIN, CHAT, CANVAS}, text \in {VALID, INVALID, Sentence},
             n \in Lengths : m = ClientText(flag, text, n) /\ (flag = CANVAS => n < 0)
    BY <1>3
  <2>2. text \in Int
    BY DEF VALID, INVALID, Sentence
  <2>3. flag = CANVAS /\ m[INT_OFFSET + 1].value = n
    BY <1>1, <2>1, <2>2
  <2> QED BY <2>1, <2>3
<1> QED BY <1>2, <1>3, WhatClientsSend, Zenon

\* A client understands the drawing of another.
LEMMA DrawingUnderstood ==
  ASSUME NEW d \in Strokes
  PROVE  Understood(ClientDrawing(d))
<1> DEFINE n == Len(d)
           h == Header(CANVAS)
           i == Int32(n)
           w == <<"DIFFS">>
<1>1. d \in Seq(Int)
  BY WireAssumption
<1>2. n \in Nat /\ n \in Int
  BY <1>1
<1>3. PICK t \in Seq(Bytes) : /\ Len(t) = n * INT_BYTES
                              /\ \A k \in 1..Len(t) : t[k].kind = "int"
                              /\ ClientDrawing(d) = Headed(CANVAS, n, t)
  BY <1>1, StrokeBytes
<1> HIDE DEF n
<1>4. /\ h \in Seq(Bytes) /\ HearAll(<<>>, h) = Ints(1) \o w
  <2>1. CANVAS \in Int /\ Row(CANVAS) = Ints(1) \o w
    BY FlagsAreInts, RowsOfFlags
  <2> HIDE DEF w
  <2> QED BY <2>1, NothingIsSettled, HeaderHeard
<1>5. w \in Wants /\ w # <<>> /\ w[1] = "DIFFS" /\ w[1] \in Arrays /\ Tail(w) = <<>>
  BY DEF Wants, Waits, Arrays
<1> HIDE DEF w, h
<1>6. /\ i \in Seq(Bytes) /\ HearAll(Ints(1) \o w, i) = Continued(w, n)
      /\ INT_BYTES \in Nat \ {0} /\ "int" \in Plain
  <2>1. Ints(1) = All("int", INT_BYTES) /\ INT_BYTES \in Nat \ {0}
    <3>1. 1 * INT_BYTES = INT_BYTES
      BY BufferAssumption
    <3> QED BY <3>1, BufferAssumption, IntsAreWants
  <2>2. "int" \in Plain
    BY DEF Plain
  <2> QED BY <1>2, <1>5, <2>1, <2>2, PartsHeard DEF Int32
<1>7. Continued(w, n) = Ints(n) /\ Ints(n) \in Wants
  <2>1. Items("DIFFS", n) = Ints(n) /\ Ints(n) \in Wants
    BY <1>2, <1>5, ItemsAreWants, IntsAreWants
  <2>2. Ints(n) \o <<>> = Ints(n)
    BY <2>1, WithNothing
  <2> QED BY <1>5, <2>1, <2>2 DEF Continued
<1> HIDE DEF i
<1>8. HearAll(Ints(n), t) = <<>>
  <2> DEFINE l == n * INT_BYTES
  <2>1. l \in Nat /\ Ints(n) = All("int", l) /\ Len(t) = l
    BY <1>2, <1>3, <1>6, IntsAreWants
  <2> HIDE DEF l
  <2>2. CASE l = 0
    <3>1. t = <<>>
      BY <1>3, <2>1, <2>2
    <3>2. Ints(n) = <<>>
      <4>1. "int" \in Waits
        BY DEF Waits
      <4> QED BY <2>1, <2>2, <4>1, AllFirst
    <3>3. HearAll(<<>>, <<>>) = <<>>
      BY NothingIsSettled, ZeroIsByte, HeardFew
    <3> QED BY <3>1, <3>2, <3>3
  <2>3. CASE l # 0
    <3> DEFINE k == l - 1
    <3>1. k \in Nat /\ k + 1 = l
      BY <2>1, <2>3
    <3> HIDE DEF k
    <3>2. Len(t) = k + 1
      BY <2>1, <3>1
    <3>3. HearAll(All("int", k + 1) \o <<>>, t) = Continued(<<>>, t[k + 1].value)
      BY <1>3, <1>6, <3>1, <3>2, NothingIsSettled, FieldHeard
    <3>4. All("int", k + 1) \o <<>> = Ints(n)
      BY <1>7, <2>1, <3>1, WithNothing
    <3>5. Continued(<<>>, t[k + 1].value) = <<>>
      BY DEF Continued
    <3> QED BY <3>3, <3>4, <3>5
  <2> QED BY <2>2, <2>3
<1>9. /\ h \o i \in Seq(Bytes) /\ HearAll(<<>>, h \o i) = Ints(n)
  <2>1. HearAll(<<>>, h \o i) = HearAll(HearAll(<<>>, h), i)
    BY <1>4, <1>6, NothingIsSettled, HeardInTurn
  <2>2. HearAll(<<>>, h \o i) = Ints(n)
    BY <1>4, <1>6, <1>7, <2>1, Zenon
  <2>3. h \o i \in Seq(Bytes)
    BY <1>4, <1>6, Regrouped
  <2> QED BY <2>2, <2>3
<1>10. HearAll(<<>>, (h \o i) \o t) = <<>>
  <2> DEFINE a == h \o i
  <2> HIDE DEF a
  <2>1. a \in Seq(Bytes) /\ HearAll(<<>>, a) = Ints(n)
    BY <1>9 DEF a
  <2>2. HearAll(<<>>, a \o t) = HearAll(HearAll(<<>>, a), t)
    BY <2>1, NothingIsSettled, HeardInTurn
  <2> QED BY <1>8, <2>1, <2>2 DEF a
<1>11. ClientDrawing(d) = (h \o i) \o t /\ (h \o i) \o t \in Seq(Bytes)
  <2>1. ClientDrawing(d) = (h \o i) \o t
    BY <1>3 DEF Headed, h, i
  <2> QED BY <1>9, <2>1
<1> QED BY <1>10, <1>11 DEF Understood, Well

\* What has been received of a drawing is the drawing.
LEMMA ReceivedDrawingUnderstood ==
  ASSUME FInv, Received("diffs")
  PROVE  Understood(Content(Full))
<1> DEFINE n == buffer.data[INT_OFFSET + 1].value
<1>1. recving.from # None /\ recving.field = "diffs" /\ recving.total >= recving.size
      /\ ~Miscounted
  BY DEF Received
<1>2. InField
  BY <1>1 DEF FInv, Busy
<1>3. ExpectedFlag(recving.from) = CANVAS /\ recving.size = n * INT_BYTES
  BY <1>1, <1>2 DEF InField, unpack_int_var
<1>4. PICK m \in FromClient :
        /\ Len(m) = Done
        /\ \A k \in 1..Done : buffer.data[k] = m[k]
        /\ m[1].value = ExpectedFlag(recving.from)
  BY MessageReceived
<1>10. m[INT_OFFSET + 1].value = n /\ n \in Int /\ ~(n < 0)
  <2>1. IsMessage(m) /\ INT_OFFSET = 1 /\ STRING_OFFSET >= 2
    BY MessagesHaveShape, FlagsDiffer DEF STRING_OFFSET, INT_OFFSET
  <2>2. /\ Done \in Int /\ Done >= STRING_OFFSET /\ STRING_OFFSET \in Int
        /\ m[INT_OFFSET + 1].value \in Int
    BY <1>1, <1>4, <2>1, StreamByParts, FlagsDiffer DEF IsMessage, STRING_OFFSET, INT_OFFSET
  <2>3. INT_OFFSET + 1 \in 1..Done
    BY <2>1, <2>2
  <2>4. ~(n < 0)
    BY <1>1 DEF Miscounted, unpack_int_var
  <2> QED BY <1>4, <2>2, <2>3, <2>4
<1>5. PICK d \in Strokes : m = ClientDrawing(d)
  BY <1>3, <1>4, <1>10, DrawingsByHeader
<1>6. Understood(m)
  BY <1>5, DrawingUnderstood
<1>7. /\ buffer.data \in Seq(Bytes) /\ buffer.next \in Nat
      /\ recving.total = recving.size /\ Done \in 0..Len(buffer.data)
  <2>1. recving.size \in Nat
    BY <1>3, <1>10, FlagsDiffer
  <2> QED BY <1>1, <2>1, StreamByParts
<1>8. Full.data = buffer.data /\ Full.next = Done
  BY <1>7 DEF Full, Advanced, Done, FInv, IInv, ReceivesFit, IsBuffer
<1> HIDE DEF n
<1>9. Content(Full) = m
  <2> DEFINE q == Content(Full)
  <2>1. Done \in Nat /\ Done <= Len(buffer.data)
    BY <1>7
  <2>2. q \in Seq(Bytes) /\ Len(q) = Done /\ \A k \in 1..Done : q[k] = buffer.data[k]
    BY <1>7, <1>8, <2>1 DEF Content
  <2> HIDE DEF q
  <2>3. m \in Seq(Bytes)
    BY <1>6 DEF Understood
  <2>4. q = m
    <3>1. Len(q) = Len(m) /\ \A k \in 1..Len(q) : q[k] = m[k]
      BY <1>4, <2>2
    <3> QED BY <2>2, <2>3, <3>1, SeqEqual
  <2> QED BY <2>4 DEF q
<1> QED BY <1>6, <1>9

\* Whatever strcpy finds of a guess is characters, also when it reads on.
LEMMA GuessIsChars ==
  ASSUME FInv, Received("text"), NEW guess \in strcpy(Full, STRING_OFFSET)
  PROVE  Chars(guess)
<1> DEFINE c == recving.from
           n == recving.total
<1>1. c # None /\ recving.field = "text"
  BY DEF Received
<1>2. /\ buffer.data \in Seq(Bytes) /\ n \in Nat /\ Len(buffer.data) \in Nat
      /\ recving.size \in Int
  BY <1>1, StreamByParts
<1>4. CASE STRING_OFFSET + n # Len(buffer.data)
  <2>1. PICK which \in {VALID, INVALID, Sentence} : guess = Text(which, recving.size)
    BY <1>4, TextsAreHeard DEF HeardAsSent
  <2>2. which \in Int
    BY DEF VALID, INVALID, Sentence
  <2> QED BY <1>2, <2>1, <2>2, TextIsChars
<1>5. CASE STRING_OFFSET + n = Len(buffer.data)
  <2> DEFINE data == Full.data
             rest == SubSeq(data, STRING_OFFSET + 1, Len(data))
             ends == {k \in 1..Len(rest) : rest[k] = Zero}
  <2>1. data = buffer.data
    BY DEF Full, Advanced, FInv, IInv, ReceivesFit, IsBuffer
  <2>2. buffer.next = STRING_OFFSET /\ ExpectedFlag(c) # CANVAS
    BY <1>1 DEF FInv, Busy, InField
  <2>3. STRING_OFFSET \in Nat /\ Done = STRING_OFFSET + n
    BY <1>1, <2>2, FlagsDiffer DEF Done, STRING_OFFSET, INT_OFFSET
  <2>4. PICK m \in FromClient :
          /\ Len(m) = Done
          /\ \A k \in 1..Done : buffer.data[k] = m[k]
          /\ m[1].value = ExpectedFlag(c)
    BY MessageReceived
  <2> DEFINE l == m[INT_OFFSET + 1].value
  <2>5. /\ Len(m) = STRING_OFFSET + Following(l) /\ l \in Int
        /\ \E x \in TextsOf(ExpectedFlag(c)) :
             \A k \in 1..l : m[STRING_OFFSET + k] = Text(x, l)[k]
    BY <2>2, <2>4, MessagesHaveShape DEF IsMessage
  <2> HIDE DEF l
  <2>6. PICK x \in Int : \A k \in 1..l : m[STRING_OFFSET + k] = Text(x, l)[k]
    BY <2>5 DEF TextsOf, VALID, INVALID, Sentence
  <2>7. Following(l) = n /\ 1..l = 1..n /\ Chars(Text(x, l)) /\ Len(Text(x, l)) = n
    <3>1. Following(l) = n
      BY <1>2, <2>3, <2>4, <2>5 DEF Following
    <3>2. 1..l = 1..n
      BY <1>2, <2>5, <3>1 DEF Following
    <3> QED BY <2>5, <3>1, <3>2, TextIsChars
  <2>8. /\ rest \in Seq(Bytes) /\ Len(rest) = n
        /\ \A k \in 1..n : rest[k] = buffer.data[STRING_OFFSET + k]
    <3> HIDE DEF data
    <3> QED BY <1>2, <1>5, <2>1, <2>3
  <2> HIDE DEF rest, data
  <2>9. ASSUME NEW k \in 1..n PROVE rest[k].kind = "char"
    <3>1. STRING_OFFSET + k \in 1..Done
      BY <1>2, <2>3
    <3>2. rest[k] = Text(x, l)[k]
      BY <2>4, <2>6, <2>7, <2>8, <3>1
    <3> QED BY <2>7, <3>2 DEF Chars
  <2>10. Chars(rest)
    BY <2>8, <2>9 DEF Chars
  <2>11. Chars(Append(rest, Stray))
    <3>1. Stray \in Bytes /\ Stray.kind = "char"
      BY DEF Stray, Bytes, Kinds
    <3> DEFINE r == Append(rest, Stray)
    <3>2. /\ r \in Seq(Bytes) /\ Len(r) = n + 1 /\ r[n + 1] = Stray
          /\ \A k \in 1..n : r[k] = rest[k]
      BY <2>8, <3>1
    <3> HIDE DEF r
    <3>3. ASSUME NEW k \in 1..(n + 1) PROVE r[k].kind = "char"
      <4>1. k = n + 1 \/ k \in 1..n
        BY <1>2
      <4> QED BY <2>9, <3>1, <3>2, <4>1
    <3> QED BY <3>2, <3>3 DEF Chars, r
  <2>12. ends = {}
    <3>1. Zero.kind # "char"
      BY DEF Zero
    <3> QED BY <2>8, <2>9, <3>1
  <2>13. strcpy(Full, STRING_OFFSET)
           = IF ends = {} THEN {rest, Append(rest, Stray)}
             ELSE {SubSeq(rest, 1, k - 1) : k \in {j \in ends : \A e \in ends : j <= e}}
    BY Zenon DEF strcpy, rest, data
  <2> HIDE DEF ends
  <2> QED BY <2>10, <2>11, <2>12, <2>13
<1> QED BY <1>4, <1>5

\* What the others hear of it, cut or not.
LEMMA ToldIsChars ==
  ASSUME NEW guess, Chars(guess)
  PROVE  /\ Chars(Name) /\ Len(Name) # 0 /\ Len(Name) = NAME_LEN
         /\ Chars(Name \o Cut(guess)) /\ Len(Name \o Cut(guess)) # 0
         /\ Len(Name \o Cut(guess)) <= NAME_LEN + MAX_GUESS_LEN
<1>1. Chars(Name) /\ Len(Name) # 0 /\ Len(Name) = NAME_LEN
  BY NamesAreChars DEF Chars
<1>2. Chars(Cut(guess)) /\ Len(Cut(guess)) <= MAX_GUESS_LEN
  <2>1. CASE Len(guess) > MAX_GUESS_LEN
    <3> DEFINE n == MAX_GUESS_LEN
               q == SubSeq(guess, 1, n)
    <3>1. guess \in Seq(Bytes) /\ n \in Nat /\ n <= Len(guess) /\ Len(guess) \in Nat
      BY <2>1, WireAssumption DEF Chars
    <3>2. q \in Seq(Bytes) /\ Len(q) = n /\ \A k \in 1..n : q[k] = guess[k]
      BY <3>1
    <3>3. Cut(guess) = q
      BY <2>1 DEF Cut
    <3> HIDE DEF q, n
    <3>4. \A k \in 1..n : k \in 1..Len(guess)
      BY <3>1
    <3>5. \A k \in 1..Len(q) : q[k].kind = "char"
      BY <3>2, <3>4 DEF Chars
    <3>6. Len(q) <= MAX_GUESS_LEN
      BY <3>1, <3>2 DEF n
    <3> QED BY <3>2, <3>3, <3>5, <3>6 DEF Chars
  <2>2. CASE ~(Len(guess) > MAX_GUESS_LEN)
    BY <2>2, WireAssumption DEF Cut, Chars
  <2> QED BY <2>1, <2>2
<1> DEFINE g == Cut(guess)
           r == Name \o g
<1> HIDE DEF g
<1>3. Name \in Seq(Bytes) /\ g \in Seq(Bytes) /\ Len(Name) \in Nat /\ Len(g) \in Nat
  BY <1>1, <1>2 DEF Chars, g
<1>4. /\ r \in Seq(Bytes) /\ Len(r) = Len(Name) + Len(g)
      /\ \A k \in 1..Len(Name) : r[k] = Name[k]
      /\ \A k \in 1..Len(g) : r[Len(Name) + k] = g[k]
  BY <1>3
<1> HIDE DEF r
<1>5. ASSUME NEW k \in 1..Len(r) PROVE r[k].kind = "char"
  <2>1. CASE k <= Len(Name)
    <3>1. k \in 1..Len(Name)
      BY <1>3, <1>4, <2>1
    <3> QED BY <1>1, <1>4, <3>1 DEF Chars
  <2>2. CASE ~(k <= Len(Name))
    <3> DEFINE j == k - Len(Name)
    <3>1. j \in 1..Len(g) /\ Len(Name) + j = k
      BY <1>3, <1>4, <2>2
    <3> HIDE DEF j
    <3>2. g[j].kind = "char"
      BY <1>2, <3>1 DEF Chars, g
    <3> QED BY <1>4, <3>1, <3>2
  <2> QED BY <2>1, <2>2
<1>6. Len(r) # 0 /\ Len(r) <= NAME_LEN + MAX_GUESS_LEN
  <2>1. NAME_LEN \in Nat /\ MAX_GUESS_LEN \in Nat /\ Len(g) <= MAX_GUESS_LEN
    BY <1>2, TextAssumption, WireAssumption DEF g
  <2> QED BY <1>1, <1>3, <1>4, <2>1
<1> QED BY <1>1, <1>4, <1>5, <1>6 DEF Chars, r, g

\* A buffer that has been cleared is empty.
LEMMA ClearedIsEmpty ==
  ASSUME NEW b, b.data \in Seq(Bytes)
  PROVE  Empty(clear_buffer(b))
<1> DEFINE d == [k \in 1..Len(b.data) |-> Zero]
           r == [data |-> d, next |-> 0]
<1>1. d \in Seq(Bytes) /\ Len(d) \in Nat
  BY ZeroIsByte
<1>2. clear_buffer(b) = r
  BY DEF clear_buffer
<1> HIDE DEF d
<1>3. IsBuffer(r)
  BY <1>1 DEF IsBuffer
<1>4. r \in [{"data", "next"} -> Seq(Bytes) \cup Nat] /\ r.data \in Seq(Bytes) /\ r.next = 0
  BY <1>1
<1> HIDE DEF r
<1> QED BY <1>2, <1>3, <1>4 DEF Empty, Buffers

\* The others understand what they are told of a guess.
LEMMA GuessUnderstood ==
  ASSUME FInv, Received("text"), NEW guess \in strcpy(Full, STRING_OFFSET)
  PROVE  /\ Understood(Content(Announcement(Full, CORRECT_GUESS_ANNOUNCEMENT, Name)))
         /\ Understood(Content(Announcement(Full, CHAT, Name \o Cut(guess))))
<1>1. Empty(clear_buffer(Full))
  <2>1. Full.data = buffer.data /\ buffer.data \in Seq(Bytes)
    BY DEF Full, Advanced, FInv, IInv, ReceivesFit, IsBuffer
  <2> QED BY <2>1, ClearedIsEmpty
<1>2. /\ Chars(Name) /\ Len(Name) # 0 /\ Len(Name) = NAME_LEN
      /\ Chars(Name \o Cut(guess)) /\ Len(Name \o Cut(guess)) # 0
      /\ Len(Name \o Cut(guess)) <= NAME_LEN + MAX_GUESS_LEN
  BY GuessIsChars, ToldIsChars
<1>5. INT_BYTES \in Nat /\ NAME_LEN \in Nat /\ MAX_GUESS_LEN \in Nat
  BY BufferAssumption, TextAssumption, WireAssumption
<1>3. Understood(Content(Announcement(Full, CORRECT_GUESS_ANNOUNCEMENT, Name)))
  BY <1>1, <1>2, <1>5, IntsCountMessages, TextUnderstood DEF Chars, Announcement
<1>4. Understood(Content(Announcement(Full, CHAT, Name \o Cut(guess))))
  <2> DEFINE t == Name \o Cut(guess)
  <2> HIDE DEF t
  <2>1. t \in Seq(Bytes) /\ Len(t) # 0 /\ \A k \in 1..Len(t) : t[k].kind = "char"
    BY <1>2 DEF Chars, t
  <2>3. 1 + INT_BYTES + Len(t) <= INT_MAX
    <3>1. Len(t) \in Nat /\ Len(t) <= NAME_LEN + MAX_GUESS_LEN
      BY <1>2, <2>1 DEF t
    <3> QED BY <1>5, <3>1, IntsCountMessages
  <2>2. Understood(Content(serialize_all(clear_buffer(Full), his(CHAT, t))))
    BY <1>1, <2>1, <2>3, TextUnderstood
  <2> QED BY <2>2 DEF Announcement, t
<1> QED BY <1>3, <1>4

-----------------------------------------------------------------------------
(* Every client understands what it is sent *)

\* What the server is to send: messages that leave a client waiting for nothing, or misled,
\* and of which nothing is half sent when their failure is ignored.
GoodSends ==
  {e \in [to : SUBSET Clients, bytes : Seq(Bytes), mode : Modes] :
     /\ Understood(e.bytes)
     /\ e.mode = "ignored" => Len(e.bytes) <= 1}

\* The types that IInv leaves open.
Places ==
  /\ status \in Conns /\ IsFiniteSet(In)
  /\ over \subseteq Clients
  /\ drawer \in Clients \cup {None}

Speaks ==
  /\ stack \in Seq(GoodSends)
  /\ sending \in [to : Clients \cup {None}, left : Seq(Bytes)]

\* Only the client being sent to waits for anything, and what is left satisfies it, unless
\* it has been misled.
Listens ==
  /\ want \in [Clients -> Wants]
  /\ \A c \in Clients : c # sending.to => want[c] \in Well
  /\ sending.to # None =>
       /\ HearAll(want[sending.to], sending.left) \in Well
       /\ Top.mode = "ignored" => want[sending.to] \in Well /\ Len(sending.left) <= 1

Understanding == Places /\ Speaks /\ Listens

UInv == FInv /\ Understanding

LEMMA SendsAreGood ==
  ASSUME NEW to \in SUBSET Clients, NEW bytes, Understood(bytes), NEW mode \in Modes,
         mode = "ignored" => Len(bytes) <= 1
  PROVE  Sends(to, bytes, mode) \in GoodSends
<1> DEFINE e == Sends(to, bytes, mode)
<1>1. bytes \in Seq(Bytes)
  BY DEF Understood
<1>2. /\ e \in [to : SUBSET Clients, bytes : Seq(Bytes), mode : Modes]
      /\ e.bytes = bytes /\ e.mode = mode
  BY <1>1 DEF Sends
<1> HIDE DEF e
<1> QED BY <1>2 DEF GoodSends, e

\* The players in the game stay finitely many.
LEMMA FewMore ==
  ASSUME IsFiniteSet(In), NEW e,
         \A d \in Clients : status'[d] = "in" => status[d] = "in" \/ d = e
  PROVE  IsFiniteSet(In)'
<1> DEFINE after == {c \in Clients : status'[c] = "in"}
<1>1. after \subseteq In \cup {e}
  BY DEF In
<1>2. IsFiniteSet(In \cup {e})
  BY FS_AddElement
<1>3. IsFiniteSet(after)
  BY <1>1, <1>2, FS_Subset
<1> QED BY <1>3 DEF In

\* A connection that ends is in its place, and waits for nothing any more.
LEMMA CloseIsUnderstood ==
  ASSUME Understanding, NEW c \in Clients, Close(c)
  PROVE  /\ status' \in Conns /\ IsFiniteSet(In)'
         /\ over' \subseteq Clients
         /\ want' \in [Clients -> Wants]
         /\ \A d \in Clients : want'[d] = IF d = c THEN <<>> ELSE want[d]
<1>1. status \in Conns /\ IsFiniteSet(In) /\ over \subseteq Clients /\ want \in [Clients -> Wants]
  BY DEF Understanding, Places, Listens
<1>2. /\ status' = [status EXCEPT ![c] = "away"] /\ over' = over \ {c}
      /\ want' = [want EXCEPT ![c] = <<>>]
  BY DEF Close
<1>3. status' \in Conns /\ \A d \in Clients : status'[d] = "in" => status[d] = "in" \/ d = c
  BY <1>1, <1>2 DEF Conns
<1>4. IsFiniteSet(In)'
  BY <1>1, <1>3, FewMore
<1>5. want' \in [Clients -> Wants] /\ \A d \in Clients : want'[d] = IF d = c THEN <<>> ELSE want[d]
  BY <1>1, <1>2, NothingIsSettled
<1> QED BY <1>1, <1>2, <1>3, <1>4, <1>5

\* New sends before the others.
LEMMA PushedIsGood ==
  ASSUME NEW q \in Seq(GoodSends), NEW e \in GoodSends
  PROVE  <<e>> \o q \in Seq(GoodSends)
OBVIOUS

\* The removal of a player is told to the others in a message they understand.
LEMMA RemovalIsGood ==
  ASSUME NEW c \in Clients, NEW rest \in Seq(GoodSends), RemovePlayer(c, rest)
  PROVE  stack' \in Seq(GoodSends)
<1> DEFINE e == Sends(Others(c), Message(player_list_change(0)), "broadcast")
<1>1. e \in GoodSends
  <2>1. Others(c) \in SUBSET Clients
    BY DEF Others, In
  <2>2. Understood(Message(player_list_change(0)))
    BY ChangeUnderstood
  <2>3. "broadcast" \in Modes /\ "broadcast" # "ignored"
    BY DEF Modes
  <2> QED BY <2>1, <2>2, <2>3, SendsAreGood
<1>2. stack' = <<e>> \o rest
  BY DEF RemovePlayer
<1> HIDE DEF e
<1> QED BY <1>1, <1>2, PushedIsGood

\* A step in which nobody is sent to.
LEMMA NobodyHears ==
  ASSUME Understanding, UNCHANGED want, sending.to = None, sending' = sending
  PROVE  Listens'
BY WireAssumption DEF Understanding, Listens

\* A step of connections and receptions only.
LEMMA OnlyPlaces ==
  ASSUME Understanding, UNCHANGED <<stack, sending, want>>, Places'
  PROVE  Understanding'
<1>1. Speaks' /\ Listens'
  BY DEF Understanding, Speaks, Listens, Top
<1> QED BY <1>1 DEF Understanding

\* While the server receives, it sends to nobody.
LEMMA ReceivingIsQuiet ==
  ASSUME UInv, recving.from # None
  PROVE  /\ recving.from \in Clients /\ stack = <<>> /\ sending.to = None
         /\ Understanding
BY DEF UInv, FInv, Busy, IInv, IsRecving

LEMMA IdleIsQuiet ==
  ASSUME UInv, Idle
  PROVE  stack = <<>> /\ sending.to = None /\ recving.from = None /\ Understanding
BY DEF UInv, FInv, Busy, Idle

LEMMA GiveUpIsUnderstood ==
  ASSUME UInv, recving.from # None, GiveUp(recving.from)
  PROVE  Understanding'
<1> DEFINE c == recving.from
<1>1. c \in Clients /\ stack = <<>> /\ sending.to = None /\ Understanding
  BY ReceivingIsQuiet
<1>2. recving' = NoRecv /\ UNCHANGED <<drawer, sending>>
  BY DEF GiveUp
<1>3. Close(c) /\ stack' \in Seq(GoodSends)
  <2>1. CASE status[c] = "new"
    <3>1. Close(c) /\ stack' = <<>>
      BY <2>1 DEF GiveUp
    <3> QED BY <3>1
  <2>2. CASE status[c] # "new"
    <3>1. RemovePlayer(c, <<>>)
      BY <2>2 DEF GiveUp
    <3>2. stack' \in Seq(GoodSends)
      <4>1. <<>> \in Seq(GoodSends)
        OBVIOUS
      <4> QED BY <1>1, <3>1, <4>1, RemovalIsGood
    <3> QED BY <3>1, <3>2 DEF RemovePlayer
  <2> QED BY <2>1, <2>2
<1> HIDE DEF c
<1>4. /\ status' \in Conns /\ IsFiniteSet(In)'
      /\ over' \subseteq Clients
      /\ want' \in [Clients -> Wants]
      /\ \A d \in Clients : want'[d] = IF d = c THEN <<>> ELSE want[d]
  BY <1>1, <1>3, CloseIsUnderstood
<1>5. Places'
  BY <1>1, <1>2, <1>4 DEF Places, Understanding, NoRecv
<1>6. Speaks'
  BY <1>1, <1>2, <1>3 DEF Speaks, Understanding
<1>7. Listens'
  BY <1>1, <1>2, <1>4, WireAssumption DEF Listens, Understanding, Well
<1> QED BY <1>5, <1>6, <1>7 DEF Understanding

\* The server begins to receive.
LEMMA ReceiveIsUnderstood ==
  ASSUME Understanding, UNCHANGED <<over, drawer, stack, sending, want>>,
         status' \in Conns, IsFiniteSet(In)', recving'.from # None
  PROVE  Understanding'
<1>1. Places'
  BY DEF Understanding, Places
<1> QED BY <1>1, OnlyPlaces

\* A handler that ends with sends.
LEMMA AnswersAreUnderstood ==
  ASSUME Understanding, sending.to = None, UNCHANGED <<over, want, sending>>,
         drawer' \in Clients \cup {None}, recving' = NoRecv \/ recving' = recving,
         status' \in Conns, IsFiniteSet(In)', stack' \in Seq(GoodSends)
  PROVE  Understanding'
<1>1. Places'
  BY DEF Understanding, Places, NoRecv
<1>2. Speaks'
  BY DEF Understanding, Speaks
<1>3. Listens'
  BY NobodyHears
<1> QED BY <1>1, <1>2, <1>3 DEF Understanding

\* A client writes.
LEMMA WriteIsUnderstood ==
  ASSUME UInv, NEW c \in Clients, Write(c)
  PROVE  Understanding'
<1>1. over' \in {over, over \cup {c}} /\ UNCHANGED <<status, want, drawer, recving, stack, sending>>
  BY DEF Write
<1>2. Places'
  BY <1>1 DEF UInv, Understanding, Places, In
<1> QED BY <1>1, <1>2, OnlyPlaces DEF UInv

\* A client connects: it is not in the game yet.
LEMMA AcceptIsUnderstood ==
  ASSUME UInv, NEW c \in Clients, Accept(c)
  PROVE  Understanding'
<1>1. /\ status' = [status EXCEPT ![c] = "new"]
      /\ recving' = [from |-> c, field |-> "header", size |-> 1, total |-> 0]
      /\ UNCHANGED <<over, drawer, stack, sending, want>>
  BY DEF Accept, Receive
<1>2. status \in Conns /\ IsFiniteSet(In)
  BY DEF UInv, Understanding, Places
<1>3. status' \in Conns /\ \A d \in Clients : status'[d] = "in" => status[d] = "in" \/ d = c
  BY <1>1, <1>2 DEF Conns
<1>4. IsFiniteSet(In)'
  BY <1>2, <1>3, FewMore
<1>5. recving'.from # None
  BY <1>1, WireAssumption
<1> QED BY <1>1, <1>3, <1>4, <1>5, ReceiveIsUnderstood DEF UInv

\* Receptions that change no connection.
LEMMA NextFieldIsUnderstood ==
  ASSUME UInv, NEW c \in Clients, NEW b, NEW field, NEW size, Receive(c, b, field, size),
         UNCHANGED <<conn, stack, sending>>
  PROVE  Understanding'
<1>1. recving'.from # None
  BY WireAssumption DEF Receive
<1>2. status' \in Conns /\ IsFiniteSet(In)'
  BY DEF UInv, Understanding, Places, In, conn
<1> QED BY <1>1, <1>2, ReceiveIsUnderstood DEF UInv, conn

LEMMA RecvIsUnderstood ==
  ASSUME UInv, Recv
  PROVE  Understanding'
<1>1. recving'.from = recving.from /\ recving.from # None
  BY DEF Recv, UInv, FInv, IInv, IsRecving
<1>2. UNCHANGED <<status, over, want, drawer, stack, sending>>
  BY DEF Recv
<1>3. status' \in Conns /\ IsFiniteSet(In)'
  BY <1>2 DEF UInv, Understanding, Places, In
<1> QED BY <1>1, <1>2, <1>3, ReceiveIsUnderstood DEF UInv

LEMMA GotHeaderIsUnderstood ==
  ASSUME UInv, GotHeader
  PROVE  Understanding'
<1>1. recving.from # None
  BY DEF GotHeader, Received
<1>2. CASE GiveUp(recving.from)
  BY <1>1, <1>2, GiveUpIsUnderstood
<1>3. CASE Receive(recving.from, Full, "int", INT_BYTES) /\ UNCHANGED <<conn, stack, sending>>
  BY <1>1, <1>3, ReceivingIsQuiet, NextFieldIsUnderstood
<1> QED BY <1>2, <1>3 DEF GotHeader

LEMMA GotIntIsUnderstood ==
  ASSUME UInv, GotInt
  PROVE  Understanding'
<1> DEFINE n == unpack_int_var(buffer, INT_OFFSET)
<1>1. recving.from # None
  BY DEF GotInt, Received
<1>2. CASE GiveUp(recving.from)
  BY <1>1, <1>2, GiveUpIsUnderstood
<1>3. CASE /\ \/ Receive(recving.from, Full, "diffs", AsInt(n * INT_BYTES))
              \/ Receive(recving.from, Full, "text", n)
           /\ UNCHANGED <<conn, stack, sending>>
  BY <1>1, <1>3, ReceivingIsQuiet, NextFieldIsUnderstood
<1> QED BY <1>2, <1>3, Zenon DEF GotInt

\* A login is answered.
LEMMA LoggedInIsUnderstood ==
  ASSUME UInv, LoggedIn
  PROVE  Understanding'
<1> DEFINE c == recving.from
<1>1. recving.from # None
  BY DEF LoggedIn, Received
<1>2. c \in Clients /\ stack = <<>> /\ sending.to = None /\ Understanding
  BY <1>1, ReceivingIsQuiet
<1>3. /\ UNCHANGED <<over, want, drawer, sending>> /\ recving' = NoRecv
  BY DEF LoggedIn
<1>4. status \in Conns /\ IsFiniteSet(In) /\ drawer \in Clients \cup {None}
  BY <1>2 DEF Understanding, Places
<1>5. {c} \in SUBSET Clients /\ Others(c) \in SUBSET Clients
  BY <1>2 DEF Others, In
<1> DEFINE ok == Sends({c}, Message(<<Header(OK)>>), "ignored")
           list == Sends({c}, Message(player_list(Cardinality(In) + 1)), "needed")
           told == Sends(Others(c), Message(player_list_change(1)), "broadcast")
           no(flag) == Sends({c}, Message(<<Header(flag)>>), "last")
<1>6. ok \in GoodSends
  <2> DEFINE m == Message(<<Header(OK)>>)
  <2>1. Understood(m) /\ Len(m) = 1
    BY HeaderUnderstood
  <2> HIDE DEF m
  <2>2. "ignored" \in Modes /\ Len(m) <= 1
    BY <2>1 DEF Modes
  <2> QED BY <1>5, <2>1, <2>2, SendsAreGood DEF m
<1>7. list \in GoodSends
  <2> DEFINE n == Cardinality(In) + 1
  <2>1. n \in Nat /\ n <= Cardinality(Clients)
    <3> DEFINE S == In \cup {c}
    <3>1. c \notin In /\ S \subseteq Clients
      BY <1>2 DEF LoggedIn, In
    <3>2. IsFiniteSet(S) /\ Cardinality(S) = Cardinality(In) + 1
      BY <1>4, <3>1, FS_AddElement
    <3> HIDE DEF S
    <3>3. Cardinality(S) <= Cardinality(Clients)
      BY <3>1, WireAssumption, FS_Subset
    <3> QED BY <1>4, <3>2, <3>3, FS_CardinalityType
  <2> HIDE DEF n
  <2>2. Understood(Message(player_list(n)))
    BY <1>2, <2>1, ListUnderstood
  <2>3. "needed" \in Modes /\ "needed" # "ignored"
    BY DEF Modes
  <2> QED BY <1>5, <2>2, <2>3, SendsAreGood DEF n
<1>8. told \in GoodSends
  <2>1. Understood(Message(player_list_change(1)))
    BY <1>2, ChangeUnderstood
  <2>2. "broadcast" \in Modes /\ "broadcast" # "ignored"
    BY DEF Modes
  <2> QED BY <1>5, <2>1, <2>2, SendsAreGood
<1>9. ASSUME NEW flag \in {INVALID_USERNAME, SERVER_ERROR, SERVER_FULL}
      PROVE  no(flag) \in GoodSends
  <2>1. Understood(Message(<<Header(flag)>>))
    BY HeaderUnderstood
  <2>2. "last" \in Modes /\ "last" # "ignored"
    BY DEF Modes
  <2> QED BY <1>5, <2>1, <2>2, SendsAreGood
<1> HIDE DEF ok, list, told, no
<1>10. CASE status' = [status EXCEPT ![c] = "in"] /\ stack' = <<ok, list, told>>
  <2>1. stack' \in Seq(GoodSends)
    BY <1>6, <1>7, <1>8, <1>10
  <2>2. status' \in Conns /\ \A d \in Clients : status'[d] = "in" => status[d] = "in" \/ d = c
    BY <1>4, <1>10 DEF Conns
  <2> HIDE DEF c
  <2>3. IsFiniteSet(In)'
    BY <1>4, <2>2, FewMore
  <2> QED BY <1>2, <1>3, <1>4, <2>1, <2>2, <2>3, AnswersAreUnderstood
<1>11. CASE /\ \E flag \in {INVALID_USERNAME, SERVER_ERROR, SERVER_FULL} : stack' = <<no(flag)>>
            /\ UNCHANGED status
  <2>1. stack' \in Seq(GoodSends)
    BY <1>9, <1>11
  <2>2. status' \in Conns /\ IsFiniteSet(In)'
    BY <1>4, <1>11 DEF In
  <2> QED BY <1>2, <1>3, <1>4, <2>1, <2>2, AnswersAreUnderstood
<1> QED BY <1>10, <1>11 DEF LoggedIn, ok, list, told, no

\* A guess is answered and passed on.
LEMMA GuessedIsUnderstood ==
  ASSUME UInv, Guessed
  PROVE  Understanding'
<1> DEFINE c == recving.from
<1>1. recving.from # None /\ Received("text") /\ FInv
  BY DEF Guessed, Received, UInv
<1>2. c \in Clients /\ stack = <<>> /\ sending.to = None /\ Understanding
  BY <1>1, ReceivingIsQuiet
<1>3. UNCHANGED <<conn, sending>> /\ recving' = NoRecv
  BY DEF Guessed
<1>4. PICK guess \in strcpy(Full, STRING_OFFSET) :
        LET correct == Cut(guess) = Word
            answer == Header(IF correct THEN CORRECT_GUESS ELSE WRONG_GUESS)
            told == IF correct THEN Announcement(Full, CORRECT_GUESS_ANNOUNCEMENT, Name)
                    ELSE Announcement(Full, CHAT, Name \o Cut(guess))
        IN  stack' = <<Sends({c}, Message(<<answer>>), "needed"),
                       Sends(Others(c), Content(told), "broadcast")>>
  BY DEF Guessed
<1> DEFINE correct == Cut(guess) = Word
           flag == IF correct THEN CORRECT_GUESS ELSE WRONG_GUESS
           told == IF correct THEN Announcement(Full, CORRECT_GUESS_ANNOUNCEMENT, Name)
                   ELSE Announcement(Full, CHAT, Name \o Cut(guess))
           one == Sends({c}, Message(<<Header(flag)>>), "needed")
           two == Sends(Others(c), Content(told), "broadcast")
<1>5. stack' = <<one, two>>
  BY <1>4
<1>6. {c} \in SUBSET Clients /\ Others(c) \in SUBSET Clients
  BY <1>2 DEF Others, In
<1>7. one \in GoodSends
  <2>1. Understood(Message(<<Header(flag)>>))
    BY HeaderUnderstood
  <2>2. "needed" \in Modes /\ "needed" # "ignored"
    BY DEF Modes
  <2> QED BY <1>6, <2>1, <2>2, SendsAreGood
<1>8. two \in GoodSends
  <2>1. Understood(Content(told))
    BY <1>1, GuessUnderstood
  <2>2. "broadcast" \in Modes /\ "broadcast" # "ignored"
    BY DEF Modes
  <2> HIDE DEF told
  <2> QED BY <1>6, <2>1, <2>2, SendsAreGood
<1> HIDE DEF one, two
<1>9. stack' \in Seq(GoodSends)
  BY <1>5, <1>7, <1>8
<1>10. status' \in Conns /\ IsFiniteSet(In)' /\ drawer' \in Clients \cup {None}
  BY <1>2, <1>3 DEF conn, In, Understanding, Places
<1> QED BY <1>2, <1>3, <1>9, <1>10, AnswersAreUnderstood DEF conn

\* A drawing is sent on.
LEMMA DrawnIsUnderstood ==
  ASSUME UInv, Drawn
  PROVE  Understanding'
<1> DEFINE c == recving.from
           e == Sends(Others(c), Content(Full), "broadcast")
<1>1. recving.from # None /\ Received("diffs") /\ FInv
  BY DEF Drawn, Received, UInv
<1>2. c \in Clients /\ stack = <<>> /\ sending.to = None /\ Understanding
  BY <1>1, ReceivingIsQuiet
<1>3. CASE GiveUp(recving.from)
  BY <1>1, <1>3, GiveUpIsUnderstood
<1>4. CASE stack' = <<e>> /\ recving' = NoRecv /\ UNCHANGED <<conn, sending>>
  <2>1. Others(c) \in SUBSET Clients
    BY DEF Others, In
  <2>2. Understood(Content(Full))
    BY <1>1, ReceivedDrawingUnderstood
  <2>3. "broadcast" \in Modes /\ "broadcast" # "ignored"
    BY DEF Modes
  <2>4. e \in GoodSends
    BY <2>1, <2>2, <2>3, SendsAreGood
  <2> HIDE DEF e
  <2>5. stack' \in Seq(GoodSends)
    BY <1>4, <2>4
  <2>6. status' \in Conns /\ IsFiniteSet(In)' /\ drawer' \in Clients \cup {None}
    BY <1>2, <1>4 DEF conn, In, Understanding, Places
  <2> QED BY <1>2, <1>4, <2>5, <2>6, AnswersAreUnderstood DEF conn
<1> QED BY <1>3, <1>4 DEF Drawn

\* What the rounds bring.
LEMMA NotifyIsUnderstood ==
  ASSUME UInv, Notify
  PROVE  Understanding'
<1>1. stack = <<>> /\ sending.to = None /\ Understanding
  BY IdleIsQuiet DEF Notify
<1>2. UNCHANGED <<status, up, over, want, buffer, recving, sending>>
  BY DEF Notify
<1>3. status' \in Conns /\ IsFiniteSet(In)' /\ drawer \in Clients \cup {None}
  BY <1>1, <1>2 DEF In, Understanding, Places
<1>4. In \in SUBSET Clients /\ \A c \in In : {c} \in SUBSET Clients /\ Others(c) \in SUBSET Clients
  BY DEF In, Others
<1>5. "broadcast" \in Modes /\ "needed" \in Modes /\ "broadcast" # "ignored" /\ "needed" # "ignored"
  BY DEF Modes
<1>6. drawer' \in Clients \cup {None} /\ stack' \in Seq(GoodSends)
  <2> DEFINE wait == Sends(In, Message(waiting_for_players(Cardinality(In), MIN_PLAYERS)),
                           "broadcast")
             ends == Sends(In, Message(<<Header(GAME_ENDS)>>), "broadcast")
             draw(c) == Sends({c}, Message(game_draw_start), "broadcast")
             rest(c) == Sends(Others(c), Message(game_guess_start), "broadcast")
             role(c) == IF c = drawer THEN START_AND_DRAW ELSE START_AND_GUESS
             join(c) == Sends({c}, Message(game_in_progress(role(c))), "needed")
  <2>1. wait \in GoodSends
    <3>1. Cardinality(In) \in Nat /\ MIN_PLAYERS \in Int
      BY <1>1, FS_CardinalityType DEF Understanding, Places, MIN_PLAYERS
    <3>2. Understood(Message(waiting_for_players(Cardinality(In), MIN_PLAYERS)))
      BY <3>1, WaitingUnderstood
    <3> QED BY <1>4, <1>5, <3>2, SendsAreGood
  <2>2. ends \in GoodSends
    <3>1. Understood(Message(<<Header(GAME_ENDS)>>))
      BY HeaderUnderstood
    <3> QED BY <1>4, <1>5, <3>1, SendsAreGood
  <2>3. ASSUME NEW c \in In PROVE draw(c) \in GoodSends /\ rest(c) \in GoodSends
    BY <1>4, <1>5, StartsUnderstood, SendsAreGood
  <2>4. ASSUME NEW c \in In PROVE join(c) \in GoodSends
    <3>1. Understood(Message(game_in_progress(role(c))))
      BY JoiningMisleads
    <3> HIDE DEF role
    <3> QED BY <1>4, <1>5, <3>1, SendsAreGood
  <2> HIDE DEF wait, ends, draw, rest, join
  <2>5. CASE drawer' = drawer /\ stack' = <<wait>>
    BY <1>3, <2>1, <2>5
  <2>6. CASE drawer' = drawer /\ stack' = <<ends>>
    BY <1>3, <2>2, <2>6
  <2>7. ASSUME NEW c \in In, drawer' = c, stack' = <<draw(c), rest(c)>>
        PROVE  drawer' \in Clients \cup {None} /\ stack' \in Seq(GoodSends)
    BY <1>4, <2>3, <2>7
  <2>8. ASSUME NEW c \in In, drawer' = drawer, stack' = <<join(c)>>
        PROVE  drawer' \in Clients \cup {None} /\ stack' \in Seq(GoodSends)
    BY <1>3, <2>4, <2>8
  <2> QED BY <2>5, <2>6, <2>7, <2>8, Zenon DEF Notify, wait, ends, draw, rest, join
<1> QED BY <1>1, <1>2, <1>3, <1>6, AnswersAreUnderstood

\* The next client is sent to, or the loop of a broadcast ends.
LEMMA NextReceiverIsUnderstood ==
  ASSUME UInv, NextReceiver
  PROVE  Understanding'
<1>1. Understanding /\ stack # <<>> /\ sending.to = None /\ UNCHANGED <<buffer, recving>>
  BY DEF UInv, NextReceiver
<1>2. /\ stack \in Seq(GoodSends) /\ want \in [Clients -> Wants]
      /\ \A c \in Clients : want[c] \in Well
      /\ status \in Conns /\ IsFiniteSet(In) /\ over \subseteq Clients
      /\ drawer \in Clients \cup {None}
  BY <1>1, WireAssumption DEF Understanding, Places, Speaks, Listens
<1>3. /\ stack[1] \in GoodSends /\ Top = stack[1] /\ Tail(stack) \in Seq(GoodSends)
      /\ Len(stack) \in Nat \ {0}
  BY <1>1, <1>2 DEF Top
<1>4. CASE Pending = {} /\ stack' = Tail(stack) /\ UNCHANGED <<conn, sending>>
  <2>1. stack' \in Seq(GoodSends)
    BY <1>3, <1>4
  <2>2. status' \in Conns /\ IsFiniteSet(In)' /\ drawer' \in Clients \cup {None}
    BY <1>2, <1>4 DEF conn, In
  <2> QED BY <1>1, <1>4, <2>1, <2>2, AnswersAreUnderstood DEF conn
<1>5. ASSUME NEW c \in Pending, sending' = [to |-> c, left |-> Top.bytes],
             stack' = [stack EXCEPT ![1].to = @ \ {c}], UNCHANGED conn
      PROVE  Understanding'
  <2> DEFINE e == stack[1]
             f == [e EXCEPT !.to = @ \ {c}]
  <2>1. /\ e.to \in SUBSET Clients /\ e.bytes \in Seq(Bytes) /\ e.mode \in Modes
        /\ e \in [to : SUBSET Clients, bytes : Seq(Bytes), mode : Modes]
        /\ Understood(e.bytes)
        /\ e.mode = "ignored" => Len(e.bytes) <= 1
    BY <1>3 DEF GoodSends
  <2>2. c \in Clients
    BY <1>3, <2>1 DEF Pending
  <2>3. /\ f \in [to : SUBSET Clients, bytes : Seq(Bytes), mode : Modes]
        /\ f.bytes = e.bytes /\ f.mode = e.mode
    <3> HIDE DEF e
    <3> QED BY <2>1
  <2>4. stack' = [stack EXCEPT ![1] = f]
    BY <1>5
  <2> HIDE DEF e, f
  <2>5. f \in GoodSends
    BY <2>1, <2>3 DEF GoodSends
  <2>6. stack' \in Seq(GoodSends) /\ stack'[1] = f /\ stack' # <<>>
    BY <1>2, <1>3, <2>4, <2>5
  <2>7. Top' = f
    BY <2>6 DEF Top
  <2>8. sending' = [to |-> c, left |-> e.bytes]
    BY <1>3, <1>5 DEF e
  <2>9. Places'
    BY <1>1, <1>2, <1>5 DEF Places, conn, In, Understanding
  <2>10. Speaks'
    BY <2>1, <2>2, <2>6, <2>8 DEF Speaks
  <2>11. Listens'
    <3>1. want' = want /\ sending'.to = c /\ sending'.left = e.bytes /\ want[c] \in Well
      BY <1>2, <1>5, <2>2, <2>8 DEF conn
    <3>2. HearAll(want[c], e.bytes) \in Well
      BY <2>1, <3>1, WellForEver
    <3> QED BY <1>2, <2>1, <2>3, <2>7, <3>1, <3>2 DEF Listens
  <2> QED BY <2>9, <2>10, <2>11 DEF Understanding
<1> QED BY <1>4, <1>5 DEF NextReceiver

\* A row of bytes in two parts.
LEMMA SplitBytes ==
  ASSUME NEW q \in Seq(Bytes), NEW n \in 1..Len(q)
  PROVE  /\ SubSeq(q, 1, n) \in Seq(Bytes) /\ SubSeq(q, n + 1, Len(q)) \in Seq(Bytes)
         /\ Len(SubSeq(q, n + 1, Len(q))) = Len(q) - n
         /\ q = SubSeq(q, 1, n) \o SubSeq(q, n + 1, Len(q))
<1> DEFINE l == Len(q)
           a == SubSeq(q, 1, n)
           b == SubSeq(q, n + 1, l)
           r == a \o b
<1>1. l \in Nat /\ n \in 1..l
  OBVIOUS
<1>2. a \in Seq(Bytes) /\ Len(a) = n /\ \A k \in 1..n : a[k] = q[k]
  BY <1>1
<1>3. b \in Seq(Bytes) /\ Len(b) = l - n /\ \A k \in 1..(l - n) : b[k] = q[n + k]
  <2>1. b \in Seq(Bytes) /\ Len(b) = l - n
    BY <1>1
  <2>2. ASSUME NEW k \in 1..(l - n) PROVE b[k] = q[n + k]
    <3>1. b[k] = q[n + 1 + k - 1] /\ n + 1 + k - 1 = n + k
      BY <1>1
    <3> QED BY <3>1
  <2> QED BY <2>1, <2>2
<1> HIDE DEF a, b
<1>4. /\ r \in Seq(Bytes) /\ Len(r) = Len(a) + Len(b)
      /\ \A k \in 1..Len(a) : r[k] = a[k]
      /\ \A k \in 1..Len(b) : r[Len(a) + k] = b[k]
  <2>1. a \in Seq(Bytes) /\ b \in Seq(Bytes)
    BY <1>2, <1>3
  <2> QED BY <2>1
<1> HIDE DEF r
<1>5. ASSUME NEW k \in 1..l PROVE q[k] = r[k]
  <2>1. CASE k <= n
    <3>1. k \in 1..n
      BY <1>1, <2>1
    <3> QED BY <1>2, <1>4, <3>1
  <2>2. CASE ~(k <= n)
    <3> DEFINE j == k - n
    <3>1. j \in 1..(l - n) /\ n + j = k
      BY <1>1, <2>2
    <3> HIDE DEF j
    <3>2. q[n + j] = b[j] /\ r[n + j] = b[j]
      BY <1>2, <1>3, <1>4, <3>1
    <3> QED BY <3>1, <3>2
  <2> QED BY <2>1, <2>2
<1>6. Len(r) = l
  BY <1>1, <1>2, <1>3, <1>4
<1>7. q = r
  BY <1>4, <1>5, <1>6, SeqEqual
<1> QED BY <1>2, <1>3, <1>7 DEF a, b, r

\* What the sends know while one is being done.
LEMMA SendingIsHeard ==
  ASSUME UInv, sending.to # None
  PROVE  /\ sending.to \in Clients /\ sending.left \in Seq(Bytes)
         /\ stack # <<>> /\ Tail(stack) \in Seq(GoodSends) /\ stack \in Seq(GoodSends)
         /\ Understanding
         /\ status \in Conns /\ IsFiniteSet(In) /\ over \subseteq Clients
         /\ drawer \in Clients \cup {None}
         /\ want \in [Clients -> Wants]
         /\ \A c \in Clients : c # sending.to => want[c] \in Well
         /\ HearAll(want[sending.to], sending.left) \in Well
         /\ Top.mode = "ignored" => want[sending.to] \in Well /\ Len(sending.left) <= 1
BY DEF UInv, FInv, Busy, Understanding, Places, Speaks, Listens

\* Some bytes are sent: what is left satisfies what the client waits for then.
LEMMA SendIsUnderstood ==
  ASSUME UInv, Send
  PROVE  Understanding'
<1> DEFINE c == sending.to
           q == sending.left
<1>1. c # None /\ UNCHANGED <<drawer, buffer, recving, stack>>
  BY DEF Send
<1>2. /\ c \in Clients /\ q \in Seq(Bytes)
      /\ stack \in Seq(GoodSends)
      /\ Understanding
      /\ status \in Conns /\ IsFiniteSet(In) /\ over \subseteq Clients
      /\ drawer \in Clients \cup {None}
      /\ want \in [Clients -> Wants]
      /\ \A d \in Clients : d # c => want[d] \in Well
      /\ HearAll(want[c], q) \in Well
      /\ Top.mode = "ignored" => want[c] \in Well /\ Len(q) <= 1
  BY <1>1, SendingIsHeard
<1>3. PICK n \in 1..Len(q) :
        LET left == SubSeq(q, n + 1, Len(q))
        IN  /\ sending' = IF left = <<>> THEN NoSend ELSE [to |-> c, left |-> left]
            /\ IF left = <<>> /\ Top.mode = "last" THEN Close(c)
               ELSE /\ want' = [want EXCEPT ![c] = HearAll(@, SubSeq(q, 1, n))]
                    /\ UNCHANGED <<status, up, over>>
  BY DEF Send
<1> DEFINE left == SubSeq(q, n + 1, Len(q))
           part == SubSeq(q, 1, n)
           w == HearAll(want[c], part)
<1>4. /\ part \in Seq(Bytes) /\ left \in Seq(Bytes) /\ Len(left) = Len(q) - n /\ q = part \o left
      /\ Len(q) \in Nat
  BY <1>2, SplitBytes
<1>5. /\ sending' = IF left = <<>> THEN NoSend ELSE [to |-> c, left |-> left]
      /\ \/ left = <<>> /\ Top.mode = "last" /\ Close(c)
         \/ want' = [want EXCEPT ![c] = w] /\ UNCHANGED <<status, up, over>>
  BY <1>3
<1> HIDE DEF left, part, c, q
<1>6. want[c] \in Wants
  BY <1>2
<1>7. w \in Wants /\ HearAll(w, left) \in Well
  <2>1. HearAll(want[c], part \o left) = HearAll(HearAll(want[c], part), left)
        /\ HearAll(want[c], part) \in Wants
    BY <1>4, <1>6, HeardInTurn
  <2> QED BY <1>2, <1>4, <2>1
<1>8. left = <<>> => w \in Well
  <2>1. HearAll(w, <<>>) = w
    BY <1>7, ZeroIsByte, HeardFew
  <2> QED BY <1>7, <2>1
<1> HIDE DEF w
<1>9. Top' = Top
  BY <1>1 DEF Top
<1>10. sending' \in [to : Clients \cup {None}, left : Seq(Bytes)]
  BY <1>2, <1>4, <1>5 DEF NoSend
<1>11. Speaks'
  BY <1>1, <1>2, <1>10 DEF Speaks
<1>12. CASE left = <<>> /\ Top.mode = "last" /\ Close(c)
  <2>1. /\ status' \in Conns /\ IsFiniteSet(In)'
        /\ over' \subseteq Clients
        /\ want' \in [Clients -> Wants]
        /\ \A d \in Clients : want'[d] = IF d = c THEN <<>> ELSE want[d]
    BY <1>2, <1>12, CloseIsUnderstood
  <2>2. sending'.to = None
    BY <1>5, <1>12 DEF NoSend
  <2>3. Places'
    BY <1>1, <1>2, <2>1 DEF Places, Understanding
  <2>4. Listens'
    BY <1>2, <2>1, <2>2 DEF Listens, Well
  <2> QED BY <1>11, <2>3, <2>4 DEF Understanding
<1>13. CASE want' = [want EXCEPT ![c] = w] /\ UNCHANGED <<status, up, over>>
  <2>1. Places'
    BY <1>1, <1>2, <1>13 DEF Places, Understanding, In
  <2>2. want' \in [Clients -> Wants] /\ want'[c] = w /\ \A d \in Clients : d # c => want'[d] \in Well
    BY <1>2, <1>7, <1>13
  <2>3. CASE left = <<>>
    <3>1. sending'.to = None
      BY <1>5, <2>3 DEF NoSend
    <3> QED BY <1>8, <1>11, <2>1, <2>2, <2>3, <3>1 DEF Understanding, Listens
  <2>4. CASE left # <<>>
    <3>1. sending'.to = c /\ sending'.left = left
      BY <1>5, <2>4
    <3>2. Top.mode # "ignored"
      <4>1. Len(left) # 0
        BY <1>4, <2>4
      <4>2. Len(q) > 1
        BY <1>4, <4>1
      <4> QED BY <1>2, <1>4, <4>2
    <3>3. Listens'
      BY <1>7, <1>9, <2>2, <3>1, <3>2 DEF Listens
    <3> QED BY <1>11, <2>1, <3>3 DEF Understanding
  <2> QED BY <2>3, <2>4
<1> QED BY <1>5, <1>12, <1>13

\* A send fails: only what was not sent in part may fail without an end of the connection.
LEMMA SendFailsIsUnderstood ==
  ASSUME UInv, SendFails
  PROVE  Understanding'
<1> DEFINE c == sending.to
<1>1. c # None /\ sending' = NoSend /\ UNCHANGED <<drawer, buffer, recving>>
  BY DEF SendFails
<1>2. /\ c \in Clients /\ stack \in Seq(GoodSends) /\ <<>> \in Seq(GoodSends)
      /\ Understanding
      /\ status \in Conns /\ IsFiniteSet(In) /\ over \subseteq Clients
      /\ drawer \in Clients \cup {None}
      /\ want \in [Clients -> Wants]
      /\ \A d \in Clients : d # c => want[d] \in Well
      /\ Top.mode = "ignored" => want[c] \in Well
  BY <1>1, SendingIsHeard
<1>3. sending' \in [to : Clients \cup {None}, left : Seq(Bytes)] /\ sending'.to = None
  BY <1>1 DEF NoSend
<1>4. CASE Top.mode = "ignored" /\ UNCHANGED <<status, up, over, want, stack>>
  <2>1. Places'
    BY <1>1, <1>2, <1>4 DEF Places, Understanding, In
  <2>2. Speaks'
    BY <1>2, <1>3, <1>4 DEF Speaks
  <2>3. Listens'
    BY <1>2, <1>3, <1>4 DEF Listens
  <2> QED BY <2>1, <2>2, <2>3 DEF Understanding
<1>5. CASE Close(c) /\ stack' \in Seq(GoodSends)
  <2> HIDE DEF c
  <2>1. /\ status' \in Conns /\ IsFiniteSet(In)'
        /\ over' \subseteq Clients
        /\ want' \in [Clients -> Wants]
        /\ \A d \in Clients : want'[d] = IF d = c THEN <<>> ELSE want[d]
    BY <1>2, <1>5, CloseIsUnderstood
  <2>2. Places'
    BY <1>1, <1>2, <2>1 DEF Places, Understanding
  <2>3. Speaks'
    BY <1>3, <1>5 DEF Speaks
  <2>4. Listens'
    BY <1>2, <1>3, <2>1 DEF Listens, Well
  <2> QED BY <2>2, <2>3, <2>4 DEF Understanding
<1>6. CASE RemovePlayer(c, stack) \/ RemovePlayer(c, <<>>)
  <2>1. stack' \in Seq(GoodSends)
    BY <1>2, <1>6, RemovalIsGood
  <2> QED BY <1>5, <1>6, <2>1 DEF RemovePlayer
<1>7. CASE Close(c) /\ UNCHANGED stack
  BY <1>2, <1>5, <1>7
<1> QED BY <1>4, <1>6, <1>7 DEF SendFails

-----------------------------------------------------------------------------
LEMMA UnderstandingStarts == Init => UInv
<1> SUFFICES ASSUME Init PROVE Understanding
  BY StreamsStart DEF UInv
<1>1. /\ status = [c \in Clients |-> "away"] /\ want = [c \in Clients |-> <<>>]
      /\ over = {} /\ drawer = None /\ recving = NoRecv /\ stack = <<>> /\ sending = NoSend
  BY DEF Init
<1>2. Places
  <2>1. In = {}
    BY <1>1 DEF In
  <2>2. IsFiniteSet(In)
    BY <2>1, FS_EmptySet
  <2> QED BY <1>1, <2>2 DEF Places, Conns, NoRecv
<1>3. Speaks
  <2>1. <<>> \in Seq(GoodSends) /\ <<>> \in Seq(Bytes)
    OBVIOUS
  <2> QED BY <1>1, <2>1 DEF Speaks, NoSend
<1>4. Listens
  BY <1>1, NothingIsSettled DEF Listens, NoSend, Well
<1> QED BY <1>2, <1>3, <1>4 DEF Understanding

LEMMA StepIsUnderstood == UInv /\ [Next]_vars => UInv'
<1> SUFFICES ASSUME UInv, [Next]_vars PROVE Understanding'
  BY StepKeepsStreams DEF UInv
<1>1. CASE Recv
  BY <1>1, RecvIsUnderstood
<1>2. CASE RecvFails
  BY <1>2, GiveUpIsUnderstood DEF RecvFails
<1>3. CASE GotHeader
  BY <1>3, GotHeaderIsUnderstood
<1>4. CASE GotInt
  BY <1>4, GotIntIsUnderstood
<1>5. CASE LoggedIn
  BY <1>5, LoggedInIsUnderstood
<1>6. CASE Guessed
  BY <1>6, GuessedIsUnderstood
<1>7. CASE Drawn
  BY <1>7, DrawnIsUnderstood
<1>8. CASE NextReceiver
  BY <1>8, NextReceiverIsUnderstood
<1>9. CASE Send
  BY <1>9, SendIsUnderstood
<1>10. CASE SendFails
  BY <1>10, SendFailsIsUnderstood
<1>11. CASE Notify
  BY <1>11, NotifyIsUnderstood
<1>12. ASSUME NEW c \in Clients, Write(c) PROVE Understanding'
  BY <1>12, WriteIsUnderstood
<1>13. ASSUME NEW c \in Clients, Accept(c) PROVE Understanding'
  BY <1>13, AcceptIsUnderstood
<1>14. ASSUME NEW c \in Clients, Action(c) PROVE Understanding'
  BY <1>14, NextFieldIsUnderstood DEF Action
<1>16. CASE InvalidUsername
  <2>1. recving.from # None
    BY <1>16 DEF InvalidUsername, Received
  <2> QED BY <1>16, <2>1, GiveUpIsUnderstood DEF InvalidUsername
<1>15. CASE UNCHANGED vars
  <2>1. Places'
    BY <1>15 DEF vars, conn, UInv, Understanding, Places, In
  <2> QED BY <1>15, <2>1, OnlyPlaces DEF vars, conn, UInv
<1> QED BY <1>1, <1>2, <1>3, <1>4, <1>5, <1>6, <1>7, <1>8, <1>9, <1>10, <1>11, <1>12, <1>13, <1>14,
           <1>15, <1>16 DEF Next, Handler

\* In whatever pieces the messages are sent, and whatever is broadcast in between, a client
\* never reads a byte of another kind than the one it waits for, except within
\* GAME_IN_PROGRESS; and unless that has misled it, it waits for nothing while the server is
\* in its loop.
THEOREM ClientsAreUnderstood == Spec => []ClientsUnderstand
<1>1. UInv => ClientsUnderstand
  <2> SUFFICES ASSUME UInv, NEW c \in Clients
               PROVE  want[c] # Confused /\ (Idle => want[c] \in Well)
    BY DEF ClientsUnderstand, Well
  <2>4. Confused \notin Well
    BY DEF Confused, Misled, Well
  <2>1. CASE c # sending.to
    BY <2>1, <2>4 DEF UInv, Understanding, Listens
  <2>2. CASE c = sending.to
    <3>1. sending.to # None
      BY <2>2, WireAssumption
    <3>2. sending.left \in Seq(Bytes) /\ HearAll(want[c], sending.left) \in Well /\ stack # <<>>
      BY <2>2, <3>1, SendingIsHeard
    <3>3. HearAll(Confused, sending.left) = Confused
      BY <3>2, ConfusedForEver
    <3> QED BY <2>4, <3>2, <3>3 DEF Idle
  <2> QED BY <2>1, <2>2
<1> QED BY <1>1, UnderstandingStarts, StepIsUnderstood, PTL DEF Spec

\* The variables keep their types, and every recv the memory of its buffer, except for
\* drawings whose bytes an int does not count.
THEOREM TypeCorrect == Spec => []TypeOK
<1>1. UInv => TypeOK
  <2> SUFFICES ASSUME UInv PROVE TypeOK
    OBVIOUS
  <2>1. status \in [Clients -> {"away", "new", "in"}] /\ over \subseteq Clients
        /\ drawer \in Clients \cup {None}
    BY DEF UInv, Understanding, Places, Conns
  <2>2. up \in [Clients -> Seq(Bytes)] /\ ReceivesFit
    BY DEF UInv, FInv, IInv
  <2>3. DOMAIN want = Clients
    BY DEF UInv, Understanding, Listens
  <2>4. recving \in [from : Clients \cup {None}, field : {"header", "int", "text", "diffs"},
                     size : Int, total : Nat]
    BY DEF UInv, FInv, IInv, IsRecving
  <2>5. /\ stack \in Seq([to : SUBSET Clients, bytes : Seq(Bytes), mode : Modes])
        /\ sending \in [to : Clients \cup {None}, left : Seq(Bytes)]
    <3>1. GoodSends \subseteq [to : SUBSET Clients, bytes : Seq(Bytes), mode : Modes]
      BY DEF GoodSends
    <3> DEFINE T == [to : SUBSET Clients, bytes : Seq(Bytes), mode : Modes]
    <3>2. stack \in Seq(GoodSends) /\ GoodSends \subseteq T
      BY <3>1 DEF UInv, Understanding, Speaks
    <3> HIDE DEF T
    <3>3. stack \in Seq(T)
      BY <3>2
    <3> QED BY <3>3 DEF T, UInv, Understanding, Speaks
  <2> QED BY <2>1, <2>2, <2>3, <2>4, <2>5 DEF TypeOK
<1> QED BY <1>1, UnderstandingStarts, StepIsUnderstood, PTL DEF Spec
=============================================================================
