-------------------------------- MODULE Buffer --------------------------------
(***************************************************************************)
(* struct Buffer and the procedures that write it (utils/serialization.c), *)
(* as operators on a value:                                                *)
(*                                                                         *)
(*   data : the allocated memory, size bytes long                          *)
(*   next : how many bytes from the start on are in use                    *)
(*                                                                         *)
(* A byte is what it stands for: which part of which value of which kind.  *)
(* The order of the bytes of a number is not kept.  next and size are ints *)
(* in the code, and so are the sums and products made with them here: what *)
(* is more than INT_MAX wraps around.                                      *)
(***************************************************************************)
EXTENDS Integers, Sequences

CONSTANTS
  INT_MAX,       \* the largest int
  INITIAL_SIZE,  \* the bytes of a new buffer
  INT_BYTES,     \* sizeof(int)
  TIME_BYTES,    \* sizeof(time_t)
  CANVAS_BYTES   \* CANVAS_BYTES_TO_SEND

ASSUME BufferAssumption ==
  /\ INT_MAX \in Nat
  /\ INITIAL_SIZE \in Nat \ {0}
  /\ INT_BYTES \in Nat \ {0}
  /\ TIME_BYTES \in Nat \ {0}
  /\ CANVAS_BYTES \in Nat \ {0}

Ints32 == (-INT_MAX - 1)..INT_MAX

\* What is left of a number in an int.
AsInt(x) == ((x + INT_MAX + 1) % (2 * (INT_MAX + 1))) - (INT_MAX + 1)

\* zero is the NUL byte, junk is what realloc found in new memory.
Kinds == {"header", "int", "char", "byte", "time", "canvas", "zero", "junk"}
Bytes == [kind : Kinds, value : Int, part : Nat]

Parts(kind, value, n) == [k \in 1..n |-> [kind |-> kind, value |-> value, part |-> k]]
Zero == [kind |-> "zero", value |-> 0, part |-> 1]
Junk == [kind |-> "junk", value |-> 0, part |-> 1]
\* A character found behind the end of a buffer.
Stray == [kind |-> "char", value |-> 0, part |-> 0]

\* The bytes of a value of each type.
Header(flag) == Parts("header", flag, 1)
Int32(x) == Parts("int", x, INT_BYTES)
Text(which, len) == Parts("char", which, len)
Byte(x) == Parts("byte", x, 1)
Time == Parts("time", 0, TIME_BYTES)
Bitarray == Parts("canvas", 0, CANVAS_BYTES)

IsBuffer(b) ==
  /\ DOMAIN b = {"data", "next"}
  /\ b.data \in Seq(Bytes)
  /\ b.next \in 0..Len(b.data)

new_buffer == [data |-> [k \in 1..INITIAL_SIZE |-> Zero], next |-> 0]

\* What send_buffer sends.
Content(b) == SubSeq(b.data, 1, b.next)

\* reserve_space: at least the bytes asked for, and otherwise twice as many as now.  When
\* min_size wraps around, the buffer stays as large as it is.
NewSize(b, bytes) ==
  LET min_size == AsInt(b.next + bytes)
      double == AsInt(2 * Len(b.data))
  IN  IF min_size <= Len(b.data) THEN Len(b.data)
      ELSE IF min_size > double THEN min_size ELSE double

\* Mutant: the rest of the buffer is not set to zero, as the TODO of
\* serialization.c:123 considers.
reserve_space_without_memset(b, bytes) ==
  [b EXCEPT !.data = [k \in 1..NewSize(b, bytes) |->
                        IF k <= Len(b.data) THEN b.data[k] ELSE Junk]]

\* Everything from next on is zero afterwards.
reserve_space(b, bytes) ==
  [b EXCEPT !.data = [k \in 1..NewSize(b, bytes) |->
                        IF k <= b.next /\ k <= Len(b.data) THEN b.data[k] ELSE Zero]]

\* memcpy to data + offset.
Copied(b, offset, bytes) ==
  [b EXCEPT !.data = [k \in 1..Len(b.data) |->
                        IF k \in (offset + 1)..(offset + Len(bytes))
                        THEN bytes[k - offset] ELSE b.data[k]]]

Advanced(b, bytes) == [b EXCEPT !.next = b.next + bytes]

\* The common body of serialize_byte, _sock_header, _int, _string, _time_t, _canvas.
serialize(b, bytes) ==
  Advanced(Copied(reserve_space(b, Len(bytes)), b.next, bytes), Len(bytes))

\* Mutant: next stays where it is.
clear_buffer_keeping_next(b) ==
  [data |-> [k \in 1..Len(b.data) |-> Zero], next |-> b.next]

clear_buffer(b) == [data |-> [k \in 1..Len(b.data) |-> Zero], next |-> 0]

\* unpack_int_var: the number that starts after offset bytes.
unpack_int_var(b, offset) == b.data[offset + 1].value

\* What strcpy finds after offset bytes: the bytes up to the first that is zero.  When
\* there is none it reads on behind the buffer, where it may find one at once or not.
strcpy(b, offset) ==
  LET rest == SubSeq(b.data, offset + 1, Len(b.data))
      ends == {k \in 1..Len(rest) : rest[k] = Zero}
  IN  IF ends = {} THEN {rest, Append(rest, Stray)}
      ELSE {SubSeq(rest, 1, k - 1) : k \in {j \in ends : \A e \in ends : j <= e}}
=============================================================================
