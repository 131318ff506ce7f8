---------------------------- MODULE Session_proofs ----------------------------
(* Through every handler, broadcast and removal, the array of descriptors is  *)
(* exactly the listener and the players online; what poll has reported is     *)
(* still there when the loop comes to it; a client is removed for one of the  *)
(* reasons of RemovedForAReason only; and every client that reads on shows    *)
(* the round the server has.  All but the first need to know what is in       *)
(* flight: SInv, and CInv for what clients show.                              *)
EXTENDS Session, LibraryLemmas

-----------------------------------------------------------------------------
(* What the operations on the array of descriptors keep: its type, which      *)
(* descriptors are in it, each once, and what poll has written.               *)

\* The parts of IsExactly, for any function of slots.
LEMMA ExactlyByParts ==
  ASSUME NEW p, NEW F,
         \A k \in 1..p.fd_count : p.slots[k].fd \in F,
         \A x \in F : \E k \in 1..p.fd_count : p.slots[k].fd = x,
         \A j, k \in 1..p.fd_count : p.slots[j].fd = p.slots[k].fd => j = k
  PROVE  IsExactly(p, F)
BY DEF IsExactly, Polled

LEMMA ExactlyInParts ==
  ASSUME NEW p, NEW F, IsExactly(p, F)
  PROVE  /\ \A k \in 1..p.fd_count : p.slots[k].fd \in F
         /\ \A x \in F : \E k \in 1..p.fd_count : p.slots[k].fd = x
         /\ \A j, k \in 1..p.fd_count : p.slots[j].fd = p.slots[k].fd => j = k
BY DEF IsExactly, Polled

Slots(Fds) == [fd : Fds \cup {NoFd}, revents : Revents]

\* A poll set from its two parts.
LEMMA PollSetByParts ==
  ASSUME NEW Fds, NEW slots \in Seq(Slots(Fds)), NEW n \in 0..Len(slots)
  PROVE  IsPollSet([slots |-> slots, fd_count |-> n], Fds)
BY DEF IsPollSet, Slots

\* add_to_pfds adds a descriptor that is not there yet, whether the array is full or not.
LEMMA AddIsExact ==
  ASSUME NEW Fds, NEW p, IsPollSet(p, Fds), Len(p.slots) > 0,
         NEW F, IsExactly(p, F), NEW x \in Fds, x \notin F
  PROVE  /\ IsPollSet(add_to_pfds(p, x), Fds)
         /\ IsExactly(add_to_pfds(p, x), F \cup {x})
         /\ Len(add_to_pfds(p, x).slots) > 0
<1> DEFINE n == p.fd_count
           room == Room(p)
           slots == [room EXCEPT ![n + 1].fd = x]
           q == [slots |-> slots, fd_count |-> n + 1]
<1>1. p.slots \in Seq(Slots(Fds)) /\ n \in 0..Len(p.slots)
  BY DEF IsPollSet, Slots
<1>2. /\ room \in Seq(Slots(Fds))
      /\ Len(room) >= n + 1
      /\ \A k \in 1..n : room[k] = p.slots[k]
  <2>1. CASE n = Len(p.slots)
    <3> DEFINE junk == [k \in 1..Len(p.slots) |-> JunkSlot]
    <3>1. junk \in Seq(Slots(Fds)) /\ Len(junk) = Len(p.slots)
      BY <1>1 DEF JunkSlot, Slots, Revents
    <3>2. room = p.slots \o junk
      BY <2>1 DEF Room
    <3> HIDE DEF junk, room
    <3> QED BY <1>1, <2>1, <3>1, <3>2
  <2>2. CASE n # Len(p.slots)
    BY <1>1, <2>2 DEF Room
  <2> QED BY <2>1, <2>2
<1> HIDE DEF room
<1>3. room[n + 1] \in Slots(Fds)
  BY <1>1, <1>2
<1>4. /\ slots \in Seq(Slots(Fds))
      /\ Len(slots) = Len(room)
      /\ \A k \in 1..n : slots[k] = p.slots[k]
      /\ slots[n + 1].fd = x
  BY <1>1, <1>2, <1>3 DEF Slots
<1>5. add_to_pfds(p, x) = q
  BY DEF add_to_pfds, room
<1> HIDE DEF slots
<1>6. IsPollSet(q, Fds) /\ Len(q.slots) > 0
  BY <1>1, <1>2, <1>4, PollSetByParts
<1>7. IsExactly(q, F \cup {x})
  <2>1. \A k \in 1..(n + 1) : slots[k].fd = IF k = n + 1 THEN x ELSE p.slots[k].fd
    BY <1>1, <1>4
  <2>2. q.fd_count = n + 1 /\ q.slots = slots
    OBVIOUS
  <2>3. \A k \in 1..q.fd_count : q.slots[k].fd \in F \cup {x}
    BY <1>1, <2>1, <2>2, ExactlyInParts
  <2>4. \A y \in F \cup {x} : \E k \in 1..q.fd_count : q.slots[k].fd = y
    <3>1. ASSUME NEW y \in F PROVE \E k \in 1..(n + 1) : slots[k].fd = y
      <4>1. PICK k \in 1..n : p.slots[k].fd = y
        BY ExactlyInParts
      <4> QED BY <1>1, <2>1, <4>1
    <3>2. \E k \in 1..(n + 1) : slots[k].fd = x
      BY <1>1, <2>1
    <3> QED BY <2>2, <3>1, <3>2
  <2>5. \A j, k \in 1..q.fd_count : q.slots[j].fd = q.slots[k].fd => j = k
    BY <1>1, <2>1, <2>2, ExactlyInParts
  <2> QED BY <2>3, <2>4, <2>5, ExactlyByParts
<1> QED BY <1>5, <1>6, <1>7

\* del_from_pfds takes one entry out, whether it is the last or another.
LEMMA DeletionIsExact ==
  ASSUME NEW Fds, NEW p, IsPollSet(p, Fds), NEW F, IsExactly(p, F),
         NEW e \in 1..p.fd_count
  PROVE  /\ IsPollSet(del_from_pfds(p, e), Fds)
         /\ IsExactly(del_from_pfds(p, e), F \ {p.slots[e].fd})
         /\ Len(del_from_pfds(p, e).slots) = Len(p.slots)
<1> DEFINE n == p.fd_count
           slots == [p.slots EXCEPT ![e] = p.slots[n], ![n] = FreeSlot]
           q == [slots |-> slots, fd_count |-> n - 1]
           x == p.slots[e].fd
<1>1. p.slots \in Seq(Slots(Fds)) /\ n \in 1..Len(p.slots) /\ e \in 1..Len(p.slots)
  BY DEF IsPollSet, Slots
<1>2. del_from_pfds(p, e) = q
  BY DEF del_from_pfds
<1>3. FreeSlot \in Slots(Fds) /\ p.slots[n] \in Slots(Fds)
  <2>1. FreeSlot \in Slots(Fds)
    BY DEF FreeSlot, Slots, Revents
  <2>2. p.slots[n] \in Slots(Fds)
    BY <1>1
  <2> QED BY <2>1, <2>2
<1>4. /\ slots \in Seq(Slots(Fds)) /\ Len(slots) = Len(p.slots)
      /\ \A k \in 1..(n - 1) : slots[k] = IF k = e THEN p.slots[n] ELSE p.slots[k]
  BY <1>1, <1>3
<1> HIDE DEF slots
<1>5. IsPollSet(q, Fds) /\ Len(q.slots) = Len(p.slots)
  BY <1>1, <1>4, PollSetByParts
<1>6. IsExactly(q, F \ {x})
  <2>1. q.fd_count = n - 1 /\ q.slots = slots
    OBVIOUS
  <2>2. \A k \in 1..q.fd_count : q.slots[k].fd \in F \ {x}
    BY <1>1, <1>4, <2>1, ExactlyInParts
  <2>3. \A y \in F \ {x} : \E k \in 1..q.fd_count : q.slots[k].fd = y
    <3> SUFFICES ASSUME NEW y \in F \ {x}
                 PROVE  \E k \in 1..(n - 1) : slots[k].fd = y
      BY <2>1
    <3>1. PICK k \in 1..n : p.slots[k].fd = y
      BY ExactlyInParts
    <3>2. k # e
      BY <3>1
    <3>3. CASE k = n
      BY <1>1, <1>4, <3>1, <3>2, <3>3
    <3>4. CASE k # n
      BY <1>1, <1>4, <3>1, <3>2, <3>4
    <3> QED BY <3>3, <3>4
  <2>4. \A j, k \in 1..q.fd_count : q.slots[j].fd = q.slots[k].fd => j = k
    <3>1. \A j, k \in 1..n : p.slots[j].fd = p.slots[k].fd => j = k
      BY ExactlyInParts
    <3>2. ASSUME NEW j \in 1..(n - 1), NEW k \in 1..(n - 1), slots[j].fd = slots[k].fd
          PROVE  j = k
      <4>1. j \in 1..n /\ k \in 1..n /\ n \in 1..n /\ j # n /\ k # n
        BY <1>1, <3>2
      <4>2. /\ slots[j] = IF j = e THEN p.slots[n] ELSE p.slots[j]
            /\ slots[k] = IF k = e THEN p.slots[n] ELSE p.slots[k]
        BY <1>4, <3>2
      <4>3. (IF j = e THEN n ELSE j) = (IF k = e THEN n ELSE k)
        BY <3>1, <3>2, <4>1, <4>2
      <4> QED BY <4>1, <4>3
    <3> QED BY <2>1, <3>2
  <2> QED BY <2>2, <2>3, <2>4, ExactlyByParts
<1> QED BY <1>2, <1>5, <1>6

\* del_from_pfds_by_fd takes the descriptor out, if it is in.
LEMMA DeletionByFdIsExact ==
  ASSUME NEW Fds, NEW p, IsPollSet(p, Fds), NEW F, IsExactly(p, F), NEW x
  PROVE  /\ IsPollSet(del_from_pfds_by_fd(p, x), Fds)
         /\ IsExactly(del_from_pfds_by_fd(p, x), F \ {x})
         /\ Len(del_from_pfds_by_fd(p, x).slots) = Len(p.slots)
<1> DEFINE found == {k \in 1..p.fd_count : p.slots[k].fd = x}
<1>1. CASE found = {}
  <2>1. x \notin F
    BY <1>1, ExactlyInParts
  <2>2. F \ {x} = F
    BY <2>1
  <2>3. del_from_pfds_by_fd(p, x) = p
    BY <1>1 DEF del_from_pfds_by_fd
  <2> QED BY <2>2, <2>3
<1>2. CASE found # {}
  <2>1. found \in SUBSET Nat
    BY DEF IsPollSet
  <2>2. Min(found) \in found
    BY <1>2, <2>1, MinIsLeast, Zenon
  <2>3. del_from_pfds_by_fd(p, x) = del_from_pfds(p, Min(found))
    BY <1>2 DEF del_from_pfds_by_fd
  <2>4. PICK e \in 1..p.fd_count : e = Min(found) /\ p.slots[e].fd = x
    BY <2>2
  <2> HIDE DEF found
  <2>5. del_from_pfds_by_fd(p, x) = del_from_pfds(p, e)
    BY <2>3, <2>4
  <2>6. /\ IsPollSet(del_from_pfds(p, e), Fds)
        /\ IsExactly(del_from_pfds(p, e), F \ {p.slots[e].fd})
        /\ Len(del_from_pfds(p, e).slots) = Len(p.slots)
    BY DeletionIsExact, Zenon
  <2>7. F \ {p.slots[e].fd} = F \ {x}
    BY <2>4
  <2> QED BY <2>5, <2>6, <2>7, Zenon
<1> QED BY <1>1, <1>2

\* poll writes revents only.
LEMMA PollIsExact ==
  ASSUME NEW Fds, NEW p, IsPollSet(p, Fds), NEW F, IsExactly(p, F), NEW R
  PROVE  /\ IsPollSet(poll(p, R), Fds)
         /\ IsExactly(poll(p, R), F)
         /\ Len(poll(p, R).slots) = Len(p.slots)
<1> DEFINE slots == [k \in 1..Len(p.slots) |->
                       IF k > p.fd_count THEN p.slots[k]
                       ELSE [fd |-> p.slots[k].fd,
                             revents |-> IF p.slots[k].fd \in R THEN "POLLIN" ELSE "none"]]
           q == [slots |-> slots, fd_count |-> p.fd_count]
<1>1. p.slots \in Seq(Slots(Fds)) /\ p.fd_count \in 0..Len(p.slots)
  BY DEF IsPollSet, Slots
<1>2. poll(p, R) = q
  BY DEF poll, IsPollSet
<1>3. /\ slots \in Seq(Slots(Fds)) /\ Len(slots) = Len(p.slots)
      /\ \A k \in 1..p.fd_count : slots[k].fd = p.slots[k].fd
  <2>1. ASSUME NEW k \in 1..Len(p.slots) PROVE slots[k] \in Slots(Fds)
    <3>1. p.slots[k] \in Slots(Fds)
      BY <1>1
    <3>2. p.slots[k].fd \in Fds \cup {NoFd}
      BY <3>1 DEF Slots
    <3> QED BY <3>1, <3>2 DEF Slots, Revents
  <2>2. \A k \in 1..p.fd_count : slots[k].fd = p.slots[k].fd
    BY <1>1
  <2>3. slots \in Seq(Slots(Fds)) /\ Len(slots) = Len(p.slots)
    <3>1. slots \in [1..Len(p.slots) -> Slots(Fds)]
      BY <2>1
    <3> HIDE DEF slots
    <3>2. Len(p.slots) \in Nat
      BY <1>1
    <3> QED BY <3>1, <3>2
  <2> QED BY <2>2, <2>3
<1> HIDE DEF slots
<1>4. IsPollSet(q, Fds) /\ Len(q.slots) = Len(p.slots)
  BY <1>1, <1>3, PollSetByParts
<1>5. IsExactly(q, F)
  BY <1>3, ExactlyInParts, ExactlyByParts
<1> QED BY <1>2, <1>4, <1>5

-----------------------------------------------------------------------------
(* Where POLLIN can be: no slot beyond the entries says POLLIN, and an entry    *)
(* that does has come from its place or from a later one, as it was.            *)

CleanBeyond(p) ==
  \A k \in 1..Len(p.slots) : k > p.fd_count => p.slots[k].revents # "POLLIN"

Moves(p, q) ==
  \A k \in 1..q.fd_count :
    q.slots[k].revents = "POLLIN" =>
      \E j \in 1..p.fd_count : j >= k /\ q.slots[k] = p.slots[j]

LEMMA MovesNothing ==
  ASSUME NEW p, p.fd_count \in Nat
  PROVE  Moves(p, p)
BY DEF Moves

LEMMA MovesOn ==
  ASSUME NEW p, NEW q, NEW r, Moves(p, q), Moves(q, r),
         p.fd_count \in Nat, q.fd_count \in Nat, r.fd_count \in Nat
  PROVE  Moves(p, r)
<1> SUFFICES ASSUME NEW k \in 1..r.fd_count, r.slots[k].revents = "POLLIN"
             PROVE  \E j \in 1..p.fd_count : j >= k /\ r.slots[k] = p.slots[j]
  BY DEF Moves
<1>1. PICK j \in 1..q.fd_count : j >= k /\ r.slots[k] = q.slots[j]
  BY DEF Moves
<1>2. PICK l \in 1..p.fd_count : l >= j /\ q.slots[j] = p.slots[l]
  BY <1>1 DEF Moves
<1> QED BY <1>1, <1>2

\* A new entry keeps the revents of its slot, which are those of nobody.
LEMMA AddMoves ==
  ASSUME NEW Fds, NEW p, IsPollSet(p, Fds), Len(p.slots) > 0, CleanBeyond(p),
         NEW x \in Fds
  PROVE  CleanBeyond(add_to_pfds(p, x)) /\ Moves(p, add_to_pfds(p, x))
<1> DEFINE n == p.fd_count
           room == Room(p)
           slots == [room EXCEPT ![n + 1].fd = x]
<1>1. p.slots \in Seq(Slots(Fds)) /\ n \in 0..Len(p.slots)
  BY DEF IsPollSet, Slots
<1>2. /\ room \in Seq(Slots(Fds)) /\ Len(room) >= n + 1
      /\ \A k \in 1..n : room[k] = p.slots[k]
      /\ \A k \in 1..Len(room) : k > n => room[k].revents # "POLLIN"
  <2>1. CASE n = Len(p.slots)
    <3> DEFINE junk == [k \in 1..Len(p.slots) |-> JunkSlot]
    <3>1. /\ junk \in Seq(Slots(Fds)) /\ Len(junk) = Len(p.slots)
          /\ \A k \in 1..Len(p.slots) : junk[k].revents # "POLLIN"
      BY <1>1 DEF JunkSlot, Slots, Revents
    <3>2. room = p.slots \o junk
      BY <2>1 DEF Room
    <3> HIDE DEF junk, room
    <3> QED BY <1>1, <2>1, <3>1, <3>2
  <2>2. CASE n # Len(p.slots)
    BY <1>1, <2>2 DEF Room, CleanBeyond
  <2> QED BY <2>1, <2>2
<1> HIDE DEF room
<1>3. room[n + 1] \in Slots(Fds)
  BY <1>1, <1>2
<1>4. /\ Len(slots) = Len(room)
      /\ \A k \in 1..Len(room) : k # n + 1 => slots[k] = room[k]
      /\ slots[n + 1].revents = room[n + 1].revents
  BY <1>1, <1>2, <1>3 DEF Slots
<1> HIDE DEF slots
<1>5. add_to_pfds(p, x).slots = slots /\ add_to_pfds(p, x).fd_count = n + 1
  BY DEF add_to_pfds, room, slots
<1>6. \A k \in 1..Len(room) : k > n => slots[k].revents # "POLLIN"
  BY <1>1, <1>2, <1>4
<1>7. CleanBeyond(add_to_pfds(p, x))
  BY <1>1, <1>4, <1>5, <1>6 DEF CleanBeyond
<1>8. Moves(p, add_to_pfds(p, x))
  <2> SUFFICES ASSUME NEW k \in 1..(n + 1), slots[k].revents = "POLLIN"
               PROVE  \E j \in 1..n : j >= k /\ slots[k] = p.slots[j]
    BY <1>5 DEF Moves
  <2>1. k \in 1..n /\ slots[k] = p.slots[k]
    BY <1>1, <1>2, <1>4, <1>6
  <2> QED BY <1>1, <2>1
<1> QED BY <1>7, <1>8

\* The last entry moves towards the start, and the slot it leaves is clean.
LEMMA DeletionMoves ==
  ASSUME NEW Fds, NEW p, IsPollSet(p, Fds), CleanBeyond(p), NEW e \in 1..p.fd_count
  PROVE  CleanBeyond(del_from_pfds(p, e)) /\ Moves(p, del_from_pfds(p, e))
<1> DEFINE n == p.fd_count
           slots == [p.slots EXCEPT ![e] = p.slots[n], ![n] = FreeSlot]
<1>1. p.slots \in Seq(Slots(Fds)) /\ n \in 1..Len(p.slots) /\ e \in 1..Len(p.slots)
  BY DEF IsPollSet, Slots
<1>2. /\ Len(slots) = Len(p.slots)
      /\ \A k \in 1..Len(p.slots) :
           slots[k] = IF k = n THEN FreeSlot ELSE IF k = e THEN p.slots[n] ELSE p.slots[k]
  BY <1>1
<1> HIDE DEF slots
<1>3. del_from_pfds(p, e).slots = slots /\ del_from_pfds(p, e).fd_count = n - 1
  BY DEF del_from_pfds, slots
<1>4. CleanBeyond(del_from_pfds(p, e))
  BY <1>1, <1>2, <1>3 DEF CleanBeyond, FreeSlot
<1>5. Moves(p, del_from_pfds(p, e))
  <2> SUFFICES ASSUME NEW k \in 1..(n - 1)
               PROVE  \E j \in 1..n : j >= k /\ slots[k] = p.slots[j]
    BY <1>3 DEF Moves
  <2>1. CASE k = e
    BY <1>1, <1>2, <2>1
  <2>2. CASE k # e
    BY <1>1, <1>2, <2>2
  <2> QED BY <2>1, <2>2
<1> QED BY <1>4, <1>5

LEMMA DeletionByFdMoves ==
  ASSUME NEW Fds, NEW p, IsPollSet(p, Fds), CleanBeyond(p), NEW x
  PROVE  CleanBeyond(del_from_pfds_by_fd(p, x)) /\ Moves(p, del_from_pfds_by_fd(p, x))
<1> DEFINE found == {k \in 1..p.fd_count : p.slots[k].fd = x}
<1>1. CASE found = {}
  <2>1. del_from_pfds_by_fd(p, x) = p
    BY <1>1 DEF del_from_pfds_by_fd
  <2>2. p.fd_count \in Nat
    BY DEF IsPollSet
  <2> QED BY <2>1, <2>2, MovesNothing
<1>2. CASE found # {}
  <2>1. found \in SUBSET Nat
    BY DEF IsPollSet
  <2>2. Min(found) \in found
    BY <1>2, <2>1, MinIsLeast, Zenon
  <2>3. del_from_pfds_by_fd(p, x) = del_from_pfds(p, Min(found))
    BY <1>2 DEF del_from_pfds_by_fd
  <2>4. PICK e \in 1..p.fd_count : e = Min(found)
    BY <2>2
  <2> HIDE DEF found
  <2>5. CleanBeyond(del_from_pfds(p, e)) /\ Moves(p, del_from_pfds(p, e))
    BY DeletionMoves, Zenon
  <2> QED BY <2>3, <2>4, <2>5
<1> QED BY <1>1, <1>2

\* poll marks the entries to be read, and no other slot.
LEMMA PollMarks ==
  ASSUME NEW Fds, NEW p, IsPollSet(p, Fds), CleanBeyond(p), NEW R
  PROVE  /\ CleanBeyond(poll(p, R))
         /\ poll(p, R).fd_count = p.fd_count
         /\ \A k \in 1..p.fd_count :
              poll(p, R).slots[k].revents = "POLLIN" => poll(p, R).slots[k].fd \in R
<1> DEFINE slots == [k \in 1..Len(p.slots) |->
                       IF k > p.fd_count THEN p.slots[k]
                       ELSE [fd |-> p.slots[k].fd,
                             revents |-> IF p.slots[k].fd \in R THEN "POLLIN" ELSE "none"]]
<1>1. p.slots \in Seq(Slots(Fds)) /\ p.fd_count \in 0..Len(p.slots)
  BY DEF IsPollSet, Slots
<1>2. poll(p, R).slots = slots /\ poll(p, R).fd_count = p.fd_count
  BY DEF poll, IsPollSet
<1>3. /\ Len(slots) = Len(p.slots)
      /\ \A k \in 1..Len(p.slots) : k > p.fd_count => slots[k] = p.slots[k]
      /\ \A k \in 1..p.fd_count : slots[k].revents = "POLLIN" => slots[k].fd \in R
  BY <1>1
<1> HIDE DEF slots
<1> QED BY <1>1, <1>2, <1>3 DEF CleanBeyond

-----------------------------------------------------------------------------
(* Sessions *)

Fields == {"pfds", "online", "in_progress", "phase", "drawer", "canvas",
           "toServer", "toClient", "view", "hung", "spoiled", "crossed"}

\* What every handler keeps of the session.
Good(t) ==
  /\ DOMAIN t = Fields
  /\ IsPollSet(t.pfds, Clients \cup {Listener})
  /\ Len(t.pfds.slots) > 0
  /\ t.online \subseteq Clients
  /\ t.hung \subseteq Clients
  /\ IsExactly(t.pfds, t.online \cup {Listener})

\* A handler that accepts nobody leads from t to one of U.
Leads(t, U) == \A u \in U : Good(u) /\ u.online \subseteq t.online

-----------------------------------------------------------------------------
(* Single states *)

LEMMA GoodByFields ==
  ASSUME NEW t, Good(t), NEW u, DOMAIN u = Fields,
         u.pfds = t.pfds, u.online = t.online, u.hung \subseteq Clients
  PROVE  Good(u)
BY DEF Good

LEMMA SendIsGood ==
  ASSUME NEW t, Good(t), NEW C, NEW m
  PROVE  Good(Send(t, C, m)) /\ Send(t, C, m).online = t.online
<1> DEFINE u == Send(t, C, m)
<1>1. DOMAIN u = Fields /\ u.pfds = t.pfds /\ u.online = t.online /\ u.hung = t.hung
  BY DEF Send, Good, Fields
<1>2. t.hung \subseteq Clients
  BY DEF Good
<1> HIDE DEF u
<1>3. Good(u)
  BY <1>1, <1>2, GoodByFields
<1> QED BY <1>1, <1>3 DEF u

LEMMA DisconnectIsGood ==
  ASSUME NEW t, Good(t), NEW c \in Clients
  PROVE  Good(disconnect(t, c)) /\ disconnect(t, c).online \subseteq t.online
<1> DEFINE u == disconnect(t, c)
           q == del_from_pfds_by_fd(t.pfds, c)
           Fds == Clients \cup {Listener}
           F == t.online \cup {Listener}
<1>1. DOMAIN u = Fields /\ u.pfds = q /\ u.online = t.online \ {c} /\ u.hung = t.hung \ {c}
  BY DEF disconnect, Good, Fields
<1>2. /\ IsPollSet(t.pfds, Fds) /\ IsExactly(t.pfds, F) /\ Len(t.pfds.slots) > 0
      /\ t.online \subseteq Clients /\ t.hung \subseteq Clients
  BY DEF Good
<1>3. IsPollSet(q, Fds) /\ IsExactly(q, F \ {c}) /\ Len(q.slots) = Len(t.pfds.slots)
  BY <1>2, DeletionByFdIsExact, Zenon
<1>4. F \ {c} = u.online \cup {Listener}
  BY <1>1, SessionAssumption DEF Listener
<1>5. Len(q.slots) > 0
  BY <1>2, <1>3
<1> HIDE DEF u, q, F, Fds
<1>6. IsExactly(u.pfds, u.online \cup {Listener})
  BY <1>1, <1>3, <1>4
<1>7. Good(u)
  BY <1>1, <1>2, <1>3, <1>5, <1>6 DEF Good, Fds
<1> QED BY <1>1, <1>7 DEF u

\* The listener branch puts the new client into the array.
LEMMA PolledIsGood ==
  ASSUME NEW t, Good(t), NEW c \in Clients, c \notin t.online
  PROVE  LET u == [t EXCEPT !.online = @ \cup {c}, !.pfds = add_to_pfds(@, c)]
         IN  Good(u) /\ u.online = t.online \cup {c}
<1> DEFINE u == [t EXCEPT !.online = @ \cup {c}, !.pfds = add_to_pfds(@, c)]
           q == add_to_pfds(t.pfds, c)
           Fds == Clients \cup {Listener}
           F == t.online \cup {Listener}
<1>1. DOMAIN u = Fields /\ u.pfds = q /\ u.online = t.online \cup {c} /\ u.hung = t.hung
  BY DEF Good, Fields
<1>2. /\ IsPollSet(t.pfds, Fds) /\ IsExactly(t.pfds, F) /\ Len(t.pfds.slots) > 0
      /\ t.online \subseteq Clients /\ t.hung \subseteq Clients
  BY DEF Good
<1>3. c \in Fds /\ c \notin F
  BY SessionAssumption DEF Listener
<1>4. IsPollSet(q, Fds) /\ IsExactly(q, F \cup {c}) /\ Len(q.slots) > 0
  BY <1>2, <1>3, AddIsExact, Zenon
<1>5. F \cup {c} = u.online \cup {Listener}
  BY <1>1
<1> HIDE DEF u, q, F, Fds
<1>6. IsExactly(u.pfds, u.online \cup {Listener})
  BY <1>1, <1>4, <1>5
<1>7. Good(u)
  BY <1>1, <1>2, <1>4, <1>6 DEF Good, Fds
<1> QED BY <1>1, <1>7 DEF u

-----------------------------------------------------------------------------
(* Sets of states *)

LEMMA LeadsOn ==
  ASSUME NEW t, NEW U, Leads(t, U), NEW u \in U, NEW V, Leads(u, V)
  PROVE  Leads(t, V)
BY DEF Leads

LEMMA BroadcastLeads ==
  ASSUME NEW t, Good(t), NEW sender
  PROVE  Leads(t, broadcast(t, sender))
<1>1. ASSUME NEW v, Good(v), NEW c \in v.hung
      PROVE  Good(disconnect(v, c)) /\ disconnect(v, c).online \subseteq v.online
  <2>1. c \in Clients
    BY <1>1 DEF Good
  <2> QED BY <1>1, <2>1, DisconnectIsGood
<1>2. Leads(t, FirstLoss(t, sender))
  BY <1>1 DEF Leads, FirstLoss
<1>3. ASSUME NEW u \in FirstLoss(t, sender) PROVE Leads(t, SecondLoss(u))
  <2>1. Good(u) /\ u.online \subseteq t.online
    BY <1>2 DEF Leads
  <2>2. Leads(u, SecondLoss(u))
    BY <1>1, <2>1 DEF Leads, SecondLoss
  <2> QED BY <1>2, <2>2, LeadsOn
<1> QED BY <1>2, <1>3 DEF broadcast, Leads

LEMMA BroadcastBufferLeads ==
  ASSUME NEW t, Good(t), NEW sender, NEW m
  PROVE  Leads(t, broadcast_buffer(t, sender, m))
<1> DEFINE u == Send(t, t.online \ {sender}, m)
<1>1. Good(u) /\ u.online = t.online
  BY SendIsGood, Zenon
<1> HIDE DEF u
<1>2. Leads(u, broadcast(u, sender))
  BY <1>1, BroadcastLeads
<1>3. Leads(t, broadcast(u, sender))
  BY <1>1, <1>2 DEF Leads
<1> QED BY <1>3 DEF broadcast_buffer, u

LEMMA RemovalLeads ==
  ASSUME NEW t, Good(t), NEW c \in Clients
  PROVE  Leads(t, remove_player_from_server(t, c))
<1> DEFINE u == disconnect(t, c)
<1>1. Good(u) /\ u.online \subseteq t.online
  BY DisconnectIsGood, Zenon
<1> HIDE DEF u
<1>2. Leads(u, broadcast(u, None))
  BY <1>1, BroadcastLeads
<1>3. Leads(t, broadcast(u, None))
  BY <1>1, <1>2 DEF Leads
<1> QED BY <1>3 DEF remove_player_from_server, u

LEMMA StartLeads ==
  ASSUME NEW t, Good(t)
  PROVE  Leads(t, start_round(t))
<1> SUFFICES ASSUME NEW d \in t.online
             PROVE  LET drawn == [t EXCEPT !.in_progress = TRUE, !.phase = "countdown", !.drawer = d]
                        unsent == IF d \in t.hung THEN remove_player_from_server(drawn, d) ELSE {}
                    IN  Leads(t, UNION {broadcast_buffer(u, d, Start("guess")) :
                                          u \in {Send(drawn, {d}, Start("draw"))} \cup unsent})
  BY Zenon DEF start_round, Leads
<1> DEFINE drawn == [t EXCEPT !.in_progress = TRUE, !.phase = "countdown", !.drawer = d]
           unsent == IF d \in t.hung THEN remove_player_from_server(drawn, d) ELSE {}
<1>1. Good(drawn) /\ drawn.online = t.online
  <2>1. /\ DOMAIN drawn = Fields /\ drawn.pfds = t.pfds /\ drawn.online = t.online
        /\ drawn.hung = t.hung
    BY DEF Good, Fields
  <2>2. t.hung \subseteq Clients
    BY DEF Good
  <2> HIDE DEF drawn
  <2> QED BY <2>1, <2>2, GoodByFields
<1> HIDE DEF drawn
<1>2. d \in Clients
  BY DEF Good
<1>3. Leads(drawn, unsent)
  <2>1. Leads(drawn, remove_player_from_server(drawn, d))
    BY <1>1, <1>2, RemovalLeads
  <2> QED BY <2>1 DEF Leads
<1> HIDE DEF unsent
<1>4. Good(Send(drawn, {d}, Start("draw"))) /\ Send(drawn, {d}, Start("draw")).online = drawn.online
  BY <1>1, SendIsGood, Zenon
<1>5. Leads(drawn, {Send(drawn, {d}, Start("draw"))} \cup unsent)
  BY <1>3, <1>4 DEF Leads
<1>6. ASSUME NEW u \in {Send(drawn, {d}, Start("draw"))} \cup unsent
      PROVE  Leads(t, broadcast_buffer(u, d, Start("guess")))
  <2>1. Good(u) /\ u.online \subseteq t.online
    BY <1>1, <1>5 DEF Leads
  <2>2. Leads(u, broadcast_buffer(u, d, Start("guess")))
    BY <2>1, BroadcastBufferLeads
  <2> QED BY <2>1, <2>2, Zenon DEF Leads
<1> QED BY <1>6, Zenon DEF Leads, drawn, unsent

LEMMA ValidateLeads ==
  ASSUME NEW t, Good(t)
  PROVE  Leads(t, validate_round(t))
BY BroadcastLeads, StartLeads DEF validate_round

LEMMA FinishLeads ==
  ASSUME NEW t, Good(t)
  PROVE  Leads(t, finish_round(t))
<1>1. ASSUME NEW u \in broadcast_buffer(t, None, GameEnds)
      PROVE  Leads(t, validate_round([u EXCEPT !.canvas = {}, !.spoiled = FALSE]))
  <2> DEFINE w == [u EXCEPT !.canvas = {}, !.spoiled = FALSE]
  <2>1. Good(u) /\ u.online \subseteq t.online
    BY BroadcastBufferLeads, Zenon DEF Leads
  <2>2. /\ DOMAIN w = Fields /\ w.pfds = u.pfds /\ w.online = u.online /\ w.hung = u.hung
    BY <2>1 DEF Good, Fields
  <2>3. u.hung \subseteq Clients
    BY <2>1 DEF Good
  <2> HIDE DEF w
  <2>4. Good(w)
    BY <2>1, <2>2, <2>3, GoodByFields
  <2>5. Leads(w, validate_round(w))
    BY <2>4, ValidateLeads
  <2>6. Leads(t, validate_round(w))
    BY <2>1, <2>2, <2>5 DEF Leads
  <2> QED BY <2>6 DEF w
<1> QED BY <1>1, Zenon DEF finish_round, Leads

LEMMA DrawingLeads ==
  ASSUME NEW t, Good(t), NEW c \in Clients, NEW m
  PROVE  Leads(t, manage_drawing_player(t, c, m))
<1> DEFINE drawn == [t EXCEPT !.canvas = ToggleAll(@, Accepted(m.diffs))]
           spoiled == [drawn EXCEPT !.spoiled = @ \/ Accepted(m.diffs) # <<>>]
<1>1. /\ DOMAIN drawn = Fields /\ drawn.pfds = t.pfds /\ drawn.online = t.online
      /\ drawn.hung = t.hung
  BY DEF Good, Fields
<1>2. t.hung \subseteq Clients
  BY DEF Good
<1> HIDE DEF drawn
<1>3. Good(drawn)
  BY <1>1, <1>2, GoodByFields
<1>4. /\ DOMAIN spoiled = Fields /\ spoiled.pfds = t.pfds /\ spoiled.online = t.online
      /\ spoiled.hung = t.hung
  BY <1>1 DEF Fields
<1> HIDE DEF spoiled
<1>5. Good(spoiled)
  BY <1>2, <1>4, GoodByFields
<1>6. Leads(t, broadcast_buffer(drawn, c, m))
  <2>1. Leads(drawn, broadcast_buffer(drawn, c, m))
    BY <1>3, BroadcastBufferLeads
  <2> QED BY <1>1, <2>1 DEF Leads
<1>7. Leads(t, remove_player_from_server(spoiled, c))
  <2>1. Leads(spoiled, remove_player_from_server(spoiled, c))
    BY <1>5, RemovalLeads
  <2> QED BY <1>4, <2>1 DEF Leads
<1> QED BY <1>6, <1>7, Zenon DEF manage_drawing_player, drawn, spoiled

LEMMA GuessingLeads ==
  ASSUME NEW t, Good(t), NEW c \in Clients
  PROVE  Leads(t, manage_guessing_player(t, c))
<1>1. Leads(t, broadcast(t, c)) /\ Leads(t, remove_player_from_server(t, c))
  BY BroadcastLeads, RemovalLeads
<1> QED BY <1>1 DEF manage_guessing_player, Leads

LEMMA ReadableLeads ==
  ASSUME NEW t, Good(t), NEW c \in Clients
  PROVE  Leads(t, readable(t, c))
<1> DEFINE m == Head(t.toServer[c])
           u == [t EXCEPT !.toServer[c] = Tail(@)]
<1>1. /\ DOMAIN u = Fields /\ u.pfds = t.pfds /\ u.online = t.online /\ u.hung = t.hung
  BY DEF Good, Fields
<1>2. t.hung \subseteq Clients
  BY DEF Good
<1> HIDE DEF u, m
<1>3. Good(u)
  BY <1>1, <1>2, GoodByFields
<1>4. Leads(t, remove_player_from_server(t, c))
  BY RemovalLeads
<1>5. /\ Leads(u, remove_player_from_server(u, c))
      /\ Leads(u, manage_drawing_player(u, c, m))
      /\ Leads(u, manage_guessing_player(u, c))
  BY <1>3, RemovalLeads, DrawingLeads, GuessingLeads, Zenon
<1>6. /\ Leads(t, remove_player_from_server(u, c))
      /\ Leads(t, manage_drawing_player(u, c, m))
      /\ Leads(t, manage_guessing_player(u, c))
  BY <1>1, <1>5 DEF Leads
<1>7. Leads(t, manage_player_action(t, c))
  BY <1>4, <1>6, Zenon DEF manage_player_action, u, m
<1> QED BY <1>4, <1>7, Zenon DEF readable

\* The listener branch takes in its client, who may be lost again at once.
LEMMA JoinIsGood ==
  ASSUME NEW t, Good(t), NEW c \in Clients, c \notin t.online, NEW u \in join(t, c)
  PROVE  Good(u) /\ u.online \subseteq t.online \cup {c}
<1> DEFINE polled == [t EXCEPT !.online = @ \cup {c}, !.pfds = add_to_pfds(@, c)]
<1>1. Good(polled) /\ polled.online = t.online \cup {c}
  BY PolledIsGood, Zenon
<1>2. PICK v \in broadcast(polled, c) :
        u \in IF v.in_progress THEN send_game_in_progress(v, c) ELSE validate_round(v)
  BY Zenon DEF join
<1> HIDE DEF polled
<1>3. Good(v) /\ v.online \subseteq t.online \cup {c}
  BY <1>1, BroadcastLeads DEF Leads
<1>4. CASE v.in_progress
  <2>1. u = Send(v, {c}, InProgress(IF c = v.drawer THEN "draw" ELSE "guess", v.canvas))
    BY <1>2, <1>4 DEF send_game_in_progress
  <2> QED BY <1>3, <2>1, SendIsGood
<1>5. CASE ~v.in_progress
  BY <1>2, <1>3, <1>5, ValidateLeads DEF Leads
<1> QED BY <1>4, <1>5

-----------------------------------------------------------------------------
(* The invariant: the session is good, and a client that waits to be accepted is *)
(* not online and waits once, so that accepting it adds a new descriptor.        *)

BacklogIsApart(online, waiting) ==
  /\ waiting \in Seq(Clients)
  /\ \A k \in 1..Len(waiting) : waiting[k] \notin online
  /\ \A j, k \in 1..Len(waiting) : waiting[j] = waiting[k] => j = k

IInv ==
  /\ Good(s)
  /\ BacklogIsApart(s.online, backlog)
  /\ i \in Nat \ {0}
  /\ beats \subseteq Clients
  /\ asked \in Clients \cup {None}

LEMMA FewerOnline ==
  ASSUME NEW online, NEW waiting, BacklogIsApart(online, waiting),
         NEW fewer, fewer \subseteq online
  PROVE  BacklogIsApart(fewer, waiting)
BY DEF BacklogIsApart

\* accept takes the first of the backlog.
LEMMA AcceptedLeaves ==
  ASSUME NEW online, NEW waiting, BacklogIsApart(online, waiting), waiting # <<>>
  PROVE  /\ Head(waiting) \in Clients /\ Head(waiting) \notin online
         /\ BacklogIsApart(online \cup {Head(waiting)}, Tail(waiting))
<1>1. /\ waiting \in Seq(Clients) /\ Len(waiting) > 0 /\ Head(waiting) = waiting[1]
      /\ Tail(waiting) \in Seq(Clients) /\ Len(Tail(waiting)) = Len(waiting) - 1
      /\ \A k \in 1..Len(Tail(waiting)) : Tail(waiting)[k] = waiting[k + 1]
  BY DEF BacklogIsApart
<1>2. waiting[1] \in Clients /\ waiting[1] \notin online
  BY <1>1 DEF BacklogIsApart
<1>3. ASSUME NEW k \in 1..Len(Tail(waiting))
      PROVE  Tail(waiting)[k] \notin online \cup {waiting[1]}
  BY <1>1 DEF BacklogIsApart
<1>4. ASSUME NEW j \in 1..Len(Tail(waiting)), NEW k \in 1..Len(Tail(waiting)),
             Tail(waiting)[j] = Tail(waiting)[k]
      PROVE  j = k
  BY <1>1, <1>4 DEF BacklogIsApart
<1> QED BY <1>1, <1>2, <1>3, <1>4 DEF BacklogIsApart

\* A client that dials is behind the others.
LEMMA DialedWaits ==
  ASSUME NEW online, NEW waiting, BacklogIsApart(online, waiting),
         NEW c \in Clients, c \notin online, c \notin ToSet(waiting)
  PROVE  BacklogIsApart(online, Append(waiting, c))
BY DEF BacklogIsApart, ToSet

LEMMA StepByLeads ==
  ASSUME IInv, NEW t, Good(t), t.online \subseteq s.online, s' = t, backlog' = backlog
  PROVE  Good(s') /\ BacklogIsApart(s'.online, backlog')
BY FewerOnline DEF IInv

LEMMA InitIsGood == Init => IInv
<1> SUFFICES ASSUME Init PROVE IInv
  OBVIOUS
<1> DEFINE empty == new_pfds(PFDS_INIT_SIZE)
           Fds == Clients \cup {Listener}
<1>1. IsPollSet(empty, Fds) /\ Len(empty.slots) > 0
  <2>1. PFDS_INIT_SIZE \in Nat \ {0}
    BY SessionAssumption
  <2> DEFINE slots == [k \in 1..PFDS_INIT_SIZE |-> FreeSlot]
  <2>2. slots \in Seq(Slots(Fds)) /\ Len(slots) = PFDS_INIT_SIZE
    BY <2>1 DEF Slots, FreeSlot, Revents
  <2>3. empty = [slots |-> slots, fd_count |-> 0]
    BY DEF new_pfds
  <2> HIDE DEF slots, empty, Fds
  <2>4. 0 \in 0..Len(slots)
    BY <2>1, <2>2
  <2>5. IsPollSet([slots |-> slots, fd_count |-> 0], Fds)
    BY <2>2, <2>4, PollSetByParts
  <2> QED BY <2>1, <2>2, <2>3, <2>5
<1>2. IsExactly(empty, {})
  BY DEF IsExactly, Polled, new_pfds
<1>3. Listener \in Fds
  OBVIOUS
<1> HIDE DEF empty, Fds
<1>4. /\ IsPollSet(add_to_pfds(empty, Listener), Fds)
      /\ IsExactly(add_to_pfds(empty, Listener), {} \cup {Listener})
      /\ Len(add_to_pfds(empty, Listener).slots) > 0
  <2>1. Listener \notin {}
    OBVIOUS
  <2> QED BY <1>1, <1>2, <1>3, <2>1, AddIsExact, Zenon
<1>5. /\ DOMAIN s = Fields /\ s.online = {} /\ s.hung = {}
      /\ s.pfds = add_to_pfds(empty, Listener)
  BY DEF Init, Fields, empty
<1>6. Good(s)
  BY <1>4, <1>5 DEF Good, Fds
<1> QED BY <1>6 DEF Init, IInv, BacklogIsApart

LEMMA StepIsGood == IInv /\ [Next]_vars => IInv'
<1> SUFFICES ASSUME IInv, [Next]_vars PROVE IInv'
  OBVIOUS
<1>1. /\ Good(s) /\ BacklogIsApart(s.online, backlog) /\ i \in Nat \ {0}
      /\ beats \subseteq Clients /\ asked \in Clients \cup {None}
  BY DEF IInv
<1>2. s.hung \subseteq Clients /\ s.online \subseteq Clients /\ DOMAIN s = Fields
  BY <1>1 DEF Good
\* Steps that leave the poll set, the players online and the backlog alone.
<1>3. ASSUME DOMAIN s' = Fields, s'.pfds = s.pfds, s'.online = s.online,
             s'.hung \subseteq Clients, backlog' = backlog
      PROVE  Good(s') /\ BacklogIsApart(s'.online, backlog')
  BY <1>1, <1>3, GoodByFields
\* Handlers.
<1>4. ASSUME NEW U, Leads(s, U), s' \in U, backlog' = backlog
      PROVE  Good(s') /\ BacklogIsApart(s'.online, backlog')
  BY <1>1, <1>4, FewerOnline DEF Leads
<1>5. CASE Poll
  <2>1. /\ DOMAIN s' = Fields /\ s'.pfds = poll(s.pfds, ReadableFds)
        /\ s'.online = s.online /\ s'.hung = s.hung
    BY <1>2, <1>5 DEF Poll, Fields
  <2>2. /\ IsPollSet(poll(s.pfds, ReadableFds), Clients \cup {Listener})
        /\ IsExactly(poll(s.pfds, ReadableFds), s.online \cup {Listener})
        /\ Len(poll(s.pfds, ReadableFds).slots) = Len(s.pfds.slots)
    BY <1>1, PollIsExact, Zenon DEF Good
  <2>3. Len(s.pfds.slots) > 0
    BY <1>1 DEF Good
  <2>4. Good(s')
    BY <1>2, <2>1, <2>2, <2>3 DEF Good
  <2> QED BY <1>1, <1>5, <2>1, <2>4 DEF Poll, IInv
<1>6. CASE SkipRound
  BY <1>1, <1>6 DEF SkipRound, IInv
<1>7. CASE EndRound
  <2>1. /\ DOMAIN s' = Fields /\ s'.pfds = s.pfds
        /\ s'.online = s.online /\ s'.hung = s.hung
    BY <1>2, <1>7 DEF EndRound, Fields
  <2>2. Good(s') /\ BacklogIsApart(s'.online, backlog')
    BY <1>2, <1>3, <1>7, <2>1 DEF EndRound
  <2> QED BY <1>1, <1>2, <1>7, <2>2 DEF EndRound, IInv
<1>8. ASSUME NEW c \in Clients, Beat(c) PROVE IInv'
  <2>1. CASE s' = [Send(s, {c}, HeartBeat) EXCEPT
                     !.crossed = IF s.toServer[c] = <<>> THEN @ ELSE @ \cup {c}]
    <3>1. Good(Send(s, {c}, HeartBeat)) /\ Send(s, {c}, HeartBeat).online = s.online
      BY <1>1, SendIsGood, Zenon
    <3> DEFINE u == Send(s, {c}, HeartBeat)
    <3> HIDE DEF u
    <3>2. /\ DOMAIN s' = Fields /\ s'.pfds = u.pfds /\ s'.online = u.online /\ s'.hung = u.hung
      <4>1. DOMAIN u = Fields
        BY <3>1 DEF Good, u
      <4> QED BY <2>1, <4>1 DEF u, Fields
    <3>3. u.hung \subseteq Clients
      BY <3>1 DEF Good, u
    <3>4. Good(s')
      BY <3>1, <3>2, <3>3, GoodByFields DEF u
    <3> QED BY <1>1, <1>8, <3>1, <3>2, <3>4 DEF Beat, IInv, u
  <2>2. CASE s' \in remove_player_from_server(s, c)
    BY <1>1, <1>4, <1>8, <2>2, RemovalLeads DEF Beat, IInv
  <2>3. CASE UNCHANGED s
    BY <1>1, <1>8, <2>3 DEF Beat, IInv
  <2> QED BY <1>8, <2>1, <2>2, <2>3, Zenon DEF Beat
<1>9. CASE Answer
  <2>1. asked \in Clients
    BY <1>1, <1>9 DEF Answer
  <2>2. CASE s' = [s EXCEPT !.toServer[asked] = Tail(@)]
    <3>1. /\ DOMAIN s' = Fields /\ s'.pfds = s.pfds
          /\ s'.online = s.online /\ s'.hung = s.hung
      BY <1>2, <2>2 DEF Fields
    <3>2. Good(s') /\ BacklogIsApart(s'.online, backlog')
      BY <1>2, <1>3, <1>9, <3>1 DEF Answer
    <3> QED BY <1>1, <1>9, <3>2 DEF Answer, IInv
  <2>3. CASE s' \in remove_player_from_server(s, asked)
    BY <1>1, <1>4, <1>9, <2>1, <2>3, RemovalLeads DEF Answer, IInv
  <2> QED BY <1>9, <2>2, <2>3, Zenon DEF Answer
<1>10. CASE FinishRound
  BY <1>1, <1>4, <1>10, FinishLeads DEF FinishRound, IInv
<1>11. CASE SkipEntry
  BY <1>1, <1>11 DEF SkipEntry, IInv
<1>12. CASE Accept
  <2>1. /\ backlog # <<>> /\ backlog' = Tail(backlog)
        /\ s' \in join(s, Head(backlog)) \cup {s}
    BY <1>12 DEF Accept
  <2>2. /\ Head(backlog) \in Clients /\ Head(backlog) \notin s.online
        /\ BacklogIsApart(s.online \cup {Head(backlog)}, Tail(backlog))
    BY <1>1, <2>1, AcceptedLeaves
  <2>3. Good(s') /\ s'.online \subseteq s.online \cup {Head(backlog)}
    BY <1>1, <2>1, <2>2, JoinIsGood
  <2>4. BacklogIsApart(s'.online, backlog')
    BY <2>1, <2>2, <2>3, FewerOnline
  <2> QED BY <1>1, <1>12, <2>3, <2>4 DEF Accept, IInv
<1>13. CASE Receive
  <2>1. /\ i \in 1..s.pfds.fd_count /\ s.pfds.slots[i].fd # Listener
        /\ s' \in readable(s, s.pfds.slots[i].fd)
    BY <1>1, <1>13 DEF Receive, Walking, Entry, Good, IsPollSet
  <2>2. s.pfds.slots[i].fd \in Clients
    <3>1. s.pfds.slots[i].fd \in s.online \cup {Listener}
      BY <1>1, <2>1, ExactlyInParts DEF Good
    <3> QED BY <1>2, <2>1, <3>1
  <2>3. Leads(s, readable(s, s.pfds.slots[i].fd))
    BY <1>1, <2>2, ReadableLeads
  <2> QED BY <1>1, <1>4, <1>13, <2>1, <2>3 DEF Receive, IInv
<1>14. CASE EndWalk
  BY <1>1, <1>14 DEF EndWalk, IInv
<1>15. CASE Tick
  <2>1. /\ DOMAIN s' = Fields /\ s'.pfds = s.pfds
        /\ s'.online = s.online /\ s'.hung = s.hung
    BY <1>2, <1>15 DEF Tick, Fields
  <2>2. Good(s') /\ BacklogIsApart(s'.online, backlog')
    BY <1>2, <1>3, <1>15, <2>1 DEF Tick
  <2> QED BY <1>1, <1>15, <2>2 DEF Tick, IInv
<1>16. ASSUME NEW c \in Clients, Dial(c) PROVE IInv'
  BY <1>1, <1>16, DialedWaits DEF Dial, IInv
<1>17. ASSUME NEW c \in Clients, HangUp(c) PROVE IInv'
  <2>1. /\ DOMAIN s' = Fields /\ s'.pfds = s.pfds
        /\ s'.online = s.online /\ s'.hung = s.hung \cup {c}
    BY <1>2, <1>17 DEF HangUp, Fields
  <2>2. Good(s') /\ BacklogIsApart(s'.online, backlog')
    BY <1>2, <1>3, <1>17, <2>1 DEF HangUp
  <2> QED BY <1>1, <1>17, <2>2 DEF HangUp, IInv
<1>18. ASSUME NEW c \in Clients, Read(c) PROVE IInv'
  <2>1. /\ DOMAIN s' = Fields /\ s'.pfds = s.pfds
        /\ s'.online = s.online /\ s'.hung = s.hung
    BY <1>2, <1>18 DEF Read, Fields
  <2>2. Good(s') /\ BacklogIsApart(s'.online, backlog')
    BY <1>2, <1>3, <1>18, <2>1 DEF Read
  <2> QED BY <1>1, <1>18, <2>2 DEF Read, IInv
<1>19. ASSUME NEW c \in Clients, Play(c) PROVE IInv'
  <2>1. /\ DOMAIN s' = Fields /\ s'.pfds = s.pfds
        /\ s'.online = s.online /\ s'.hung = s.hung
    BY <1>2, <1>19 DEF Play, Fields
  <2>2. Good(s') /\ BacklogIsApart(s'.online, backlog')
    BY <1>2, <1>3, <1>19, <2>1 DEF Play
  <2> QED BY <1>1, <1>19, <2>2 DEF Play, IInv
<1>20. CASE UNCHANGED vars
  BY <1>1, <1>20 DEF vars, IInv
<1> QED BY <1>5, <1>6, <1>7, <1>8, <1>9, <1>10, <1>11, <1>12, <1>13, <1>14, <1>15,
           <1>16, <1>17, <1>18, <1>19, <1>20, Zenon DEF Next, Server

\* Through every step of the server and its clients the array of descriptors holds the
\* listener and the players online, each once, however the entries are added, deleted
\* and moved: for every number of clients, slots and messages.
THEOREM PollSetStaysExact == Spec => []PollSetIsExact
<1>1. IInv => PollSetIsExact
  BY DEF IInv, Good, PollSetIsExact
<1> QED BY <1>1, InitIsGood, StepIsGood, PTL DEF Spec

-----------------------------------------------------------------------------
(* Messages in flight *)

IsSeq(q) == \E S : q \in Seq(S)

LEMMA AppendedSeq ==
  ASSUME NEW q, IsSeq(q), NEW m
  PROVE  /\ IsSeq(Append(q, m)) /\ Len(q) \in Nat /\ Len(Append(q, m)) = Len(q) + 1
         /\ \A k \in 1..Len(q) : Append(q, m)[k] = q[k]
         /\ Append(q, m)[Len(q) + 1] = m
<1>1. PICK S : q \in Seq(S)
  BY DEF IsSeq
<1>2. q \in Seq(S \cup {m}) /\ m \in S \cup {m}
  BY <1>1
<1>3. Append(q, m) \in Seq(S \cup {m})
  BY <1>2
<1>4. IsSeq(Append(q, m))
  BY <1>3 DEF IsSeq
<1> QED BY <1>2, <1>4

LEMMA TailedSeq ==
  ASSUME NEW q, IsSeq(q), q # <<>>
  PROVE  /\ IsSeq(Tail(q)) /\ Len(q) \in Nat \ {0} /\ Len(Tail(q)) = Len(q) - 1
         /\ \A k \in 1..Len(Tail(q)) : k + 1 \in 1..Len(q) /\ Tail(q)[k] = q[k + 1]
         /\ Head(q) = q[1]
<1>1. PICK S : q \in Seq(S)
  BY DEF IsSeq
<1>2. Tail(q) \in Seq(S)
  BY <1>1
<1>3. IsSeq(Tail(q))
  BY <1>2 DEF IsSeq
<1> QED BY <1>1, <1>3

LEMMA NothingIsSeq ==
  ASSUME NEW q, q = <<>>
  PROVE  IsSeq(q) /\ Len(q) = 0
<1>1. q \in Seq({}) /\ Len(q) = 0
  OBVIOUS
<1>2. IsSeq(q)
  BY <1>1 DEF IsSeq
<1> QED BY <1>1, <1>2

\* r is q, and more behind it, of which nothing is a HEART_BEAT.
Extends(q, r) ==
  /\ Len(r) >= Len(q)
  /\ \A k \in 1..Len(q) : r[k] = q[k]
  /\ \A k \in 1..Len(r) : k > Len(q) => r[k] # HeartBeat

LEMMA ExtendsItself ==
  ASSUME NEW q, IsSeq(q)
  PROVE  Extends(q, q)
<1>1. Len(q) \in Nat
  BY AppendedSeq
<1> QED BY <1>1 DEF Extends

LEMMA ExtendsOn ==
  ASSUME NEW q, NEW r, NEW w, IsSeq(q), IsSeq(r), IsSeq(w), Extends(q, r), Extends(r, w)
  PROVE  Extends(q, w)
<1>1. Len(q) \in Nat /\ Len(r) \in Nat /\ Len(w) \in Nat
  BY AppendedSeq
<1>2. ASSUME NEW k \in 1..Len(q) PROVE w[k] = q[k]
  BY <1>1 DEF Extends
<1>3. ASSUME NEW k \in 1..Len(w), k > Len(q) PROVE w[k] # HeartBeat
  <2>1. CASE k > Len(r)
    BY <2>1 DEF Extends
  <2>2. CASE ~(k > Len(r))
    BY <1>1, <1>3, <2>2 DEF Extends
  <2> QED BY <2>1, <2>2
<1> QED BY <1>1, <1>2, <1>3 DEF Extends

LEMMA ExtendsByOne ==
  ASSUME NEW q, IsSeq(q), NEW m, m # HeartBeat
  PROVE  Extends(q, Append(q, m))
<1>1. /\ Len(q) \in Nat /\ Len(Append(q, m)) = Len(q) + 1
      /\ \A k \in 1..Len(q) : Append(q, m)[k] = q[k]
      /\ Append(q, m)[Len(q) + 1] = m
  BY AppendedSeq
<1>2. ASSUME NEW k \in 1..Len(Append(q, m)), k > Len(q) PROVE Append(q, m)[k] # HeartBeat
  <2>1. k = Len(q) + 1
    BY <1>1, <1>2
  <2> QED BY <1>1, <2>1
<1> QED BY <1>1, <1>2 DEF Extends

-----------------------------------------------------------------------------
(* Connections: nothing is in flight to or from a client that is not online, and *)
(* nothing to one that has hung up.                                              *)

View == {"role", "canvas"}

Plain(t) ==
  /\ t.hung \subseteq t.online
  /\ t.crossed \subseteq t.online
  /\ t.toServer \in [Clients -> Seq(ToServer)]
  /\ t.toClient = [c \in Clients |-> t.toClient[c]]
  /\ t.view = [c \in Clients |-> t.view[c]]
  /\ \A c \in Clients : IsSeq(t.toClient[c]) /\ DOMAIN t.view[c] = View
  /\ \A c \in Clients \ t.online :
       t.toServer[c] = <<>> /\ t.toClient[c] = <<>> /\ t.view[c] = Blank
  /\ \A c \in t.hung : t.toClient[c] = <<>> /\ t.view[c] = Blank

Sound(t) == Good(t) /\ CleanBeyond(t.pfds) /\ Plain(t)

\* What a handler that accepts nobody does to the connections: some are lost, those the
\* clients had closed and perhaps those of L, and the others may be sent something.
Frame(t, u, L) ==
  /\ u.online \subseteq t.online
  /\ t.online \ u.online \subseteq t.hung \cup L
  /\ u.hung = t.hung \cap u.online
  /\ u.crossed = t.crossed \cap u.online
  /\ \A c \in u.online :
       /\ u.toServer[c] = t.toServer[c]
       /\ u.view[c] = t.view[c]
       /\ Extends(t.toClient[c], u.toClient[c])
  /\ Moves(t.pfds, u.pfds)

SameRound(t, u) ==
  u.in_progress = t.in_progress /\ u.phase = t.phase /\ u.drawer = t.drawer

\* Connections are lost, and nothing else happens.
Loses(t, u, L) ==
  /\ Frame(t, u, L)
  /\ SameRound(t, u)
  /\ \A c \in u.online : u.toClient[c] = t.toClient[c]

LEMMA Entries ==
  ASSUME NEW t, Good(t)
  PROVE  t.pfds.fd_count \in Nat
BY DEF Good, IsPollSet

LEMMA InFlight ==
  ASSUME NEW t, Sound(t), NEW c \in Clients
  PROVE  IsSeq(t.toServer[c]) /\ IsSeq(t.toClient[c])
<1>1. t.toServer[c] \in Seq(ToServer) /\ IsSeq(t.toClient[c])
  BY DEF Sound, Plain
<1> QED BY <1>1 DEF IsSeq

LEMMA OnlineAreClients ==
  ASSUME NEW t, Sound(t)
  PROVE  t.online \subseteq Clients /\ t.hung \subseteq t.online /\ t.hung \subseteq Clients
BY DEF Sound, Good, Plain

LEMMA FrameOn ==
  ASSUME NEW t, NEW u, NEW w, Sound(t), Sound(u), Sound(w),
         NEW L, NEW M, Frame(t, u, L), Frame(u, w, M)
  PROVE  Frame(t, w, L \cup M)
<1>1. /\ w.online \subseteq t.online
      /\ t.online \ w.online \subseteq t.hung \cup (L \cup M)
      /\ w.hung = t.hung \cap w.online
      /\ w.crossed = t.crossed \cap w.online
  BY DEF Frame
<1>2. Moves(t.pfds, w.pfds)
  <2>1. /\ t.pfds.fd_count \in Nat /\ u.pfds.fd_count \in Nat /\ w.pfds.fd_count \in Nat
        /\ Moves(t.pfds, u.pfds) /\ Moves(u.pfds, w.pfds)
    BY Entries DEF Sound, Frame
  <2> QED BY <2>1, MovesOn
<1>3. ASSUME NEW c \in w.online
      PROVE  /\ w.toServer[c] = t.toServer[c] /\ w.view[c] = t.view[c]
             /\ Extends(t.toClient[c], w.toClient[c])
  <2>1. c \in u.online /\ c \in Clients
    BY OnlineAreClients DEF Frame
  <2>2. /\ w.toServer[c] = u.toServer[c] /\ w.view[c] = u.view[c]
        /\ u.toServer[c] = t.toServer[c] /\ u.view[c] = t.view[c]
        /\ Extends(t.toClient[c], u.toClient[c]) /\ Extends(u.toClient[c], w.toClient[c])
    BY <2>1 DEF Frame
  <2>3. IsSeq(t.toClient[c]) /\ IsSeq(u.toClient[c]) /\ IsSeq(w.toClient[c])
    BY <2>1, InFlight
  <2> QED BY <2>2, <2>3, ExtendsOn
<1> QED BY <1>1, <1>2, <1>3 DEF Frame

LEMMA LosesOn ==
  ASSUME NEW t, NEW u, NEW w, Sound(t), Sound(u), Sound(w),
         NEW L, NEW M, Loses(t, u, L), Loses(u, w, M)
  PROVE  Loses(t, w, L \cup M)
<1>1. Frame(t, w, L \cup M)
  BY FrameOn DEF Loses
<1>2. SameRound(t, w)
  BY DEF Loses, SameRound
<1>3. \A c \in w.online : w.toClient[c] = t.toClient[c]
  BY DEF Loses, Frame
<1> QED BY <1>1, <1>2, <1>3 DEF Loses

LEMMA LosesItself ==
  ASSUME NEW t, Sound(t)
  PROVE  Loses(t, t, {})
<1>1. Moves(t.pfds, t.pfds)
  BY Entries, MovesNothing DEF Sound
<1>2. \A c \in t.online : Extends(t.toClient[c], t.toClient[c])
  BY InFlight, OnlineAreClients, ExtendsItself
<1>3. t.hung = t.hung \cap t.online /\ t.crossed = t.crossed \cap t.online
  BY DEF Sound, Plain
<1> QED BY <1>1, <1>2, <1>3 DEF Loses, Frame, SameRound

LEMMA LosesMore ==
  ASSUME NEW t, NEW u, NEW L, NEW M, L \subseteq t.hung \cup M, Loses(t, u, L)
  PROVE  Loses(t, u, M)
BY DEF Loses, Frame

LEMMA FrameMore ==
  ASSUME NEW t, NEW u, NEW L, NEW M, L \subseteq t.hung \cup M, Frame(t, u, L)
  PROVE  Frame(t, u, M)
BY DEF Frame

\* What Send does to the fields; players is who is sent the message.
LEMMA SendFields ==
  ASSUME NEW t, Sound(t), NEW C, C \subseteq t.online, NEW m
  PROVE  LET u == Send(t, C, m)
         IN  /\ DOMAIN u = Fields /\ u.pfds = t.pfds /\ u.online = t.online /\ u.hung = t.hung
             /\ u.crossed = t.crossed /\ u.toServer = t.toServer /\ u.view = t.view
             /\ SameRound(t, u)
             /\ u.toClient = [c \in Clients |-> IF c \in C \ t.hung THEN Append(t.toClient[c], m)
                                                ELSE t.toClient[c]]
BY DEF Send, Sound, Good, Fields, SameRound

LEMMA SendSound ==
  ASSUME NEW t, Sound(t), NEW C, C \subseteq t.online, NEW m
  PROVE  Sound(Send(t, C, m))
<1> DEFINE u == Send(t, C, m)
<1>1. /\ u.pfds = t.pfds /\ u.online = t.online /\ u.hung = t.hung
      /\ u.crossed = t.crossed /\ u.toServer = t.toServer /\ u.view = t.view
      /\ u.toClient = [c \in Clients |-> IF c \in C \ t.hung THEN Append(t.toClient[c], m)
                                         ELSE t.toClient[c]]
  BY SendFields
<1>2. Good(u)
  BY SendIsGood DEF Sound
<1> HIDE DEF u
<1>3. CleanBeyond(u.pfds)
  BY <1>1 DEF Sound
<1>4. \A c \in Clients : IsSeq(u.toClient[c])
  BY <1>1, InFlight, AppendedSeq
<1>5. /\ t.hung \subseteq t.online /\ t.crossed \subseteq t.online
      /\ t.toServer \in [Clients -> Seq(ToServer)]
      /\ t.view = [c \in Clients |-> t.view[c]]
      /\ \A c \in Clients : DOMAIN t.view[c] = View
      /\ \A c \in Clients \ t.online :
           t.toServer[c] = <<>> /\ t.toClient[c] = <<>> /\ t.view[c] = Blank
      /\ \A c \in t.hung : t.toClient[c] = <<>> /\ t.view[c] = Blank
      /\ t.hung \subseteq Clients
  BY OnlineAreClients DEF Sound, Plain
<1>6. \A c \in Clients \ t.online : u.toClient[c] = <<>>
  BY <1>1, <1>5
<1>7. \A c \in t.hung : u.toClient[c] = <<>>
  BY <1>1, <1>5
<1>8. u.toClient = [c \in Clients |-> u.toClient[c]]
  BY <1>1
<1>9. Plain(u)
  BY <1>1, <1>4, <1>5, <1>6, <1>7, <1>8 DEF Plain
<1> QED BY <1>2, <1>3, <1>9 DEF Sound, u

LEMMA SendFrame ==
  ASSUME NEW t, Sound(t), NEW C, C \subseteq t.online, NEW m, m # HeartBeat
  PROVE  Frame(t, Send(t, C, m), {}) /\ SameRound(t, Send(t, C, m))
<1> DEFINE u == Send(t, C, m)
<1>1. /\ u.pfds = t.pfds /\ u.online = t.online /\ u.hung = t.hung
      /\ u.crossed = t.crossed /\ u.toServer = t.toServer /\ u.view = t.view
      /\ SameRound(t, u)
      /\ u.toClient = [c \in Clients |-> IF c \in C \ t.hung THEN Append(t.toClient[c], m)
                                         ELSE t.toClient[c]]
  BY SendFields
<1> HIDE DEF u
<1>2. ASSUME NEW c \in u.online PROVE Extends(t.toClient[c], u.toClient[c])
  <2>1. c \in Clients
    BY <1>1, OnlineAreClients
  <2>2. IsSeq(t.toClient[c])
    BY <2>1, InFlight
  <2>3. CASE c \in C \ t.hung
    BY <1>1, <2>1, <2>2, <2>3, ExtendsByOne
  <2>4. CASE c \notin C \ t.hung
    BY <1>1, <2>1, <2>2, <2>4, ExtendsItself
  <2> QED BY <2>3, <2>4
<1>3. Moves(t.pfds, u.pfds)
  BY <1>1, Entries, MovesNothing DEF Sound
<1>4. u.hung = t.hung \cap u.online /\ u.crossed = t.crossed \cap u.online
  BY <1>1 DEF Sound, Plain
<1>5. Frame(t, u, {})
  BY <1>1, <1>2, <1>3, <1>4 DEF Frame
<1> QED BY <1>1, <1>5 DEF u

LEMMA DisconnectLoses ==
  ASSUME NEW t, Sound(t), NEW c \in Clients
  PROVE  Sound(disconnect(t, c)) /\ Loses(t, disconnect(t, c), {c})
<1> DEFINE u == disconnect(t, c)
<1>1. /\ u.pfds = del_from_pfds_by_fd(t.pfds, c)
      /\ u.online = t.online \ {c} /\ u.hung = t.hung \ {c} /\ u.crossed = t.crossed \ {c}
      /\ u.toServer = [t.toServer EXCEPT ![c] = <<>>]
      /\ u.toClient = [t.toClient EXCEPT ![c] = <<>>]
      /\ u.view = [t.view EXCEPT ![c] = Blank]
      /\ SameRound(t, u)
  BY DEF disconnect, Sound, Good, Fields, SameRound
<1>2. Good(u)
  BY DisconnectIsGood DEF Sound
<1> HIDE DEF u
<1>3. /\ t.hung \subseteq t.online /\ t.crossed \subseteq t.online
      /\ t.toServer \in [Clients -> Seq(ToServer)]
      /\ t.toClient = [d \in Clients |-> t.toClient[d]]
      /\ t.view = [d \in Clients |-> t.view[d]]
      /\ \A d \in Clients : IsSeq(t.toClient[d]) /\ DOMAIN t.view[d] = View
      /\ \A d \in Clients \ t.online :
           t.toServer[d] = <<>> /\ t.toClient[d] = <<>> /\ t.view[d] = Blank
      /\ \A d \in t.hung : t.toClient[d] = <<>> /\ t.view[d] = Blank
  BY DEF Sound, Plain
<1>4. t.online \subseteq Clients
  BY OnlineAreClients
<1>5. CleanBeyond(u.pfds) /\ Moves(t.pfds, u.pfds)
  <2>1. IsPollSet(t.pfds, Clients \cup {Listener}) /\ CleanBeyond(t.pfds)
    BY DEF Sound, Good
  <2> QED BY <1>1, <2>1, DeletionByFdMoves
<1>6. \A d \in Clients : /\ u.toServer[d] = IF d = c THEN <<>> ELSE t.toServer[d]
                         /\ u.toClient[d] = IF d = c THEN <<>> ELSE t.toClient[d]
                         /\ u.view[d] = IF d = c THEN Blank ELSE t.view[d]
  <2>1. \A d \in Clients : u.toServer[d] = IF d = c THEN <<>> ELSE t.toServer[d]
    BY <1>1, <1>3
  <2>2. \A d \in Clients : u.toClient[d] = IF d = c THEN <<>> ELSE t.toClient[d]
    <3>1. c \in DOMAIN t.toClient /\ DOMAIN t.toClient = Clients
      BY <1>3, Zenon
    <3> QED BY <1>1, <3>1
  <2>3. \A d \in Clients : u.view[d] = IF d = c THEN Blank ELSE t.view[d]
    <3>1. c \in DOMAIN t.view /\ DOMAIN t.view = Clients
      BY <1>3, Zenon
    <3> QED BY <1>1, <3>1
  <2> QED BY <2>1, <2>2, <2>3
<1>7. Plain(u)
  <2>1. u.toServer \in [Clients -> Seq(ToServer)]
    BY <1>1, <1>3
  <2>2. u.toClient = [d \in Clients |-> u.toClient[d]]
    BY <1>1, <1>3
  <2>3. u.view = [d \in Clients |-> u.view[d]]
    BY <1>1, <1>3
  <2>4. \A d \in Clients : IsSeq(u.toClient[d]) /\ DOMAIN u.view[d] = View
    BY <1>3, <1>6, NothingIsSeq DEF Blank, View
  <2>5. \A d \in Clients \ u.online :
          u.toServer[d] = <<>> /\ u.toClient[d] = <<>> /\ u.view[d] = Blank
    BY <1>1, <1>3, <1>6
  <2>6. \A d \in u.hung : u.toClient[d] = <<>> /\ u.view[d] = Blank
    BY <1>1, <1>3, <1>4, <1>6
  <2>7. u.hung \subseteq u.online /\ u.crossed \subseteq u.online
    BY <1>1, <1>3
  <2> QED BY <2>1, <2>2, <2>3, <2>4, <2>5, <2>6, <2>7 DEF Plain
<1>8. \A d \in u.online : /\ u.toServer[d] = t.toServer[d] /\ u.toClient[d] = t.toClient[d]
                          /\ u.view[d] = t.view[d]
  BY <1>1, <1>4, <1>6
<1>9. \A d \in u.online : Extends(t.toClient[d], u.toClient[d])
  BY <1>1, <1>3, <1>4, <1>8, ExtendsItself
<1>10. Loses(t, u, {c})
  <2>1. /\ u.online \subseteq t.online /\ t.online \ u.online \subseteq t.hung \cup {c}
        /\ u.hung = t.hung \cap u.online /\ u.crossed = t.crossed \cap u.online
    BY <1>1, <1>3
  <2>2. Frame(t, u, {c})
    BY <1>5, <1>8, <1>9, <2>1 DEF Frame
  <2> QED BY <1>1, <1>8, <2>2 DEF Loses
<1> QED BY <1>2, <1>5, <1>7, <1>10 DEF Sound, u

LEMMA BroadcastLoses ==
  ASSUME NEW t, Sound(t), NEW sender, NEW u \in broadcast(t, sender)
  PROVE  Sound(u) /\ Loses(t, u, {})
<1>1. ASSUME NEW v, Sound(v), NEW c \in v.hung
      PROVE  Sound(disconnect(v, c)) /\ Loses(v, disconnect(v, c), {})
  <2>1. c \in Clients
    BY <1>1, OnlineAreClients
  <2>2. Sound(disconnect(v, c)) /\ Loses(v, disconnect(v, c), {c})
    BY <1>1, <2>1, DisconnectLoses
  <2>3. {c} \subseteq v.hung \cup {}
    BY <1>1
  <2> QED BY <2>2, <2>3, LosesMore
<1>2. CASE u = t
  BY <1>2, LosesItself
<1>3. ASSUME NEW w \in FirstLoss(t, sender)
      PROVE  Sound(w) /\ Loses(t, w, {})
  <2>1. PICK c \in t.hung : w = disconnect(t, c)
    BY DEF FirstLoss
  <2> QED BY <1>1, <2>1
<1>4. ASSUME NEW w \in FirstLoss(t, sender), u \in SecondLoss(w)
      PROVE  Sound(u) /\ Loses(t, u, {})
  <2>1. PICK c \in w.hung : u = disconnect(w, c)
    BY <1>4 DEF SecondLoss
  <2>2. Sound(w) /\ Loses(t, w, {})
    BY <1>3
  <2>3. Sound(u) /\ Loses(w, u, {})
    BY <1>1, <2>1, <2>2
  <2>4. Loses(t, u, {} \cup {})
    BY <2>2, <2>3, LosesOn
  <2> QED BY <2>3, <2>4
<1> QED BY <1>2, <1>3, <1>4 DEF broadcast

LEMMA RemovalLoses ==
  ASSUME NEW t, Sound(t), NEW c \in Clients, NEW u \in remove_player_from_server(t, c)
  PROVE  Sound(u) /\ Loses(t, u, {c})
<1> DEFINE w == disconnect(t, c)
<1>1. Sound(w) /\ Loses(t, w, {c})
  BY DisconnectLoses
<1>2. u \in broadcast(w, None)
  BY DEF remove_player_from_server
<1> HIDE DEF w
<1>3. Sound(u) /\ Loses(w, u, {})
  BY <1>1, <1>2, BroadcastLoses
<1>4. Loses(t, u, {c} \cup {})
  BY <1>1, <1>3, LosesOn
<1> QED BY <1>3, <1>4

-----------------------------------------------------------------------------
(* Roles: what the messages on their way to a client, and what it shows, say of  *)
(* its role.                                                                     *)

SaysRole(m) == m.flag \in {"START", "GAME_IN_PROGRESS"}

\* After the last GAME_ENDS of q only r is said; without GAME_ENDS role is r, too, or idle.
Tells(q, role, r) ==
  /\ \A k \in 1..Len(q) :
       SaysRole(q[k]) /\ (\A l \in 1..Len(q) : l > k => q[l] # GameEnds)
       => q[k].role = r /\ r # "idle"
  /\ (\A k \in 1..Len(q) : q[k] # GameEnds) => role \in {"idle", r}

RoleOf(t, c) ==
  IF ~t.in_progress THEN "idle" ELSE IF c = t.drawer THEN "draw" ELSE "guess"

\* Every client that has not hung up is told the role the server has it in.
Told(t) ==
  \A c \in t.online \ t.hung : Tells(t.toClient[c], t.view[c].role, RoleOf(t, c))

LEMMA TellsNothing ==
  ASSUME NEW q, q = <<>>, NEW r
  PROVE  Tells(q, Blank.role, r)
BY NothingIsSeq DEF Tells, Blank

\* Another message, whose role is the right one, if it has one.
LEMMA TellsMore ==
  ASSUME NEW q, IsSeq(q), NEW role, NEW old, NEW r, Tells(q, role, old), old \in {"idle", r},
         NEW m, m # GameEnds, SaysRole(m) => m.role = r /\ r # "idle"
  PROVE  Tells(Append(q, m), role, r)
<1> DEFINE w == Append(q, m)
<1>1. /\ Len(q) \in Nat /\ Len(w) = Len(q) + 1
      /\ \A k \in 1..Len(q) : w[k] = q[k]
      /\ w[Len(q) + 1] = m
  BY AppendedSeq
<1> HIDE DEF w
<1>2. ASSUME NEW k \in 1..Len(w), SaysRole(w[k]),
             \A l \in 1..Len(w) : l > k => w[l] # GameEnds
      PROVE  w[k].role = r /\ r # "idle"
  <2>1. CASE k = Len(q) + 1
    BY <1>1, <1>2, <2>1
  <2>2. CASE k # Len(q) + 1
    <3>1. k \in 1..Len(q) /\ w[k] = q[k]
      BY <1>1, <2>2
    <3>2. \A l \in 1..Len(q) : l > k => q[l] # GameEnds
      BY <1>1, <1>2
    <3>3. q[k].role = old /\ old # "idle"
      BY <1>2, <3>1, <3>2 DEF Tells
    <3> QED BY <3>1, <3>3
  <2> QED BY <2>1, <2>2
<1>3. ASSUME \A k \in 1..Len(w) : w[k] # GameEnds
      PROVE  role \in {"idle", r}
  <2>1. \A k \in 1..Len(q) : q[k] # GameEnds
    BY <1>1, <1>3
  <2> QED BY <2>1 DEF Tells
<1>4. Tells(w, role, r)
  BY <1>2, <1>3 DEF Tells
<1> QED BY <1>4 DEF w

\* GAME_ENDS makes the client forget.
LEMMA TellsAfterEnd ==
  ASSUME NEW q, IsSeq(q), NEW role, NEW r
  PROVE  Tells(Append(q, GameEnds), role, r)
<1> DEFINE w == Append(q, GameEnds)
<1>1. /\ Len(q) \in Nat /\ Len(w) = Len(q) + 1
      /\ w[Len(q) + 1] = GameEnds
  BY AppendedSeq
<1> HIDE DEF w
<1>2. ASSUME NEW k \in 1..Len(w), SaysRole(w[k])
      PROVE  ~(\A l \in 1..Len(w) : l > k => w[l] # GameEnds)
  <2>1. k # Len(q) + 1
    BY <1>1, <1>2 DEF SaysRole, GameEnds
  <2> QED BY <1>1, <2>1
<1>3. ~(\A k \in 1..Len(w) : w[k] # GameEnds)
  BY <1>1
<1>4. Tells(w, role, r)
  BY <1>2, <1>3, Zenon DEF Tells
<1> QED BY <1>4 DEF w

\* A client reads on.
LEMMA TellsReader ==
  ASSUME NEW q, IsSeq(q), q # <<>>, NEW v, DOMAIN v = View, NEW r, Tells(q, v.role, r)
  PROVE  Tells(Tail(q), Show(v, Head(q)).role, r) /\ DOMAIN Show(v, Head(q)) = View
<1> DEFINE w == Tail(q)
           m == Head(q)
           new == Show(v, m)
<1>1. /\ Len(q) \in Nat \ {0} /\ Len(w) = Len(q) - 1
      /\ \A k \in 1..Len(w) : k + 1 \in 1..Len(q) /\ w[k] = q[k + 1]
      /\ m = q[1]
  BY TailedSeq
<1>2. /\ DOMAIN new = View
      /\ m.flag = "GAME_ENDS" => new.role = "idle"
      /\ SaysRole(m) => new.role = m.role
      /\ m.flag # "GAME_ENDS" /\ ~SaysRole(m) => new.role = v.role
  <2>1. CASE m.flag = "GAME_ENDS"
    BY <2>1 DEF Show, View, SaysRole, Blank
  <2>2. CASE m.flag = "START"
    BY <2>2 DEF Show, View, SaysRole
  <2>3. CASE m.flag = "GAME_IN_PROGRESS"
    BY <2>3 DEF Show, View, SaysRole
  <2>4. CASE m.flag = "CANVAS"
    <3>1. new = [v EXCEPT !.canvas = ToggleAll(@, m.diffs)]
      BY <2>4 DEF Show
    <3> QED BY <2>4, <3>1 DEF View, SaysRole
  <2>5. CASE m.flag \notin {"GAME_ENDS", "START", "GAME_IN_PROGRESS", "CANVAS"}
    <3>1. new = v
      BY <2>5 DEF Show
    <3> QED BY <2>5, <3>1 DEF SaysRole
  <2> QED BY <2>1, <2>2, <2>3, <2>4, <2>5
<1> HIDE DEF w, m, new
<1>3. ASSUME NEW k \in 1..Len(w), SaysRole(w[k]),
             \A l \in 1..Len(w) : l > k => w[l] # GameEnds
      PROVE  w[k].role = r /\ r # "idle"
  <2>1. k + 1 \in 1..Len(q) /\ w[k] = q[k + 1]
    BY <1>1
  <2>2. ASSUME NEW l \in 1..Len(q), l > k + 1 PROVE q[l] # GameEnds
    <3>1. l - 1 \in 1..Len(w) /\ l - 1 > k
      BY <1>1, <2>2
    <3>2. w[l - 1] = q[(l - 1) + 1] /\ (l - 1) + 1 = l
      BY <1>1, <3>1
    <3> QED BY <1>3, <3>1, <3>2
  <2> QED BY <1>3, <2>1, <2>2 DEF Tells
<1>4. ASSUME \A k \in 1..Len(w) : w[k] # GameEnds
      PROVE  new.role \in {"idle", r}
  <2>1. ASSUME NEW l \in 1..Len(q), l > 1 PROVE q[l] # GameEnds
    <3>1. l - 1 \in 1..Len(w)
      BY <1>1, <2>1
    <3>2. w[l - 1] = q[(l - 1) + 1] /\ (l - 1) + 1 = l
      BY <1>1, <3>1
    <3> QED BY <1>4, <3>1, <3>2
  <2>2. 1 \in 1..Len(q)
    BY <1>1
  <2>3. CASE m.flag = "GAME_ENDS"
    BY <1>2, <2>3
  <2>4. CASE SaysRole(m)
    <3>1. q[1].role = r
      BY <1>1, <2>1, <2>2, <2>4 DEF Tells
    <3> QED BY <1>1, <1>2, <2>4, <3>1
  <2>5. CASE m.flag # "GAME_ENDS" /\ ~SaysRole(m)
    <3>1. m # GameEnds
      BY <2>5 DEF GameEnds
    <3>2. \A l \in 1..Len(q) : q[l] # GameEnds
      BY <1>1, <2>1, <3>1
    <3>3. v.role \in {"idle", r}
      BY <3>2 DEF Tells
    <3> QED BY <1>2, <2>5, <3>3
  <2> QED BY <2>3, <2>4, <2>5
<1>5. Tells(w, new.role, r)
  BY <1>3, <1>4 DEF Tells
<1> QED BY <1>2, <1>5 DEF w, m, new

\* Losing connections tells nobody anything.
LEMMA LosesKeepsTold ==
  ASSUME NEW t, NEW u, NEW L, Loses(t, u, L), Told(t)
  PROVE  Told(u)
<1> SUFFICES ASSUME NEW c \in u.online \ u.hung
             PROVE  Tells(u.toClient[c], u.view[c].role, RoleOf(u, c))
  BY DEF Told
<1>1. /\ c \in t.online \ t.hung /\ u.toClient[c] = t.toClient[c] /\ u.view[c] = t.view[c]
      /\ RoleOf(u, c) = RoleOf(t, c)
  BY DEF Loses, Frame, SameRound, RoleOf
<1> QED BY <1>1 DEF Told

-----------------------------------------------------------------------------
(* Handlers *)

\* Another round, another canvas.
LEMMA FieldsFrame ==
  ASSUME NEW t, Sound(t), NEW u, DOMAIN u = Fields,
         u.pfds = t.pfds, u.online = t.online, u.hung = t.hung, u.crossed = t.crossed,
         u.toServer = t.toServer, u.toClient = t.toClient, u.view = t.view
  PROVE  Sound(u) /\ Frame(t, u, {})
<1>1. t.hung \subseteq Clients
  BY OnlineAreClients
<1>2. Good(u)
  BY <1>1, GoodByFields DEF Sound
<1>3. CleanBeyond(u.pfds)
  BY DEF Sound
<1>4. Plain(u)
  BY DEF Sound, Plain
<1>5. Frame(t, t, {})
  BY LosesItself DEF Loses
<1>6. Frame(t, u, {})
  BY <1>5 DEF Frame
<1> QED BY <1>2, <1>3, <1>4, <1>6 DEF Sound

LEMMA BroadcastBufferFrame ==
  ASSUME NEW t, Sound(t), NEW sender, NEW m, m # HeartBeat,
         NEW u \in broadcast_buffer(t, sender, m)
  PROVE  /\ Sound(u) /\ Frame(t, u, {}) /\ SameRound(t, u)
         /\ Told(Send(t, t.online \ {sender}, m)) => Told(u)
<1> DEFINE w == Send(t, t.online \ {sender}, m)
<1>1. Sound(w) /\ Frame(t, w, {}) /\ SameRound(t, w)
  <2>1. t.online \ {sender} \subseteq t.online
    OBVIOUS
  <2> QED BY <2>1, SendSound, SendFrame
<1>2. u \in broadcast(w, sender)
  BY DEF broadcast_buffer
<1> HIDE DEF w
<1>3. Sound(u) /\ Loses(w, u, {})
  BY <1>1, <1>2, BroadcastLoses
<1>4. Frame(t, u, {} \cup {})
  BY <1>1, <1>3, FrameOn DEF Loses
<1>5. SameRound(t, u)
  BY <1>1, <1>3 DEF Loses, SameRound
<1>6. Told(w) => Told(u)
  BY <1>3, LosesKeepsTold
<1> QED BY <1>3, <1>4, <1>5, <1>6 DEF w

\* From t to u, the players of C are sent m.
IsSent(t, C, m, u) ==
  /\ u.online \ u.hung = t.online \ t.hung
  /\ \A c \in t.online \ t.hung :
       /\ u.toClient[c] = IF c \in C THEN Append(t.toClient[c], m) ELSE t.toClient[c]
       /\ u.view[c] = t.view[c]
       /\ IsSeq(t.toClient[c])
  /\ SameRound(t, u)

LEMMA SendIsSent ==
  ASSUME NEW t, Sound(t), NEW C, C \subseteq t.online, NEW m
  PROVE  IsSent(t, C, m, Send(t, C, m))
<1> DEFINE u == Send(t, C, m)
<1>1. /\ u.online = t.online /\ u.hung = t.hung /\ u.view = t.view /\ SameRound(t, u)
      /\ u.toClient = [c \in Clients |-> IF c \in C \ t.hung THEN Append(t.toClient[c], m)
                                         ELSE t.toClient[c]]
  BY SendFields
<1> HIDE DEF u
<1>2. t.online \subseteq Clients
  BY OnlineAreClients
<1>3. ASSUME NEW c \in t.online \ t.hung
      PROVE  /\ u.toClient[c] = IF c \in C THEN Append(t.toClient[c], m) ELSE t.toClient[c]
             /\ IsSeq(t.toClient[c])
  BY <1>1, <1>2, <1>3, InFlight
<1> QED BY <1>1, <1>3 DEF u, IsSent

\* A message that says nothing of roles.
LEMMA PlainMessageTells ==
  ASSUME NEW t, Sound(t), Told(t), NEW C, C \subseteq t.online,
         NEW m, m # GameEnds, ~SaysRole(m)
  PROVE  Told(Send(t, C, m))
<1> DEFINE u == Send(t, C, m)
<1>0. IsSent(t, C, m, u)
  BY SendIsSent
<1> HIDE DEF u
<1>1. /\ u.online \ u.hung = t.online \ t.hung
      /\ \A c \in t.online \ t.hung :
           /\ u.toClient[c] = IF c \in C THEN Append(t.toClient[c], m) ELSE t.toClient[c]
           /\ u.view[c] = t.view[c]
           /\ IsSeq(t.toClient[c])
      /\ SameRound(t, u)
  BY <1>0 DEF IsSent
<1>2. ASSUME NEW c \in u.online \ u.hung
      PROVE  Tells(u.toClient[c], u.view[c].role, RoleOf(u, c))
  <2>1. RoleOf(u, c) = RoleOf(t, c)
    BY <1>1 DEF SameRound, RoleOf
  <2>2. Tells(t.toClient[c], t.view[c].role, RoleOf(t, c))
    BY <1>1 DEF Told
  <2>3. Tells(Append(t.toClient[c], m), t.view[c].role, RoleOf(t, c))
    BY <1>1, <2>2, TellsMore
  <2> QED BY <1>1, <2>1, <2>2, <2>3
<1> QED BY <1>2 DEF Told, u

\* The end of a round.
LEMMA EndTells ==
  ASSUME NEW t, Sound(t)
  PROVE  Told(Send(t, t.online, GameEnds))
<1> DEFINE u == Send(t, t.online, GameEnds)
<1>0. IsSent(t, t.online, GameEnds, u)
  BY SendIsSent
<1> HIDE DEF u
<1>1. /\ u.online \ u.hung = t.online \ t.hung
      /\ \A c \in t.online \ t.hung :
           u.toClient[c] = Append(t.toClient[c], GameEnds) /\ IsSeq(t.toClient[c])
  BY <1>0 DEF IsSent
<1>2. ASSUME NEW c \in u.online \ u.hung
      PROVE  Tells(u.toClient[c], u.view[c].role, RoleOf(u, c))
  <2>1. u.toClient[c] = Append(t.toClient[c], GameEnds) /\ IsSeq(t.toClient[c])
    BY <1>1
  <2>2. Tells(Append(t.toClient[c], GameEnds), u.view[c].role, RoleOf(u, c))
    BY <2>1, TellsAfterEnd
  <2> QED BY <2>1, <2>2
<1> QED BY <1>2 DEF Told, u

\* Nobody has a role, and everybody is sent one: d that it draws, if it can be told.
LEMMA StartTells ==
  ASSUME NEW t, Sound(t), Told(t), ~t.in_progress, NEW d,
         NEW u, u.online \ u.hung \subseteq t.online \ t.hung,
         u.in_progress, u.drawer = d,
         \A c \in u.online \ u.hung :
           /\ u.toClient[c] = Append(t.toClient[c], Start(IF c = d THEN "draw" ELSE "guess"))
           /\ u.view[c] = t.view[c]
  PROVE  Told(u)
<1> SUFFICES ASSUME NEW c \in u.online \ u.hung
             PROVE  Tells(u.toClient[c], u.view[c].role, RoleOf(u, c))
  BY DEF Told
<1> DEFINE r == IF c = d THEN "draw" ELSE "guess"
<1>1. Tells(t.toClient[c], t.view[c].role, "idle") /\ IsSeq(t.toClient[c])
  <2>1. c \in t.online \ t.hung /\ c \in Clients /\ RoleOf(t, c) = "idle"
    BY OnlineAreClients DEF RoleOf
  <2> QED BY <2>1, InFlight DEF Told
<1>2. RoleOf(u, c) = r /\ r # "idle"
  BY DEF RoleOf
<1>3. Start(r) # GameEnds /\ Start(r).role = r
  BY DEF Start, GameEnds
<1> HIDE DEF r
<1>4. Tells(Append(t.toClient[c], Start(r)), t.view[c].role, r)
  BY <1>1, <1>2, <1>3, TellsMore
<1> QED BY <1>2, <1>4 DEF r

\* The fields of the canvas, which are for the drawing player's messages only.
SameCanvas(t, u) == u.canvas = t.canvas /\ u.spoiled = t.spoiled

\* Neither does a broadcast change them ...
LEMMA BroadcastKeepsCanvas ==
  ASSUME NEW t, DOMAIN t = Fields, NEW sender, NEW u \in broadcast(t, sender)
  PROVE  SameCanvas(t, u)
<1>1. ASSUME NEW v, DOMAIN v = Fields, NEW c
      PROVE  DOMAIN disconnect(v, c) = Fields /\ SameCanvas(v, disconnect(v, c))
  BY <1>1 DEF disconnect, Fields, SameCanvas
<1>2. CASE u = t
  BY <1>2 DEF SameCanvas
<1>3. ASSUME NEW w \in FirstLoss(t, sender)
      PROVE  DOMAIN w = Fields /\ SameCanvas(t, w)
  BY <1>1 DEF FirstLoss
<1>4. ASSUME NEW w \in FirstLoss(t, sender), u \in SecondLoss(w)
      PROVE  SameCanvas(t, u)
  <2>1. PICK c : u = disconnect(w, c)
    BY <1>4 DEF SecondLoss
  <2>2. SameCanvas(t, w) /\ SameCanvas(w, u)
    BY <1>1, <1>3, <2>1
  <2> QED BY <2>2 DEF SameCanvas
<1> QED BY <1>2, <1>3, <1>4 DEF broadcast

\* ... nor a removal.
LEMMA RemovalKeepsCanvas ==
  ASSUME NEW t, DOMAIN t = Fields, NEW c, NEW u \in remove_player_from_server(t, c)
  PROVE  SameCanvas(t, u)
<1> DEFINE w == disconnect(t, c)
<1>1. DOMAIN w = Fields /\ SameCanvas(t, w)
  BY DEF disconnect, Fields, SameCanvas
<1>2. u \in broadcast(w, None)
  BY DEF remove_player_from_server
<1> HIDE DEF w
<1>3. SameCanvas(w, u)
  BY <1>1, <1>2, BroadcastKeepsCanvas
<1> QED BY <1>1, <1>3 DEF SameCanvas

\* A broadcast is a send to many, and then connections are lost.
LEMMA BroadcastBufferLoses ==
  ASSUME NEW t, Sound(t), NEW sender, NEW m, NEW u \in broadcast_buffer(t, sender, m),
         NEW w, w = Send(t, t.online \ {sender}, m)
  PROVE  /\ Sound(w) /\ IsSent(t, t.online \ {sender}, m, w) /\ w.toServer = t.toServer
         /\ w.crossed = t.crossed
         /\ Sound(u) /\ Loses(w, u, {}) /\ SameCanvas(t, w) /\ SameCanvas(t, u)
<1>1. t.online \ {sender} \subseteq t.online
  OBVIOUS
<1>2. Sound(w) /\ IsSent(t, t.online \ {sender}, m, w)
  BY <1>1, SendSound, SendIsSent
<1>3. DOMAIN w = Fields /\ w.toServer = t.toServer /\ w.crossed = t.crossed
  BY DEF Send, Sound, Good, Fields
<1>4. SameCanvas(t, w)
  BY DEF Send, SameCanvas, Sound, Good, Fields
<1>5. u \in broadcast(w, sender)
  BY DEF broadcast_buffer
<1>6. SameCanvas(w, u)
  BY <1>3, <1>5, BroadcastKeepsCanvas
<1>7. Sound(u) /\ Loses(w, u, {})
  BY <1>2, <1>5, BroadcastLoses
<1> QED BY <1>2, <1>3, <1>4, <1>6, <1>7 DEF SameCanvas

\* From t to u a round has started, in which d draws.
Started(t, u, d) ==
  /\ Frame(t, u, {})
  /\ u.in_progress = TRUE /\ u.phase = "countdown" /\ u.drawer = d
  /\ SameCanvas(t, u)
  /\ \A c \in u.online \ u.hung :
       /\ u.toClient[c] = Append(t.toClient[c], Start(IF c = d THEN "draw" ELSE "guess"))
       /\ u.view[c] = t.view[c]

\* A round starts.
LEMMA StartSends ==
  ASSUME NEW t, Sound(t), NEW u \in start_round(t)
  PROVE  Sound(u) /\ \E d \in t.online : Started(t, u, d)
<1>1. PICK d \in t.online :
        u \in LET drawn == [t EXCEPT !.in_progress = TRUE, !.phase = "countdown", !.drawer = d]
                  unsent == IF d \in t.hung THEN remove_player_from_server(drawn, d) ELSE {}
              IN  UNION {broadcast_buffer(w, d, Start("guess")) :
                           w \in {Send(drawn, {d}, Start("draw"))} \cup unsent}
  BY Zenon DEF start_round
<1> DEFINE drawn == [t EXCEPT !.in_progress = TRUE, !.phase = "countdown", !.drawer = d]
<1>2. /\ Sound(drawn) /\ Frame(t, drawn, {}) /\ SameCanvas(t, drawn) /\ DOMAIN drawn = Fields
      /\ drawn.in_progress = TRUE /\ drawn.phase = "countdown" /\ drawn.drawer = d
      /\ drawn.online = t.online /\ drawn.hung = t.hung
      /\ drawn.toClient = t.toClient /\ drawn.view = t.view
  <2>1. /\ DOMAIN drawn = Fields /\ drawn.pfds = t.pfds /\ drawn.online = t.online
        /\ drawn.hung = t.hung /\ drawn.crossed = t.crossed /\ drawn.toServer = t.toServer
        /\ drawn.toClient = t.toClient /\ drawn.view = t.view
        /\ drawn.in_progress = TRUE /\ drawn.phase = "countdown" /\ drawn.drawer = d
        /\ SameCanvas(t, drawn)
    BY DEF Sound, Good, Fields, SameCanvas
  <2> HIDE DEF drawn
  <2> QED BY <2>1, FieldsFrame
<1>3. PICK w \in {Send(drawn, {d}, Start("draw"))}
                  \cup (IF d \in t.hung THEN remove_player_from_server(drawn, d) ELSE {}) :
        u \in broadcast_buffer(w, d, Start("guess"))
  BY <1>1, Zenon
<1> HIDE DEF drawn
<1>4. Start("guess") # HeartBeat /\ Start("draw") # HeartBeat
  BY DEF Start, HeartBeat
<1>5. d \in Clients /\ {d} \subseteq drawn.online
  BY <1>2, OnlineAreClients
<1>6. ASSUME Sound(w), Frame(drawn, w, {}), SameRound(drawn, w), SameCanvas(drawn, w),
             \A c \in w.online \ w.hung :
               /\ w.toClient[c] = IF c = d THEN Append(t.toClient[c], Start("draw"))
                                  ELSE t.toClient[c]
               /\ w.view[c] = t.view[c]
      PROVE  Sound(u) /\ Started(t, u, d)
  <2> DEFINE v == Send(w, w.online \ {d}, Start("guess"))
  <2>1. Sound(u) /\ Frame(w, u, {}) /\ SameRound(w, u)
    BY <1>3, <1>4, <1>6, BroadcastBufferFrame
  <2>2. IsSent(w, w.online \ {d}, Start("guess"), v) /\ Loses(v, u, {}) /\ SameCanvas(w, u)
    BY <1>3, <1>6, BroadcastBufferLoses
  <2> HIDE DEF v
  <2>3. Frame(t, u, {})
    <3>1. Frame(t, w, {} \cup {})
      BY <1>2, <1>6, FrameOn
    <3>2. Frame(t, u, ({} \cup {}) \cup {})
      BY <1>6, <2>1, <3>1, FrameOn
    <3> QED BY <3>2
  <2>4. ASSUME NEW c \in u.online \ u.hung
        PROVE  /\ u.toClient[c] = Append(t.toClient[c], Start(IF c = d THEN "draw" ELSE "guess"))
               /\ u.view[c] = t.view[c]
    <3>1. c \in v.online \ v.hung /\ u.toClient[c] = v.toClient[c] /\ u.view[c] = v.view[c]
      BY <2>2 DEF Loses, Frame
    <3>2. /\ c \in w.online \ w.hung /\ v.view[c] = w.view[c]
          /\ v.toClient[c] = IF c \in w.online \ {d} THEN Append(w.toClient[c], Start("guess"))
                             ELSE w.toClient[c]
      BY <2>2, <3>1 DEF IsSent
    <3> QED BY <1>6, <3>1, <3>2
  <2>5. u.in_progress = TRUE /\ u.phase = "countdown" /\ u.drawer = d /\ SameCanvas(t, u)
    BY <1>2, <1>6, <2>1, <2>2 DEF SameRound, SameCanvas
  <2> QED BY <2>1, <2>3, <2>4, <2>5 DEF Started
<1>7. CASE w = Send(drawn, {d}, Start("draw"))
  <2>1. Sound(w) /\ Frame(drawn, w, {}) /\ SameRound(drawn, w)
    BY <1>2, <1>4, <1>5, <1>7, SendSound, SendFrame
  <2>2. /\ w.online \ w.hung = drawn.online \ drawn.hung
        /\ \A c \in drawn.online \ drawn.hung :
             /\ w.toClient[c] = IF c \in {d} THEN Append(drawn.toClient[c], Start("draw"))
                                ELSE drawn.toClient[c]
             /\ w.view[c] = drawn.view[c]
    <3>1. IsSent(drawn, {d}, Start("draw"), w)
      BY <1>2, <1>5, <1>7, SendIsSent
    <3> QED BY <3>1 DEF IsSent
  <2>3. SameCanvas(drawn, w)
    BY <1>2, <1>7 DEF Send, SameCanvas, Fields
  <2> QED BY <1>2, <1>6, <2>1, <2>2, <2>3
<1>8. CASE d \in t.hung /\ w \in remove_player_from_server(drawn, d)
  <2>1. Sound(w) /\ Loses(drawn, w, {d}) /\ SameCanvas(drawn, w)
    BY <1>2, <1>5, <1>8, RemovalLoses, RemovalKeepsCanvas
  <2>2. {d} \subseteq drawn.hung \cup {}
    BY <1>2, <1>8
  <2>3. Loses(drawn, w, {})
    BY <2>1, <2>2, LosesMore
  <2>4. ASSUME NEW c \in w.online \ w.hung
        PROVE  c # d /\ w.toClient[c] = t.toClient[c] /\ w.view[c] = t.view[c]
    BY <1>2, <1>8, <2>3 DEF Loses, Frame
  <2> QED BY <1>6, <2>1, <2>3, <2>4 DEF Loses
<1> QED BY <1>3, <1>7, <1>8

LEMMA StartFrame ==
  ASSUME NEW t, Sound(t), Told(t), ~t.in_progress, NEW u \in start_round(t)
  PROVE  Sound(u) /\ Frame(t, u, {}) /\ Told(u)
<1>1. Sound(u)
  BY StartSends
<1>2. PICK d \in t.online : Started(t, u, d)
  BY StartSends
<1>3. u.online \ u.hung \subseteq t.online \ t.hung
  BY <1>2 DEF Started, Frame
<1>4. Told(u)
  BY <1>2, <1>3, StartTells DEF Started
<1> QED BY <1>1, <1>2, <1>4 DEF Started

LEMMA FieldsKeepTold ==
  ASSUME NEW t, Told(t), NEW u, SameRound(t, u),
         u.online = t.online, u.hung = t.hung, u.toClient = t.toClient, u.view = t.view
  PROVE  Told(u)
BY DEF Told, SameRound, RoleOf

LEMMA ValidateFrame ==
  ASSUME NEW t, Sound(t), Told(t), ~t.in_progress, NEW u \in validate_round(t)
  PROVE  Sound(u) /\ Frame(t, u, {}) /\ Told(u)
<1>1. CASE u \in broadcast(t, None)
  <2>1. Sound(u) /\ Loses(t, u, {})
    BY <1>1, BroadcastLoses
  <2> QED BY <2>1, LosesKeepsTold DEF Loses
<1>2. CASE u \in start_round(t)
  BY <1>2, StartFrame
<1> QED BY <1>1, <1>2 DEF validate_round

LEMMA FinishFrame ==
  ASSUME NEW t, Sound(t), ~t.in_progress, NEW u \in finish_round(t)
  PROVE  Sound(u) /\ Frame(t, u, {}) /\ Told(u)
<1>1. PICK v \in broadcast_buffer(t, None, GameEnds) :
        u \in validate_round([v EXCEPT !.canvas = {}, !.spoiled = FALSE])
  BY Zenon DEF finish_round
<1> DEFINE w == [v EXCEPT !.canvas = {}, !.spoiled = FALSE]
<1>2. Sound(v) /\ Frame(t, v, {}) /\ SameRound(t, v) /\ Told(v)
  <2>1. GameEnds # HeartBeat
    BY DEF GameEnds, HeartBeat
  <2>2. t.online \ {None} = t.online
    BY OnlineAreClients, SessionAssumption
  <2>3. Told(Send(t, t.online, GameEnds))
    BY EndTells
  <2> QED BY <2>1, <2>2, <2>3, BroadcastBufferFrame
<1>3. Sound(w) /\ Frame(v, w, {}) /\ SameRound(v, w) /\ Told(w)
  <2>1. /\ DOMAIN w = Fields /\ w.pfds = v.pfds /\ w.online = v.online /\ w.hung = v.hung
        /\ w.crossed = v.crossed /\ w.toServer = v.toServer /\ w.toClient = v.toClient
        /\ w.view = v.view /\ SameRound(v, w)
    BY <1>2 DEF Sound, Good, Fields, SameRound
  <2> HIDE DEF w
  <2>2. Sound(w) /\ Frame(v, w, {})
    BY <1>2, <2>1, FieldsFrame
  <2>3. Told(w)
    BY <1>2, <2>1, FieldsKeepTold
  <2> QED BY <2>1, <2>2, <2>3
<1> HIDE DEF w
<1>4. Sound(u) /\ Frame(w, u, {}) /\ Told(u)
  <2>1. u \in validate_round(w) /\ ~w.in_progress
    BY <1>1, <1>2, <1>3 DEF w, SameRound
  <2> QED BY <1>3, <2>1, ValidateFrame
<1>5. Frame(t, w, {} \cup {})
  BY <1>2, <1>3, FrameOn
<1>6. Frame(t, u, ({} \cup {}) \cup {})
  BY <1>3, <1>4, <1>5, FrameOn
<1> QED BY <1>4, <1>6

\* The listener branch: c is in the array and in the game.
Polling(t, c) == [t EXCEPT !.online = @ \cup {c}, !.pfds = add_to_pfds(@, c)]

LEMMA PollingSound ==
  ASSUME NEW t, Sound(t), Told(t), NEW c \in Clients, c \notin t.online,
         NEW u, u = Polling(t, c)
  PROVE  /\ Sound(u) /\ Told(u) /\ SameRound(t, u)
         /\ u.online = t.online \cup {c} /\ u.hung = t.hung /\ u.crossed = t.crossed
         /\ u.toServer = t.toServer /\ u.toClient = t.toClient /\ u.view = t.view
         /\ Moves(t.pfds, u.pfds)
<1>1. /\ u.online = t.online \cup {c} /\ u.hung = t.hung /\ u.crossed = t.crossed
      /\ u.toServer = t.toServer /\ u.toClient = t.toClient /\ u.view = t.view
      /\ u.pfds = add_to_pfds(t.pfds, c) /\ SameRound(t, u)
  BY DEF Polling, Sound, Good, Fields, SameRound
<1>2. Good(u)
  BY PolledIsGood DEF Sound, Polling
<1>3. CleanBeyond(u.pfds) /\ Moves(t.pfds, u.pfds)
  <2>1. /\ IsPollSet(t.pfds, Clients \cup {Listener}) /\ CleanBeyond(t.pfds)
        /\ Len(t.pfds.slots) > 0
    BY DEF Sound, Good
  <2> QED BY <1>1, <2>1, AddMoves
<1>4. Plain(u)
  BY <1>1 DEF Sound, Plain
<1>5. Told(u)
  <2> SUFFICES ASSUME NEW d \in u.online \ u.hung
               PROVE  Tells(u.toClient[d], u.view[d].role, RoleOf(u, d))
    BY DEF Told
  <2>1. RoleOf(u, d) = RoleOf(t, d)
    BY <1>1 DEF SameRound, RoleOf
  <2>2. CASE d \in t.online
    BY <1>1, <2>1, <2>2 DEF Told
  <2>3. CASE d \notin t.online
    <3>1. u.toClient[d] = <<>> /\ u.view[d] = Blank
      BY <1>1, <2>3 DEF Sound, Plain
    <3> QED BY <3>1, TellsNothing
  <2> QED BY <2>2, <2>3
<1> QED BY <1>1, <1>2, <1>3, <1>4, <1>5 DEF Sound

\* The newcomer is told its role and nobody else anything.
LEMMA InProgressTells ==
  ASSUME NEW t, Sound(t), Told(t), t.in_progress, NEW c \in t.online, NEW canvas
  PROVE  Told(Send(t, {c}, InProgress(IF c = t.drawer THEN "draw" ELSE "guess", canvas)))
<1> DEFINE m == InProgress(IF c = t.drawer THEN "draw" ELSE "guess", canvas)
           u == Send(t, {c}, m)
<1>1. IsSent(t, {c}, m, u)
  BY SendIsSent
<1>2. m # GameEnds /\ m.role = RoleOf(t, c) /\ m.role # "idle"
  BY DEF InProgress, GameEnds, RoleOf
<1> HIDE DEF u, m
<1>3. ASSUME NEW d \in u.online \ u.hung
      PROVE  Tells(u.toClient[d], u.view[d].role, RoleOf(u, d))
  <2>1. /\ d \in t.online \ t.hung /\ RoleOf(u, d) = RoleOf(t, d)
        /\ u.toClient[d] = IF d = c THEN Append(t.toClient[d], m) ELSE t.toClient[d]
        /\ u.view[d] = t.view[d] /\ IsSeq(t.toClient[d])
    BY <1>1 DEF IsSent, SameRound, RoleOf
  <2>2. Tells(t.toClient[d], t.view[d].role, RoleOf(t, d))
    BY <2>1 DEF Told
  <2>3. CASE d = c
    <3>1. Tells(Append(t.toClient[d], m), t.view[d].role, RoleOf(t, d))
      BY <1>2, <2>1, <2>2, <2>3, TellsMore
    <3> QED BY <2>1, <2>3, <3>1
  <2>4. CASE d # c
    BY <2>1, <2>2, <2>4
  <2> QED BY <2>3, <2>4
<1> QED BY <1>3 DEF Told, u, m

LEMMA JoinFrame ==
  ASSUME NEW t, Sound(t), Told(t), NEW c \in Clients, c \notin t.online, NEW u \in join(t, c)
  PROVE  /\ Sound(u) /\ Told(u) /\ Frame(Polling(t, c), u, {})
         /\ t.in_progress => SameRound(t, u)
<1> DEFINE polled == Polling(t, c)
<1>1. PICK v \in broadcast(polled, c) :
        u \in IF v.in_progress THEN send_game_in_progress(v, c) ELSE validate_round(v)
  BY Zenon DEF join, Polling
<1>2. polled = Polling(t, c)
  OBVIOUS
<1> HIDE DEF polled
<1>3. /\ Sound(polled) /\ Told(polled) /\ SameRound(t, polled)
      /\ polled.online = t.online \cup {c} /\ polled.hung = t.hung
  BY <1>2, PollingSound
<1>4. Sound(v) /\ Loses(polled, v, {}) /\ Told(v)
  BY <1>1, <1>3, BroadcastLoses, LosesKeepsTold
<1>5. c \in v.online
  <2>1. c \notin polled.hung
    BY <1>3, OnlineAreClients
  <2> QED BY <1>3, <1>4, <2>1 DEF Loses, Frame
<1>6. CASE v.in_progress
  <2> DEFINE m == InProgress(IF c = v.drawer THEN "draw" ELSE "guess", v.canvas)
  <2>1. u = Send(v, {c}, m)
    BY <1>1, <1>6 DEF send_game_in_progress
  <2>2. Told(u)
    BY <1>4, <1>5, <1>6, <2>1, InProgressTells
  <2>3. m # HeartBeat
    BY DEF InProgress, HeartBeat
  <2>4. {c} \subseteq v.online
    BY <1>5
  <2> HIDE DEF m
  <2>5. Sound(u) /\ Frame(v, u, {}) /\ SameRound(v, u)
    BY <1>4, <2>1, <2>3, <2>4, SendSound, SendFrame
  <2>6. Frame(polled, u, {} \cup {})
    BY <1>3, <1>4, <2>5, FrameOn DEF Loses
  <2>7. SameRound(t, u)
    BY <1>3, <1>4, <2>5 DEF Loses, SameRound
  <2> QED BY <1>2, <2>2, <2>5, <2>6, <2>7
<1>7. CASE ~v.in_progress
  <2>1. Sound(u) /\ Frame(v, u, {}) /\ Told(u)
    BY <1>1, <1>4, <1>7, ValidateFrame
  <2>2. Frame(polled, u, {} \cup {})
    BY <1>3, <1>4, <2>1, FrameOn DEF Loses
  <2>3. ~t.in_progress
    BY <1>3, <1>4, <1>7 DEF Loses, SameRound
  <2> QED BY <1>2, <2>1, <2>2, <2>3
<1> QED BY <1>6, <1>7

\* The message of c is received.
Received(t, c) == [t EXCEPT !.toServer[c] = Tail(@)]

\* From t to u, that is all that happens.
IsReceived(t, c, u) ==
  /\ SameRound(t, u)
  /\ u.pfds = t.pfds /\ u.online = t.online /\ u.hung = t.hung /\ u.crossed = t.crossed
  /\ u.toClient = t.toClient /\ u.view = t.view
  /\ \A d \in Clients : u.toServer[d] = IF d = c THEN Tail(t.toServer[c]) ELSE t.toServer[d]

LEMMA ReceivedSound ==
  ASSUME NEW t, Sound(t), NEW c \in Clients, t.toServer[c] # <<>>,
         NEW u, u = Received(t, c)
  PROVE  Sound(u) /\ IsReceived(t, c, u)
<1>1. /\ DOMAIN u = Fields /\ SameRound(t, u)
      /\ u.pfds = t.pfds /\ u.online = t.online /\ u.hung = t.hung /\ u.crossed = t.crossed
      /\ u.toClient = t.toClient /\ u.view = t.view
      /\ u.toServer = [t.toServer EXCEPT ![c] = Tail(@)]
  BY DEF Received, Sound, Good, Fields, SameRound
<1>2. Good(u) /\ CleanBeyond(u.pfds)
  <2>1. t.hung \subseteq Clients
    BY OnlineAreClients
  <2> QED BY <1>1, <2>1, GoodByFields DEF Sound
<1>3. t.toServer \in [Clients -> Seq(ToServer)]
  BY DEF Sound, Plain
<1>4. Tail(t.toServer[c]) \in Seq(ToServer)
  <2>1. t.toServer[c] \in Seq(ToServer)
    BY <1>3
  <2> QED BY <2>1
<1>5. /\ u.toServer \in [Clients -> Seq(ToServer)]
      /\ \A d \in Clients : u.toServer[d] = IF d = c THEN Tail(t.toServer[c]) ELSE t.toServer[d]
  BY <1>1, <1>3, <1>4
<1>6. c \in t.online
  BY DEF Sound, Plain
<1>7. \A d \in Clients \ u.online : u.toServer[d] = <<>>
  BY <1>1, <1>5, <1>6 DEF Sound, Plain
<1>8. Plain(u)
  <2>1. Plain(t)
    BY DEF Sound
  <2>2. \A d \in Clients \ u.online : u.toClient[d] = <<>> /\ u.view[d] = Blank
    BY <1>1, <2>1 DEF Plain
  <2> QED BY <1>1, <1>5, <1>7, <2>1, <2>2 DEF Plain
<1> QED BY <1>1, <1>2, <1>5, <1>8 DEF Sound, IsReceived

\* The first message of c is what its role lets it send, and is not rejected.
Regular(t, c) ==
  /\ t.in_progress
  /\ t.phase # "countdown"
  /\ t.toServer[c] # <<>>
  /\ Head(t.toServer[c]).flag = (IF c = t.drawer THEN "CANVAS" ELSE "CHAT")
  /\ c = t.drawer => Accepted(Head(t.toServer[c]).diffs) = Head(t.toServer[c]).diffs

LEMMA DrawingFrame ==
  ASSUME NEW t, Sound(t), Told(t), NEW c \in Clients, NEW m, m.flag = "CANVAS",
         NEW u \in manage_drawing_player(t, c, m)
  PROVE  /\ Sound(u) /\ Told(u) /\ SameRound(t, u)
         /\ Frame(t, u, IF Accepted(m.diffs) = m.diffs THEN {} ELSE {c})
<1> DEFINE drawn == [t EXCEPT !.canvas = ToggleAll(@, Accepted(m.diffs))]
           spoiled == [drawn EXCEPT !.spoiled = @ \/ Accepted(m.diffs) # <<>>]
<1>1. /\ DOMAIN drawn = Fields /\ drawn.pfds = t.pfds /\ drawn.online = t.online
      /\ drawn.hung = t.hung /\ drawn.crossed = t.crossed /\ drawn.toServer = t.toServer
      /\ drawn.toClient = t.toClient /\ drawn.view = t.view /\ SameRound(t, drawn)
  BY DEF Sound, Good, Fields, SameRound
<1>2. u \in IF Accepted(m.diffs) = m.diffs THEN broadcast_buffer(drawn, c, m)
            ELSE remove_player_from_server(spoiled, c)
  BY Zenon DEF manage_drawing_player
<1> HIDE DEF drawn
<1>3. Sound(drawn) /\ Frame(t, drawn, {}) /\ Told(drawn)
  BY <1>1, FieldsFrame, FieldsKeepTold
<1>4. CASE Accepted(m.diffs) = m.diffs
  <2>1. m # HeartBeat /\ m # GameEnds /\ ~SaysRole(m)
    BY DEF HeartBeat, GameEnds, SaysRole
  <2>2. drawn.online \ {c} \subseteq drawn.online
    OBVIOUS
  <2>3. Told(Send(drawn, drawn.online \ {c}, m))
    BY <1>3, <2>1, <2>2, PlainMessageTells
  <2>4. Sound(u) /\ Frame(drawn, u, {}) /\ SameRound(drawn, u) /\ Told(u)
    BY <1>2, <1>3, <1>4, <2>1, <2>3, BroadcastBufferFrame
  <2>5. Frame(t, u, {} \cup {})
    BY <1>3, <2>4, FrameOn
  <2>6. SameRound(t, u)
    BY <1>1, <2>4 DEF SameRound
  <2> QED BY <1>4, <2>4, <2>5, <2>6
<1>5. CASE Accepted(m.diffs) # m.diffs
  <2>1. /\ DOMAIN spoiled = Fields /\ spoiled.pfds = drawn.pfds /\ spoiled.online = drawn.online
        /\ spoiled.hung = drawn.hung /\ spoiled.crossed = drawn.crossed
        /\ spoiled.toServer = drawn.toServer
        /\ spoiled.toClient = drawn.toClient /\ spoiled.view = drawn.view
        /\ SameRound(drawn, spoiled)
    BY <1>1 DEF Fields, SameRound
  <2> HIDE DEF spoiled
  <2>2. Sound(spoiled) /\ Frame(drawn, spoiled, {}) /\ Told(spoiled)
    BY <1>3, <2>1, FieldsFrame, FieldsKeepTold
  <2>3. Sound(u) /\ Loses(spoiled, u, {c}) /\ Told(u)
    BY <1>2, <1>5, <2>2, RemovalLoses, LosesKeepsTold
  <2>4. Frame(t, spoiled, {} \cup {})
    BY <1>3, <2>2, FrameOn
  <2>5. Frame(t, u, ({} \cup {}) \cup {c})
    BY <2>2, <2>3, <2>4, FrameOn DEF Loses
  <2>6. SameRound(t, u)
    BY <1>1, <2>1, <2>3 DEF Loses, SameRound
  <2> QED BY <1>5, <2>3, <2>5, <2>6
<1> QED BY <1>4, <1>5

LEMMA GuessingFrame ==
  ASSUME NEW t, Sound(t), Told(t), NEW c \in Clients, NEW u \in manage_guessing_player(t, c)
  PROVE  Sound(u) /\ Told(u) /\ SameRound(t, u) /\ Frame(t, u, {})
<1>1. CASE u \in broadcast(t, c)
  BY <1>1, BroadcastLoses, LosesKeepsTold DEF Loses
<1>2. CASE c \in t.hung /\ u \in remove_player_from_server(t, c)
  <2>1. Sound(u) /\ Loses(t, u, {c})
    BY <1>2, RemovalLoses
  <2>2. {c} \subseteq t.hung \cup {}
    BY <1>2
  <2>3. Loses(t, u, {})
    BY <2>1, <2>2, LosesMore
  <2> QED BY <2>1, <2>3, LosesKeepsTold DEF Loses
<1> QED BY <1>1, <1>2 DEF manage_guessing_player

\* The other branch: c may lose a message, and its connection if the message is not regular.
LEMMA ReadableFrame ==
  ASSUME NEW t, Sound(t), Told(t), NEW c \in Clients, NEW u \in readable(t, c)
  PROVE  /\ Sound(u) /\ Told(u) /\ SameRound(t, u)
         /\ \/ Frame(t, u, IF Regular(t, c) THEN {} ELSE {c})
            \/ /\ t.toServer[c] # <<>>
               /\ Frame(Received(t, c), u, IF Regular(t, c) THEN {} ELSE {c})
<1>1. ASSUME NEW v, Sound(v), Told(v), SameRound(t, v), u \in remove_player_from_server(v, c)
      PROVE  Sound(u) /\ Told(u) /\ SameRound(t, u) /\ Frame(v, u, {c})
  <2>1. Sound(u) /\ Loses(v, u, {c})
    BY <1>1, RemovalLoses
  <2> QED BY <1>1, <2>1, LosesKeepsTold DEF Loses, SameRound
<1>2. SameRound(t, t)
  BY DEF SameRound
<1>3. CASE ~t.in_progress \/ t.phase = "countdown"
  <2>1. u \in remove_player_from_server(t, c)
    BY <1>3 DEF readable
  <2>2. ~Regular(t, c)
    BY <1>3 DEF Regular
  <2> QED BY <1>1, <1>2, <2>1, <2>2
<1>4. CASE ~(~t.in_progress \/ t.phase = "countdown")
  <2>1. u \in manage_player_action(t, c)
    BY <1>4 DEF readable
  <2>2. CASE t.toServer[c] = <<>>
    <3>1. u \in remove_player_from_server(t, c)
      BY <2>1, <2>2, Zenon DEF manage_player_action
    <3>2. ~Regular(t, c)
      BY <2>2 DEF Regular
    <3> QED BY <1>1, <1>2, <3>1, <3>2
  <2>3. CASE t.toServer[c] # <<>>
    <3> DEFINE v == Received(t, c)
               m == Head(t.toServer[c])
    <3>1. u \in IF c = t.drawer /\ m.flag = "CANVAS" THEN manage_drawing_player(v, c, m)
                ELSE IF c # t.drawer /\ m.flag = "CHAT" THEN manage_guessing_player(v, c)
                ELSE remove_player_from_server(v, c)
      BY <2>1, <2>3, Zenon DEF manage_player_action, Received
    <3>2. v = Received(t, c) /\ m = Head(t.toServer[c])
      OBVIOUS
    <3> HIDE DEF v, m
    <3>3. /\ Sound(v) /\ SameRound(t, v) /\ v.online = t.online /\ v.hung = t.hung
          /\ v.toClient = t.toClient /\ v.view = t.view
      <4>1. Sound(v) /\ IsReceived(t, c, v)
        BY <2>3, <3>2, ReceivedSound
      <4> QED BY <4>1 DEF IsReceived
    <3>4. Told(v)
      BY <3>3, FieldsKeepTold
    <3>5. CASE c = t.drawer /\ m.flag = "CANVAS"
      <4>1. /\ Sound(u) /\ Told(u) /\ SameRound(v, u)
            /\ Frame(v, u, IF Accepted(m.diffs) = m.diffs THEN {} ELSE {c})
        BY <3>1, <3>3, <3>4, <3>5, DrawingFrame
      <4>2. Accepted(m.diffs) = m.diffs <=> Regular(t, c)
        BY <1>4, <2>3, <3>2, <3>5 DEF Regular
      <4>3. SameRound(t, u)
        BY <3>3, <4>1 DEF SameRound
      <4> QED BY <2>3, <3>2, <4>1, <4>2, <4>3
    <3>6. CASE c # t.drawer /\ m.flag = "CHAT"
      <4>1. Sound(u) /\ Told(u) /\ SameRound(v, u) /\ Frame(v, u, {})
        BY <3>1, <3>3, <3>4, <3>6, GuessingFrame
      <4>2. Regular(t, c)
        BY <1>4, <2>3, <3>2, <3>6 DEF Regular
      <4>3. SameRound(t, u)
        BY <3>3, <4>1 DEF SameRound
      <4> QED BY <2>3, <3>2, <4>1, <4>2, <4>3
    <3>7. CASE ~(c = t.drawer /\ m.flag = "CANVAS") /\ ~(c # t.drawer /\ m.flag = "CHAT")
      <4>1. Sound(u) /\ Told(u) /\ SameRound(t, u) /\ Frame(v, u, {c})
        BY <1>1, <3>1, <3>3, <3>4, <3>7
      <4>2. ~Regular(t, c)
        BY <3>2, <3>7 DEF Regular
      <4> QED BY <2>3, <3>2, <4>1, <4>2
    <3> QED BY <3>5, <3>6, <3>7
  <2> QED BY <2>2, <2>3
<1> QED BY <1>3, <1>4

LEMMA RemovalRemoves ==
  ASSUME NEW t, Sound(t), NEW c \in Clients, NEW u \in remove_player_from_server(t, c)
  PROVE  c \notin u.online
<1> DEFINE w == disconnect(t, c)
<1>1. Sound(w) /\ c \notin w.online
  <2>1. w.online = t.online \ {c}
    BY DEF disconnect, Sound, Good, Fields
  <2> HIDE DEF w
  <2>2. Sound(disconnect(t, c))
    BY DisconnectLoses
  <2> QED BY <2>1, <2>2 DEF w
<1>2. u \in broadcast(w, None)
  BY DEF remove_player_from_server
<1> HIDE DEF w
<1>3. Loses(w, u, {})
  BY <1>1, <1>2, BroadcastLoses
<1> QED BY <1>1, <1>3 DEF Loses, Frame

-----------------------------------------------------------------------------
(* Heartbeats: one at most is under way, to or from the player asked. *)

Beatless(q) == \A k \in 1..Len(q) : q[k] # HeartBeat
BeatOnce(q) == \A k, l \in 1..Len(q) : q[k] = HeartBeat /\ q[l] = HeartBeat => k = l

NoBeat(t, c) == Beatless(t.toServer[c]) /\ Beatless(t.toClient[c])
OneBeat(t, c) ==
  /\ BeatOnce(t.toServer[c]) /\ BeatOnce(t.toClient[c])
  /\ Beatless(t.toServer[c]) \/ Beatless(t.toClient[c])

Beating(t, a) == \A c \in Clients : OneBeat(t, c) /\ (c # a => NoBeat(t, c))

LEMMA BeatlessIsOnce ==
  ASSUME NEW q, Beatless(q)
  PROVE  BeatOnce(q)
BY DEF Beatless, BeatOnce

LEMMA NothingIsBeatless ==
  ASSUME NEW q, q = <<>>
  PROVE  Beatless(q) /\ BeatOnce(q)
BY NothingIsSeq DEF Beatless, BeatOnce

LEMMA BeatsExtended ==
  ASSUME NEW q, NEW r, IsSeq(q), IsSeq(r), Extends(q, r)
  PROVE  (Beatless(q) => Beatless(r)) /\ (BeatOnce(q) => BeatOnce(r))
<1>1. Len(q) \in Nat /\ Len(r) \in Nat
  BY AppendedSeq
<1>2. \A k \in 1..Len(r) : r[k] = HeartBeat => k \in 1..Len(q) /\ q[k] = HeartBeat
  BY <1>1 DEF Extends
<1> QED BY <1>2 DEF Beatless, BeatOnce

LEMMA BeatsTailed ==
  ASSUME NEW q, IsSeq(q), q # <<>>
  PROVE  /\ Beatless(q) => Beatless(Tail(q)) /\ Head(q) # HeartBeat
         /\ BeatOnce(q) => BeatOnce(Tail(q))
         /\ BeatOnce(q) /\ Head(q) = HeartBeat => Beatless(Tail(q))
<1> DEFINE w == Tail(q)
           m == Head(q)
<1>1. /\ Len(q) \in Nat \ {0} /\ Len(w) = Len(q) - 1
      /\ \A k \in 1..Len(w) : k + 1 \in 1..Len(q) /\ w[k] = q[k + 1]
      /\ m = q[1]
  BY TailedSeq
<1> HIDE DEF w, m
<1>2. 1 \in 1..Len(q)
  BY <1>1
<1>3. Beatless(q) => Beatless(w) /\ m # HeartBeat
  BY <1>1, <1>2 DEF Beatless
<1>4. BeatOnce(q) => BeatOnce(w)
  BY <1>1 DEF BeatOnce
<1>5. BeatOnce(q) /\ m = HeartBeat => Beatless(w)
  <2> SUFFICES ASSUME BeatOnce(q), m = HeartBeat, NEW k \in 1..Len(w), w[k] = HeartBeat
               PROVE  FALSE
    BY DEF Beatless
  <2>1. k + 1 \in 1..Len(q) /\ q[k + 1] = HeartBeat /\ q[1] = HeartBeat
    BY <1>1
  <2>2. k + 1 = 1
    BY <1>2, <2>1 DEF BeatOnce
  <2> QED BY <2>2
<1> QED BY <1>3, <1>4, <1>5 DEF w, m

LEMMA BeatAppended ==
  ASSUME NEW q, IsSeq(q), Beatless(q)
  PROVE  BeatOnce(Append(q, HeartBeat))
<1> DEFINE w == Append(q, HeartBeat)
<1>1. /\ Len(q) \in Nat /\ Len(w) = Len(q) + 1
      /\ \A k \in 1..Len(q) : w[k] = q[k]
  BY AppendedSeq
<1> HIDE DEF w
<1>2. \A k \in 1..Len(w) : w[k] = HeartBeat => k = Len(q) + 1
  BY <1>1 DEF Beatless
<1> QED BY <1>1, <1>2 DEF BeatOnce, w

LEMMA FrameKeepsBeating ==
  ASSUME NEW t, NEW u, NEW L, Sound(t), Sound(u), Frame(t, u, L), NEW a, Beating(t, a)
  PROVE  Beating(u, a)
<1> SUFFICES ASSUME NEW c \in Clients
             PROVE  OneBeat(u, c) /\ (c # a => NoBeat(u, c))
  BY DEF Beating
<1>1. CASE c \in u.online
  <2>1. u.toServer[c] = t.toServer[c] /\ Extends(t.toClient[c], u.toClient[c])
    BY <1>1 DEF Frame
  <2>2. IsSeq(t.toClient[c]) /\ IsSeq(u.toClient[c])
    BY InFlight
  <2>3. OneBeat(t, c) /\ (c # a => NoBeat(t, c))
    BY DEF Beating
  <2> QED BY <2>1, <2>2, <2>3, BeatsExtended DEF OneBeat, NoBeat
<1>2. CASE c \notin u.online
  <2>1. u.toServer[c] = <<>> /\ u.toClient[c] = <<>>
    BY <1>2 DEF Sound, Plain
  <2> QED BY <2>1, NothingIsBeatless DEF OneBeat, NoBeat
<1> QED BY <1>1, <1>2

-----------------------------------------------------------------------------
(* Messages that have not crossed the end of the round fit it, and at its end    *)
(* nothing but the answer is on its way from a player that has been asked.       *)

Fits(t, c) ==
  \A k \in 1..Len(t.toServer[c]) :
    /\ t.in_progress
    /\ t.phase # "countdown"
    /\ t.toServer[c][k].flag = (IF c = t.drawer THEN "CANVAS" ELSE "CHAT")

OnlyAnswers(t, c, a) ==
  \A k \in 1..Len(t.toServer[c]) : t.toServer[c][k] = HeartBeat /\ c = a

InStep(t, where, waiting, a) ==
  \A c \in t.online \ (t.hung \cup t.crossed) :
    IF where = "beat" THEN c \notin waiting => OnlyAnswers(t, c, a) ELSE Fits(t, c)

LEMMA FrameKeepsInStep ==
  ASSUME NEW t, NEW u, NEW L, Frame(t, u, L), SameRound(t, u) \/ ~t.in_progress,
         NEW where, NEW waiting, NEW a, InStep(t, where, waiting, a)
  PROVE  InStep(u, where, waiting, a)
<1> SUFFICES ASSUME NEW c \in u.online \ (u.hung \cup u.crossed)
             PROVE  IF where = "beat" THEN c \notin waiting => OnlyAnswers(u, c, a) ELSE Fits(u, c)
  BY DEF InStep
<1>1. /\ c \in t.online \ (t.hung \cup t.crossed)
      /\ u.toServer[c] = t.toServer[c]
  BY DEF Frame
<1>2. OnlyAnswers(t, c, a) => OnlyAnswers(u, c, a)
  BY <1>1 DEF OnlyAnswers
<1>3. Fits(t, c) => Fits(u, c)
  BY <1>1 DEF Fits, SameRound
<1> QED BY <1>1, <1>2, <1>3 DEF InStep

-----------------------------------------------------------------------------
(* What poll has found is there until the loop gets to it. *)

Worth(t, waiting, fd) ==
  IF fd = Listener THEN waiting # <<>>
  ELSE fd \in t.hung \/ (t.toServer[fd] # <<>> /\ Head(t.toServer[fd]) # HeartBeat)

\* From the entry from on, POLLIN is true.
Worths(t, waiting, from) ==
  \A k \in 1..t.pfds.fd_count :
    k >= from /\ t.pfds.slots[k].revents = "POLLIN" => Worth(t, waiting, t.pfds.slots[k].fd)

LEMMA WorthsMove ==
  ASSUME NEW t, NEW u, Sound(t), Sound(u), Moves(t.pfds, u.pfds), NEW waiting, NEW n \in Nat,
         \A k \in 1..t.pfds.fd_count :
           /\ k >= n
           /\ t.pfds.slots[k].revents = "POLLIN"
           /\ t.pfds.slots[k].fd \in u.online \cup {Listener}
           => Worth(u, waiting, t.pfds.slots[k].fd)
  PROVE  Worths(u, waiting, n)
<1> SUFFICES ASSUME NEW k \in 1..u.pfds.fd_count, k >= n, u.pfds.slots[k].revents = "POLLIN"
             PROVE  Worth(u, waiting, u.pfds.slots[k].fd)
  BY DEF Worths
<1>1. PICK l \in 1..t.pfds.fd_count : l >= k /\ u.pfds.slots[k] = t.pfds.slots[l]
  BY DEF Moves
<1>2. u.pfds.slots[k].fd \in u.online \cup {Listener}
  BY ExactlyInParts DEF Sound, Good
<1>3. t.pfds.fd_count \in Nat /\ u.pfds.fd_count \in Nat
  BY Entries DEF Sound
<1>4. l >= n
  BY <1>1, <1>3
<1> QED BY <1>1, <1>2, <1>4

LEMMA FrameKeepsWorths ==
  ASSUME NEW t, NEW u, NEW L, Sound(t), Sound(u), Frame(t, u, L),
         NEW waiting, NEW n \in Nat, Worths(t, waiting, n)
  PROVE  Worths(u, waiting, n)
<1>1. ASSUME NEW fd \in u.online \cup {Listener}, Worth(t, waiting, fd)
      PROVE  Worth(u, waiting, fd)
  <2>1. CASE fd = Listener
    BY <1>1, <2>1 DEF Worth
  <2>2. CASE fd # Listener
    <3>1. fd \in u.online /\ u.toServer[fd] = t.toServer[fd] /\ u.hung = t.hung \cap u.online
      BY <2>2 DEF Frame
    <3> QED BY <1>1, <2>2, <3>1 DEF Worth
  <2> QED BY <2>1, <2>2
<1>2. Moves(t.pfds, u.pfds)
  BY DEF Frame
<1>3. \A k \in 1..t.pfds.fd_count :
        /\ k >= n
        /\ t.pfds.slots[k].revents = "POLLIN"
        /\ t.pfds.slots[k].fd \in u.online \cup {Listener}
        => Worth(u, waiting, t.pfds.slots[k].fd)
  BY <1>1 DEF Worths
<1> QED BY <1>2, <1>3, WorthsMove

-----------------------------------------------------------------------------
(* The invariant of the whole conversation, and the steps that keep it. *)

Reached(where, entry) == IF where = "walk" THEN entry ELSE 1

SInv ==
  /\ IInv
  /\ Sound(s)
  /\ asked # None => at = "beat" /\ asked \notin beats
  /\ Beating(s, asked)
  /\ at = "beat" => ~s.in_progress
  /\ at # "beat" => Told(s)
  /\ InStep(s, at, beats, asked)
  /\ at # "poll" => Worths(s, backlog, Reached(at, i))

LEMMA InitConverses == Init => SInv
<1> SUFFICES ASSUME Init PROVE SInv
  OBVIOUS
<1>1. IInv /\ Good(s)
  BY InitIsGood DEF IInv
<1> DEFINE empty == new_pfds(PFDS_INIT_SIZE)
           Fds == Clients \cup {Listener}
<1>2. /\ s.pfds = add_to_pfds(empty, Listener)
      /\ s.online = {} /\ s.hung = {} /\ s.crossed = {}
      /\ s.toServer = [c \in Clients |-> <<>>] /\ s.toClient = [c \in Clients |-> <<>>]
      /\ s.view = [c \in Clients |-> Blank]
      /\ at = "poll" /\ asked = None
  BY DEF Init
<1>3. CleanBeyond(s.pfds)
  <2>1. PFDS_INIT_SIZE \in Nat \ {0}
    BY SessionAssumption
  <2> DEFINE slots == [k \in 1..PFDS_INIT_SIZE |-> FreeSlot]
  <2>2. /\ slots \in Seq(Slots(Fds)) /\ Len(slots) = PFDS_INIT_SIZE
        /\ \A k \in 1..Len(slots) : slots[k].revents # "POLLIN"
    BY <2>1 DEF Slots, FreeSlot, Revents
  <2>3. empty = [slots |-> slots, fd_count |-> 0]
    BY DEF new_pfds
  <2> HIDE DEF slots
  <2>4. CleanBeyond(empty)
    BY <2>2, <2>3 DEF CleanBeyond
  <2>5. 0 \in 0..Len(slots)
    BY <2>1, <2>2
  <2>6. IsPollSet(empty, Fds) /\ Len(empty.slots) > 0
    <3>1. IsPollSet([slots |-> slots, fd_count |-> 0], Fds)
      BY <2>2, <2>5, PollSetByParts
    <3> QED BY <2>1, <2>2, <2>3, <3>1
  <2>7. Listener \in Fds
    OBVIOUS
  <2> HIDE DEF empty, Fds
  <2> QED BY <1>2, <2>4, <2>6, <2>7, AddMoves
<1>4. Plain(s)
  BY <1>2, NothingIsSeq DEF Plain, Blank, View
<1>5. Beating(s, asked)
  BY <1>2, NothingIsBeatless DEF Beating, OneBeat, NoBeat
<1>6. Told(s) /\ InStep(s, at, beats, asked)
  BY <1>2 DEF Told, InStep
<1> QED BY <1>1, <1>2, <1>3, <1>4, <1>5, <1>6 DEF SInv, Sound

\* The parts of it.
LEMMA Conversing ==
  ASSUME SInv
  PROVE  /\ IInv /\ Sound(s) /\ Good(s)
         /\ i \in Nat \ {0} /\ beats \subseteq Clients /\ asked \in Clients \cup {None}
         /\ asked # None => at = "beat" /\ asked \notin beats
         /\ Beating(s, asked)
         /\ at = "beat" => ~s.in_progress
         /\ at # "beat" => Told(s)
         /\ InStep(s, at, beats, asked)
         /\ at # "poll" => Worths(s, backlog, Reached(at, i))
         /\ DOMAIN s = Fields
BY DEF SInv, IInv, Sound, Good

\* A state in which nothing in flight is different.
LEMMA SameInFlight ==
  ASSUME NEW t, Sound(t), NEW u, Good(u), CleanBeyond(u.pfds),
         u.online = t.online, u.hung = t.hung, u.crossed = t.crossed,
         u.toServer = t.toServer, u.toClient = t.toClient, u.view = t.view
  PROVE  /\ Sound(u)
         /\ \A a : Beating(t, a) => Beating(u, a)
         /\ SameRound(t, u) =>
              /\ Told(t) => Told(u)
              /\ \A where, waiting, a : InStep(t, where, waiting, a) => InStep(u, where, waiting, a)
         /\ \A waiting, fd : Worth(t, waiting, fd) => Worth(u, waiting, fd)
<1>1. Sound(u)
  BY DEF Sound, Plain
<1>2. \A a : Beating(t, a) => Beating(u, a)
  BY DEF Beating, OneBeat, NoBeat
<1>3. ASSUME SameRound(t, u), Told(t) PROVE Told(u)
  BY <1>3, FieldsKeepTold
<1>4. ASSUME SameRound(t, u), NEW where, NEW waiting, NEW a, InStep(t, where, waiting, a)
      PROVE  InStep(u, where, waiting, a)
  BY <1>4 DEF InStep, Fits, OnlyAnswers, SameRound
<1>5. \A waiting, fd : Worth(t, waiting, fd) => Worth(u, waiting, fd)
  BY DEF Worth
<1> QED BY <1>1, <1>2, <1>3, <1>4, <1>5

LEMMA PollConverses ==
  ASSUME SInv, Poll, IInv'
  PROVE  SInv'
<1>1. /\ Sound(s) /\ Good(s) /\ i \in Nat \ {0} /\ DOMAIN s = Fields
      /\ asked # None => at = "beat" /\ asked \notin beats
      /\ Beating(s, asked) /\ InStep(s, at, beats, asked)
      /\ at # "beat" => Told(s)
  BY Conversing
<1>2. /\ at = "poll" /\ at' = "rounds" /\ asked' = asked /\ beats' = beats
      /\ backlog' = backlog /\ i' = i
      /\ s'.pfds = poll(s.pfds, ReadableFds) /\ SameRound(s, s')
      /\ s'.online = s.online /\ s'.hung = s.hung /\ s'.crossed = s.crossed
      /\ s'.toServer = s.toServer /\ s'.toClient = s.toClient /\ s'.view = s.view
  BY <1>1 DEF Poll, Fields, SameRound
<1>3. asked = None
  BY <1>1, <1>2
<1>4. /\ CleanBeyond(s'.pfds) /\ s'.pfds.fd_count = s.pfds.fd_count
      /\ \A k \in 1..s.pfds.fd_count :
           s'.pfds.slots[k].revents = "POLLIN" => s'.pfds.slots[k].fd \in ReadableFds
  <2>1. IsPollSet(s.pfds, Clients \cup {Listener}) /\ CleanBeyond(s.pfds)
    BY <1>1 DEF Sound, Good
  <2> QED BY <1>2, <2>1, PollMarks
<1>5. Good(s')
  BY DEF IInv
<1>6. /\ Sound(s') /\ Beating(s', asked) /\ Told(s') /\ InStep(s', at, beats, asked)
      /\ \A waiting, fd : Worth(s, waiting, fd) => Worth(s', waiting, fd)
  BY <1>1, <1>2, <1>4, <1>5, SameInFlight
<1>7. InStep(s', "rounds", beats, asked)
  BY <1>2, <1>6 DEF InStep
<1>8. ASSUME NEW fd \in ReadableFds PROVE Worth(s, backlog, fd)
  <2>1. CASE fd = Listener
    <3>1. Listener \notin s.online
      BY <1>1, SessionAssumption DEF Good, Listener
    <3> QED BY <1>8, <2>1, <3>1 DEF ReadableFds, Worth
  <2>2. CASE fd # Listener
    <3>1. fd \in s.online /\ (s.toServer[fd] # <<>> \/ fd \in s.hung) /\ fd \in Clients
      BY <1>1, <1>8, <2>2 DEF ReadableFds, Good
    <3>2. CASE s.toServer[fd] # <<>>
      <4>1. fd # asked
        BY <1>3, <3>1, SessionAssumption
      <4>2. Beatless(s.toServer[fd]) /\ IsSeq(s.toServer[fd])
        BY <1>1, <3>1, <4>1, InFlight DEF Beating, NoBeat
      <4>3. Head(s.toServer[fd]) # HeartBeat
        BY <3>2, <4>2, BeatsTailed
      <4> QED BY <2>2, <3>2, <4>3 DEF Worth
    <3> QED BY <2>2, <3>1, <3>2 DEF Worth
  <2> QED BY <2>1, <2>2
<1>9. Worths(s', backlog, 1)
  BY <1>4, <1>6, <1>8 DEF Worths
<1>10. Reached("rounds", i) = 1
  BY DEF Reached
<1> QED BY <1>2, <1>3, <1>6, <1>7, <1>9, <1>10 DEF SInv

LEMMA SkipRoundConverses ==
  ASSUME SInv, SkipRound, IInv'
  PROVE  SInv'
<1>1. /\ Sound(s) /\ Beating(s, asked) /\ InStep(s, at, beats, asked)
      /\ asked # None => at = "beat" /\ asked \notin beats
      /\ at # "beat" => Told(s)
      /\ at # "poll" => Worths(s, backlog, Reached(at, i))
  BY Conversing
<1>2. at = "rounds" /\ at' = "walk" /\ i' = 1 /\ UNCHANGED <<s, backlog, beats, asked>>
  BY DEF SkipRound
<1>3. Reached("rounds", i) = 1 /\ Reached("walk", 1) = 1
  BY DEF Reached
<1>4. InStep(s, "walk", beats, asked)
  BY <1>1, <1>2 DEF InStep
<1> QED BY <1>1, <1>2, <1>3, <1>4 DEF SInv

LEMMA EndRoundConverses ==
  ASSUME SInv, EndRound, IInv'
  PROVE  SInv'
<1>1. /\ Sound(s) /\ Good(s) /\ Beating(s, asked) /\ DOMAIN s = Fields
      /\ asked # None => at = "beat" /\ asked \notin beats
      /\ at # "poll" => Worths(s, backlog, Reached(at, i))
  BY Conversing
<1>2. /\ at = "rounds" /\ at' = "beat" /\ asked' = asked /\ backlog' = backlog
      /\ beats' = s.online /\ i' = i /\ ~s'.in_progress
      /\ s'.pfds = s.pfds
      /\ s'.online = s.online /\ s'.hung = s.hung /\ s'.crossed = s.crossed
      /\ s'.toServer = s.toServer /\ s'.toClient = s.toClient /\ s'.view = s.view
  BY <1>1 DEF EndRound, Fields
<1>3. asked = None
  BY <1>1, <1>2
<1>4. Good(s') /\ CleanBeyond(s'.pfds)
  BY <1>1, <1>2 DEF IInv, Sound
<1>5. /\ Sound(s') /\ Beating(s', asked)
      /\ \A waiting, fd : Worth(s, waiting, fd) => Worth(s', waiting, fd)
  BY <1>1, <1>2, <1>4, SameInFlight
<1>6. InStep(s', "beat", s.online, asked)
  BY <1>2 DEF InStep
<1>7. Reached("rounds", i) = 1 /\ Reached("beat", i) = 1
  BY DEF Reached
<1>8. Worths(s', backlog, 1)
  BY <1>1, <1>2, <1>5, <1>7 DEF Worths
<1> QED BY <1>2, <1>3, <1>5, <1>6, <1>7, <1>8 DEF SInv

\* HEART_BEAT is sent to c, to which and from which none was on its way.
LEMMA BeatSent ==
  ASSUME SInv, NEW c \in Clients, c \in s.online, at = "beat", asked = None,
         s' = [Send(s, {c}, HeartBeat) EXCEPT
                 !.crossed = IF s.toServer[c] = <<>> THEN @ ELSE @ \cup {c}],
         Good(s')
  PROVE  /\ Sound(s') /\ Beating(s', c) /\ s'.in_progress = s.in_progress
         /\ s'.pfds = s.pfds /\ s'.toServer = s.toServer
         /\ s'.online = s.online /\ s'.hung = s.hung
         /\ s'.crossed = IF s.toServer[c] = <<>> THEN s.crossed ELSE s.crossed \cup {c}
<1> DEFINE u == Send(s, {c}, HeartBeat)
<1>1. Sound(s) /\ Beating(s, asked)
  BY Conversing
<1>2. {c} \subseteq s.online
  OBVIOUS
<1>3. /\ DOMAIN u = Fields /\ u.pfds = s.pfds /\ u.online = s.online /\ u.hung = s.hung
      /\ u.crossed = s.crossed /\ u.toServer = s.toServer /\ u.view = s.view
      /\ SameRound(s, u)
      /\ u.toClient = [d \in Clients |-> IF d \in {c} \ s.hung THEN Append(s.toClient[d], HeartBeat)
                                         ELSE s.toClient[d]]
  BY <1>1, <1>2, SendFields
<1>4. Sound(u)
  BY <1>1, <1>2, SendSound
<1>5. s' = [u EXCEPT !.crossed = IF s.toServer[c] = <<>> THEN @ ELSE @ \cup {c}]
  OBVIOUS
<1> HIDE DEF u
<1>6. /\ s'.pfds = u.pfds /\ s'.online = u.online /\ s'.hung = u.hung
      /\ s'.toServer = u.toServer /\ s'.toClient = u.toClient /\ s'.view = u.view
      /\ s'.in_progress = u.in_progress
      /\ s'.crossed = IF s.toServer[c] = <<>> THEN s.crossed ELSE s.crossed \cup {c}
  BY <1>3, <1>5 DEF Fields
<1>7. s'.crossed \subseteq s'.online
  <2>1. s.crossed \subseteq s.online
    BY <1>1 DEF Sound, Plain
  <2>2. s'.online = s.online
    BY <1>3, <1>6
  <2>3. s'.crossed \subseteq s.crossed \cup {c}
    BY <1>6
  <2> QED BY <2>1, <2>2, <2>3
<1>8. Plain(s')
  BY <1>4, <1>6, <1>7 DEF Sound, Plain
<1>9. Sound(s')
  BY <1>4, <1>6, <1>8 DEF Sound
<1>10. Beating(s', c)
  <2> SUFFICES ASSUME NEW d \in Clients
               PROVE  OneBeat(s', d) /\ (d # c => NoBeat(s', d))
    BY DEF Beating
  <2>1. NoBeat(s, d) /\ IsSeq(s.toClient[d])
    BY <1>1, SessionAssumption, InFlight DEF Beating
  <2>2. /\ s'.toServer[d] = s.toServer[d]
        /\ s'.toClient[d] = IF d \in {c} \ s.hung THEN Append(s.toClient[d], HeartBeat)
                            ELSE s.toClient[d]
    BY <1>3, <1>6
  <2>3. CASE d \in {c} \ s.hung
    <3>1. BeatOnce(s'.toClient[d])
      BY <2>1, <2>2, <2>3, BeatAppended DEF NoBeat
    <3> QED BY <2>1, <2>2, <2>3, <3>1, BeatlessIsOnce DEF OneBeat, NoBeat
  <2>4. CASE d \notin {c} \ s.hung
    BY <2>1, <2>2, <2>4, BeatlessIsOnce DEF OneBeat, NoBeat
  <2> QED BY <2>3, <2>4
<1> QED BY <1>3, <1>6, <1>9, <1>10 DEF SameRound

LEMMA BeatConverses ==
  ASSUME SInv, NEW c \in Clients, Beat(c), IInv'
  PROVE  SInv'
<1>1. /\ Sound(s) /\ Beating(s, asked) /\ i \in Nat \ {0}
      /\ at = "beat" => ~s.in_progress
      /\ InStep(s, at, beats, asked)
      /\ at # "poll" => Worths(s, backlog, Reached(at, i))
  BY Conversing
<1>2. /\ at = "beat" /\ at' = at /\ asked = None /\ backlog' = backlog /\ i' = i
      /\ c \in beats /\ beats' = beats \ {c}
      /\ \/ /\ c \in s.online
            /\ s' = [Send(s, {c}, HeartBeat) EXCEPT
                       !.crossed = IF s.toServer[c] = <<>> THEN @ ELSE @ \cup {c}]
            /\ asked' = c
         \/ c \in s.hung /\ s' \in remove_player_from_server(s, c) /\ asked' = None
         \/ c \notin s.online /\ UNCHANGED <<s, asked>>
  BY DEF Beat
<1>3. Reached("beat", i) = 1 /\ Good(s') /\ c # None
  BY SessionAssumption DEF Reached, IInv
<1>4. ASSUME NEW d \in s.online \ (s.hung \cup s.crossed), d \notin beats
      PROVE  Len(s.toServer[d]) = 0
  <2>1. d \in Clients /\ d # asked
    BY <1>1, <1>2, OnlineAreClients, SessionAssumption
  <2>2. OnlyAnswers(s, d, asked)
    BY <1>1, <1>2, <1>4 DEF InStep
  <2>3. Len(s.toServer[d]) \in Nat
    BY <1>1, <2>1, InFlight, AppendedSeq
  <2>4. \A k \in 1..Len(s.toServer[d]) : FALSE
    BY <2>1, <2>2 DEF OnlyAnswers
  <2> QED BY <2>3, <2>4
<1>5. CASE /\ c \in s.online /\ asked' = c
           /\ s' = [Send(s, {c}, HeartBeat) EXCEPT
                      !.crossed = IF s.toServer[c] = <<>> THEN @ ELSE @ \cup {c}]
  <2>1. /\ Sound(s') /\ Beating(s', c) /\ s'.in_progress = s.in_progress
        /\ s'.pfds = s.pfds /\ s'.toServer = s.toServer
        /\ s'.online = s.online /\ s'.hung = s.hung
        /\ s'.crossed = IF s.toServer[c] = <<>> THEN s.crossed ELSE s.crossed \cup {c}
    BY <1>2, <1>3, <1>5, BeatSent
  <2>2. ASSUME NEW d \in s'.online \ (s'.hung \cup s'.crossed), d \notin beats \ {c}
        PROVE  OnlyAnswers(s', d, c)
    <3>1. Len(s.toServer[d]) = 0
      <4>1. CASE d = c
        <5>1. s.toServer[d] = <<>>
          BY <2>1, <2>2, <4>1
        <5> QED BY <5>1, NothingIsSeq
      <4>2. CASE d # c
        BY <1>4, <2>1, <2>2, <4>2
      <4> QED BY <4>1, <4>2
    <3> QED BY <2>1, <3>1 DEF OnlyAnswers
  <2>3. InStep(s', "beat", beats \ {c}, c)
    BY <2>2 DEF InStep
  <2>4. Worths(s', backlog, 1)
    BY <1>1, <1>2, <1>3, <2>1 DEF Worths, Worth
  <2> QED BY <1>1, <1>2, <1>3, <1>5, <2>1, <2>3, <2>4 DEF SInv
<1>6. CASE c \in s.hung /\ s' \in remove_player_from_server(s, c) /\ asked' = None
  <2>1. Sound(s') /\ Loses(s, s', {c}) /\ c \notin s'.online
    BY <1>1, <1>6, RemovalLoses, RemovalRemoves
  <2>2. Beating(s', asked)
    BY <1>1, <2>1, FrameKeepsBeating DEF Loses
  <2>3. InStep(s', "beat", beats, asked)
    BY <1>1, <1>2, <2>1, FrameKeepsInStep DEF Loses
  <2>4. InStep(s', "beat", beats \ {c}, asked)
    BY <2>1, <2>3 DEF InStep
  <2>5. Worths(s', backlog, 1)
    BY <1>1, <1>2, <1>3, <2>1, FrameKeepsWorths DEF Loses
  <2>6. ~s'.in_progress
    BY <1>1, <1>2, <2>1 DEF Loses, SameRound
  <2> QED BY <1>2, <1>3, <1>6, <2>1, <2>2, <2>4, <2>5, <2>6 DEF SInv
<1>7. CASE c \notin s.online /\ UNCHANGED <<s, asked>>
  <2>1. InStep(s, "beat", beats \ {c}, asked)
    BY <1>1, <1>2, <1>7 DEF InStep
  <2> QED BY <1>1, <1>2, <1>3, <1>7, <2>1 DEF SInv
<1> QED BY <1>2, <1>5, <1>6, <1>7

LEMMA AnswerConverses ==
  ASSUME SInv, Answer, IInv'
  PROVE  SInv'
<1>1. /\ Sound(s) /\ Beating(s, asked) /\ i \in Nat \ {0} /\ asked \in Clients \cup {None}
      /\ asked # None => asked \notin beats
      /\ at = "beat" => ~s.in_progress
      /\ InStep(s, at, beats, asked)
      /\ at # "poll" => Worths(s, backlog, Reached(at, i))
  BY Conversing
<1>2. /\ at = "beat" /\ at' = at /\ asked # None /\ asked' = None /\ backlog' = backlog
      /\ i' = i /\ beats' = beats
      /\ \/ /\ s.toServer[asked] # <<>>
            /\ IsAnswer(Head(s.toServer[asked]))
            /\ s' = Received(s, asked)
         \/ s' \in remove_player_from_server(s, asked)
  BY DEF Answer, Received
<1>3. asked \in Clients /\ Reached("beat", i) = 1
  BY <1>1, <1>2 DEF Reached
<1>4. CASE /\ s.toServer[asked] # <<>>
           /\ IsAnswer(Head(s.toServer[asked]))
           /\ s' = Received(s, asked)
  <2> DEFINE q == s.toServer[asked]
  <2>1. Sound(s') /\ IsReceived(s, asked, s')
    BY <1>1, <1>3, <1>4, ReceivedSound
  <2>2. q \in Seq(ToServer) /\ IsSeq(q) /\ q # <<>>
    BY <1>1, <1>3, <1>4, InFlight DEF Sound, Plain
  <2>3. Head(q) = HeartBeat
    <3>1. Head(q) \in ToServer
      BY <2>2
    <3> QED BY <1>4, <3>1 DEF IsAnswer, ToServer, HeartBeat, Chat, Drawing
  <2>4. OneBeat(s, asked)
    BY <1>1, <1>3 DEF Beating
  <2> HIDE DEF q
  <2>5. Beatless(Tail(q)) /\ ~Beatless(q)
    BY <2>2, <2>3, <2>4, BeatsTailed DEF OneBeat, q
  <2>6. ASSUME NEW d \in Clients PROVE OneBeat(s', d) /\ NoBeat(s', d)
    <3>1. CASE d = asked
      <4>1. s'.toServer[d] = Tail(q) /\ s'.toClient[d] = s.toClient[d]
        BY <1>3, <2>1, <3>1 DEF IsReceived, q
      <4>2. Beatless(s.toClient[asked])
        BY <2>4, <2>5 DEF OneBeat, q
      <4> QED BY <2>5, <3>1, <4>1, <4>2, BeatlessIsOnce DEF OneBeat, NoBeat
    <3>2. CASE d # asked
      <4>1. s'.toServer[d] = s.toServer[d] /\ s'.toClient[d] = s.toClient[d]
        BY <2>1, <3>2 DEF IsReceived
      <4>2. OneBeat(s, d) /\ NoBeat(s, d)
        BY <1>1, <3>2 DEF Beating
      <4> QED BY <4>1, <4>2 DEF OneBeat, NoBeat
    <3> QED BY <3>1, <3>2
  <2>7. Beating(s', None)
    BY <2>6 DEF Beating
  <2>8. ASSUME NEW d \in s'.online \ (s'.hung \cup s'.crossed), d \notin beats
        PROVE  OnlyAnswers(s', d, None)
    <3>1. d \in s.online \ (s.hung \cup s.crossed) /\ d \in Clients
      BY <1>1, <2>1, <2>8, OnlineAreClients DEF IsReceived
    <3>2. OnlyAnswers(s, d, asked)
      BY <1>1, <1>2, <2>8, <3>1 DEF InStep
    <3>3. CASE d = asked
      <4>1. s'.toServer[d] = Tail(q)
        BY <1>3, <2>1, <3>3 DEF IsReceived, q
      <4>2. ASSUME NEW k \in 1..Len(Tail(q)) PROVE FALSE
        <5>1. k + 1 \in 1..Len(q) /\ Tail(q)[k] = q[k + 1]
          BY <2>2, TailedSeq
        <5>2. q[k + 1] = HeartBeat
          BY <3>2, <3>3, <5>1 DEF OnlyAnswers, q
        <5> QED BY <2>5, <5>1, <5>2 DEF Beatless
      <4> QED BY <4>1, <4>2 DEF OnlyAnswers
    <3>4. CASE d # asked
      <4>1. s'.toServer[d] = s.toServer[d]
        BY <2>1, <3>1, <3>4 DEF IsReceived
      <4> QED BY <3>2, <3>4, <4>1 DEF OnlyAnswers
    <3> QED BY <3>3, <3>4
  <2>9. InStep(s', "beat", beats, None)
    BY <2>8 DEF InStep
  <2>10. Worths(s', backlog, 1)
    <3>1. ASSUME NEW fd \in s'.online \cup {Listener}, Worth(s, backlog, fd)
          PROVE  Worth(s', backlog, fd)
      <4>1. CASE fd = Listener
        BY <3>1, <4>1 DEF Worth
      <4>2. CASE fd = asked /\ fd # Listener
        <5>1. fd \in s.hung
          BY <2>3, <3>1, <4>2 DEF Worth, q
        <5> QED BY <2>1, <4>2, <5>1 DEF IsReceived, Worth
      <4>3. CASE fd # asked /\ fd # Listener
        <5>1. fd \in Clients
          BY <2>1, <4>3, OnlineAreClients
        <5>2. s'.toServer[fd] = s.toServer[fd] /\ s'.hung = s.hung
          BY <2>1, <4>3, <5>1 DEF IsReceived
        <5> QED BY <3>1, <4>3, <5>2 DEF Worth
      <4> QED BY <4>1, <4>2, <4>3
    <3>2. Moves(s.pfds, s'.pfds)
      BY <1>1, <2>1, Entries, MovesNothing DEF IsReceived, Sound
    <3>3. Worths(s, backlog, 1)
      BY <1>1, <1>2, <1>3
    <3>4. \A k \in 1..s.pfds.fd_count :
            /\ k >= 1
            /\ s.pfds.slots[k].revents = "POLLIN"
            /\ s.pfds.slots[k].fd \in s'.online \cup {Listener}
            => Worth(s', backlog, s.pfds.slots[k].fd)
      BY <3>1, <3>3 DEF Worths
    <3> QED BY <1>1, <2>1, <3>2, <3>4, WorthsMove
  <2>11. ~s'.in_progress
    BY <1>1, <1>2, <2>1 DEF IsReceived, SameRound
  <2> QED BY <1>2, <1>3, <2>1, <2>7, <2>9, <2>10, <2>11 DEF SInv
<1>5. CASE s' \in remove_player_from_server(s, asked)
  <2>1. Sound(s') /\ Loses(s, s', {asked}) /\ asked \notin s'.online
    BY <1>1, <1>3, <1>5, RemovalLoses, RemovalRemoves
  <2>2. Beating(s', asked)
    BY <1>1, <2>1, FrameKeepsBeating DEF Loses
  <2>3. s'.toServer[asked] = <<>> /\ s'.toClient[asked] = <<>>
    BY <1>3, <2>1 DEF Sound, Plain
  <2>4. Beating(s', None)
    BY <2>2, <2>3, NothingIsBeatless DEF Beating, NoBeat
  <2>5. InStep(s', "beat", beats, asked)
    BY <1>1, <1>2, <2>1, FrameKeepsInStep DEF Loses
  <2>6. InStep(s', "beat", beats, None)
    BY <2>1, <2>5 DEF InStep, OnlyAnswers
  <2>7. Worths(s', backlog, 1)
    BY <1>1, <1>2, <1>3, <2>1, FrameKeepsWorths DEF Loses
  <2>8. ~s'.in_progress
    BY <1>1, <1>2, <2>1 DEF Loses, SameRound
  <2> QED BY <1>2, <1>3, <2>1, <2>4, <2>6, <2>7, <2>8 DEF SInv
<1> QED BY <1>2, <1>4, <1>5

LEMMA FinishRoundConverses ==
  ASSUME SInv, FinishRound, IInv'
  PROVE  SInv'
<1>1. /\ Sound(s) /\ Beating(s, asked)
      /\ at = "beat" => ~s.in_progress
      /\ InStep(s, at, beats, asked)
      /\ at # "poll" => Worths(s, backlog, Reached(at, i))
  BY Conversing
<1>2. /\ at = "beat" /\ at' = "walk" /\ asked = None /\ asked' = None /\ backlog' = backlog
      /\ i' = 1 /\ beats = {} /\ beats' = beats /\ s' \in finish_round(s)
  BY DEF FinishRound
<1>3. Sound(s') /\ Frame(s, s', {}) /\ Told(s')
  BY <1>1, <1>2, FinishFrame
<1>4. Beating(s', asked)
  BY <1>1, <1>3, FrameKeepsBeating
<1>5. ASSUME NEW c \in s'.online \ (s'.hung \cup s'.crossed)
      PROVE  Fits(s', c)
  <2>1. /\ c \in s.online \ (s.hung \cup s.crossed) /\ c \in Clients
        /\ s'.toServer[c] = s.toServer[c]
    BY <1>1, <1>3, OnlineAreClients DEF Frame
  <2>2. OnlyAnswers(s, c, asked)
    BY <1>1, <1>2, <2>1 DEF InStep
  <2>3. c # asked
    BY <1>2, <2>1, SessionAssumption
  <2> QED BY <2>1, <2>2, <2>3 DEF OnlyAnswers, Fits
<1>6. InStep(s', "walk", beats, asked)
  BY <1>5 DEF InStep
<1>7. Reached("beat", i) = 1 /\ Reached("walk", 1) = 1
  BY DEF Reached
<1>8. Worths(s', backlog, 1)
  BY <1>1, <1>2, <1>3, <1>7, FrameKeepsWorths
<1> QED BY <1>2, <1>3, <1>4, <1>6, <1>7, <1>8 DEF SInv

LEMMA SkipEntryConverses ==
  ASSUME SInv, SkipEntry, IInv'
  PROVE  SInv'
<1>1. /\ Sound(s) /\ Beating(s, asked) /\ i \in Nat \ {0}
      /\ asked # None => at = "beat" /\ asked \notin beats
      /\ at # "beat" => Told(s)
      /\ InStep(s, at, beats, asked)
      /\ at # "poll" => Worths(s, backlog, Reached(at, i))
      /\ s.pfds.fd_count \in Nat
  BY Conversing, Entries
<1>2. at = "walk" /\ at' = at /\ i' = i + 1 /\ UNCHANGED <<s, backlog, beats, asked>>
  BY DEF SkipEntry, Walking
<1>3. Reached("walk", i) = i /\ Reached("walk", i + 1) = i + 1
  BY DEF Reached
<1>4. Worths(s, backlog, i + 1)
  BY <1>1, <1>2, <1>3 DEF Worths
<1> QED BY <1>1, <1>2, <1>3, <1>4 DEF SInv

\* The entry the loop has reached is the only one of its descriptor.
LEMMA EntryIsOnce ==
  ASSUME Sound(s), i \in Nat \ {0}, Walking
  PROVE  /\ i \in 1..s.pfds.fd_count
         /\ Entry.fd \in s.online \cup {Listener}
         /\ \A k \in 1..s.pfds.fd_count : k >= i + 1 => s.pfds.slots[k].fd # Entry.fd
<1>1. s.pfds.fd_count \in Nat /\ IsExactly(s.pfds, s.online \cup {Listener})
  BY Entries DEF Sound, Good
<1>2. i \in 1..s.pfds.fd_count
  BY <1>1 DEF Walking
<1>3. /\ \A k \in 1..s.pfds.fd_count : s.pfds.slots[k].fd \in s.online \cup {Listener}
      /\ \A j, k \in 1..s.pfds.fd_count : s.pfds.slots[j].fd = s.pfds.slots[k].fd => j = k
  BY <1>1, ExactlyInParts
<1>4. ASSUME NEW k \in 1..s.pfds.fd_count, k >= i + 1
      PROVE  s.pfds.slots[k].fd # s.pfds.slots[i].fd
  BY <1>2, <1>3, <1>4
<1> QED BY <1>2, <1>3, <1>4 DEF Entry

\* The loop goes on to the next entry, with u for s and rest for the backlog.
LEMMA WalkOn ==
  ASSUME SInv, at = "walk", NEW u, Sound(u), Moves(s.pfds, u.pfds), NEW rest,
         \A fd \in u.online \cup {Listener} :
           Worth(s, backlog, fd) /\ fd # Entry.fd => Worth(u, rest, fd),
         Walking
  PROVE  Worths(u, rest, i + 1)
<1>1. Sound(s) /\ i \in Nat \ {0} /\ Worths(s, backlog, i)
  BY Conversing DEF Reached
<1>2. \A k \in 1..s.pfds.fd_count : k >= i + 1 => s.pfds.slots[k].fd # Entry.fd
  BY <1>1, EntryIsOnce
<1>3. s.pfds.fd_count \in Nat
  BY <1>1, Entries DEF Sound
<1>4. ASSUME NEW k \in 1..s.pfds.fd_count, k >= i + 1, s.pfds.slots[k].revents = "POLLIN",
             s.pfds.slots[k].fd \in u.online \cup {Listener}
      PROVE  Worth(u, rest, s.pfds.slots[k].fd)
  <2>1. k >= i
    BY <1>1, <1>3, <1>4
  <2>2. Worth(s, backlog, s.pfds.slots[k].fd)
    BY <1>1, <1>4, <2>1 DEF Worths
  <2> QED BY <1>2, <1>4, <2>2
<1>5. i + 1 \in Nat
  BY <1>1
<1> QED BY <1>1, <1>4, <1>5, WorthsMove

LEMMA AcceptConverses ==
  ASSUME SInv, Accept, IInv'
  PROVE  SInv'
<1>1. /\ Sound(s) /\ Good(s) /\ Beating(s, asked) /\ i \in Nat \ {0}
      /\ asked # None => at = "beat" /\ asked \notin beats
      /\ at # "beat" => Told(s)
      /\ InStep(s, at, beats, asked)
  BY Conversing
<1>2. /\ at = "walk" /\ at' = at /\ i' = i + 1 /\ beats' = beats /\ asked' = asked
      /\ Walking /\ Entry.fd = Listener
      /\ backlog # <<>> /\ backlog' = Tail(backlog)
      /\ s' \in join(s, Head(backlog)) \cup {s}
  BY DEF Accept, Walking
<1>3. asked = None /\ Reached("walk", i + 1) = i + 1
  BY <1>1, <1>2 DEF Reached
<1>4. CASE s' = s
  <2>1. Moves(s.pfds, s.pfds)
    BY <1>1, Entries, MovesNothing
  <2>2. \A fd \in s.online \cup {Listener} :
          Worth(s, backlog, fd) /\ fd # Entry.fd => Worth(s, backlog', fd)
    BY <1>2 DEF Worth
  <2>3. Worths(s, backlog', i + 1)
    BY <1>1, <1>2, <2>1, <2>2, WalkOn
  <2> QED BY <1>1, <1>2, <1>3, <1>4, <2>3 DEF SInv
<1>5. CASE s' \in join(s, Head(backlog))
  <2> DEFINE c == Head(backlog)
             polled == Polling(s, c)
  <2>1. c \in Clients /\ c \notin s.online
    BY <1>2, AcceptedLeaves DEF SInv, IInv
  <2>2. polled = Polling(s, c) /\ s' \in join(s, c)
    BY <1>5
  <2> HIDE DEF c, polled
  <2>3. /\ Sound(polled) /\ Told(polled) /\ SameRound(s, polled)
        /\ polled.online = s.online \cup {c} /\ polled.hung = s.hung
        /\ polled.crossed = s.crossed
        /\ polled.toServer = s.toServer /\ polled.toClient = s.toClient
        /\ polled.view = s.view /\ Moves(s.pfds, polled.pfds)
    BY <1>1, <1>2, <2>1, <2>2, PollingSound
  <2>4. /\ Sound(s') /\ Told(s') /\ Frame(polled, s', {})
        /\ s.in_progress => SameRound(s, s')
    BY <1>1, <1>2, <2>1, <2>2, JoinFrame
  <2>5. Beating(s', asked)
    <3>1. Beating(polled, asked)
      BY <1>1, <2>3 DEF Beating, OneBeat, NoBeat
    <3> QED BY <2>3, <2>4, <3>1, FrameKeepsBeating
  <2>6. InStep(s', "walk", beats, asked)
    <3>1. ASSUME NEW d \in polled.online \ (polled.hung \cup polled.crossed)
          PROVE  Fits(polled, d)
      <4>1. CASE d \in s.online
        <5>1. Fits(s, d)
          BY <1>1, <1>2, <2>3, <3>1, <4>1 DEF InStep
        <5> QED BY <2>3, <5>1 DEF Fits, SameRound
      <4>2. CASE d \notin s.online
        <5>1. polled.toServer[d] = <<>>
          BY <1>1, <2>1, <2>3, <3>1, <4>2 DEF Sound, Plain
        <5> QED BY <5>1, NothingIsSeq DEF Fits
      <4> QED BY <4>1, <4>2
    <3>2. InStep(polled, "walk", beats, asked)
      BY <3>1 DEF InStep
    <3>3. SameRound(polled, s') \/ ~polled.in_progress
      BY <2>3, <2>4 DEF SameRound
    <3> QED BY <2>4, <3>2, <3>3, FrameKeepsInStep
  <2>7. Moves(s.pfds, s'.pfds)
    <3>1. /\ Moves(s.pfds, polled.pfds) /\ Moves(polled.pfds, s'.pfds)
          /\ s.pfds.fd_count \in Nat /\ polled.pfds.fd_count \in Nat /\ s'.pfds.fd_count \in Nat
      BY <1>1, <2>3, <2>4, Entries DEF Frame, Sound
    <3> QED BY <3>1, MovesOn
  <2>8. ASSUME NEW fd \in s'.online \cup {Listener}, Worth(s, backlog, fd), fd # Entry.fd
        PROVE  Worth(s', backlog', fd)
    <3>1. /\ fd # Listener /\ fd \in s'.online /\ s'.toServer[fd] = s.toServer[fd]
          /\ s'.hung = s.hung \cap s'.online
      BY <1>2, <2>3, <2>4, <2>8 DEF Frame
    <3> QED BY <2>8, <3>1 DEF Worth
  <2>9. Worths(s', backlog', i + 1)
    BY <1>2, <2>4, <2>7, <2>8, WalkOn
  <2> QED BY <1>2, <1>3, <2>4, <2>5, <2>6, <2>9 DEF SInv
<1> QED BY <1>2, <1>4, <1>5

LEMMA ReceiveConverses ==
  ASSUME SInv, Receive, IInv'
  PROVE  SInv'
<1>1. /\ Sound(s) /\ Good(s) /\ Beating(s, asked) /\ i \in Nat \ {0}
      /\ asked # None => at = "beat" /\ asked \notin beats
      /\ at # "beat" => Told(s)
      /\ InStep(s, at, beats, asked)
  BY Conversing
<1> DEFINE c == Entry.fd
<1>2. /\ at = "walk" /\ at' = at /\ i' = i + 1 /\ beats' = beats /\ asked' = asked
      /\ backlog' = backlog /\ Walking /\ c # Listener /\ s' \in readable(s, c)
  BY DEF Receive, Walking
<1>3. asked = None /\ Reached("walk", i + 1) = i + 1
  BY <1>1, <1>2 DEF Reached
<1>4. c \in Clients
  BY <1>1, <1>2, EntryIsOnce, OnlineAreClients
<1>5. c = Entry.fd
  OBVIOUS
<1> HIDE DEF c
<1>6. /\ Sound(s') /\ Told(s') /\ SameRound(s, s')
      /\ \/ Frame(s, s', IF Regular(s, c) THEN {} ELSE {c})
         \/ /\ s.toServer[c] # <<>>
            /\ Frame(Received(s, c), s', IF Regular(s, c) THEN {} ELSE {c})
  BY <1>1, <1>2, <1>4, ReadableFrame
<1>7. ASSUME NEW t, NEW L, Sound(t), Frame(t, s', L), SameRound(s, t),
             t.online = s.online, t.hung = s.hung, t.crossed = s.crossed, t.pfds = s.pfds,
             \A d \in Clients : d # c => t.toServer[d] = s.toServer[d],
             Beating(t, asked), InStep(t, "walk", beats, asked)
      PROVE  SInv'
  <2>1. Beating(s', asked)
    BY <1>6, <1>7, FrameKeepsBeating
  <2>2. InStep(s', "walk", beats, asked)
    <3>1. SameRound(t, s')
      BY <1>6, <1>7 DEF SameRound
    <3> QED BY <1>7, <3>1, FrameKeepsInStep
  <2>3. ASSUME NEW fd \in s'.online \cup {Listener}, Worth(s, backlog, fd), fd # Entry.fd
        PROVE  Worth(s', backlog, fd)
    <3>1. CASE fd = Listener
      BY <2>3, <3>1 DEF Worth
    <3>2. CASE fd # Listener
      <4>1. fd \in Clients /\ fd # c
        BY <1>5, <1>6, <2>3, <3>2, OnlineAreClients
      <4>2. s'.toServer[fd] = s.toServer[fd] /\ s'.hung = s.hung \cap s'.online
        BY <1>7, <2>3, <3>2, <4>1 DEF Frame
      <4> QED BY <2>3, <3>2, <4>2 DEF Worth
    <3> QED BY <3>1, <3>2
  <2>4. Moves(s.pfds, s'.pfds)
    BY <1>7 DEF Frame
  <2>5. Worths(s', backlog, i + 1)
    BY <1>2, <1>6, <2>3, <2>4, WalkOn
  <2> QED BY <1>2, <1>3, <1>6, <2>1, <2>2, <2>5 DEF SInv
<1>8. CASE Frame(s, s', IF Regular(s, c) THEN {} ELSE {c})
  <2>1. SameRound(s, s) /\ InStep(s, "walk", beats, asked)
    BY <1>1, <1>2 DEF SameRound
  <2> QED BY <1>1, <1>7, <1>8, <2>1
<1>9. CASE /\ s.toServer[c] # <<>>
           /\ Frame(Received(s, c), s', IF Regular(s, c) THEN {} ELSE {c})
  <2> DEFINE t == Received(s, c)
             q == s.toServer[c]
  <2>1. Sound(t) /\ IsReceived(s, c, t)
    BY <1>1, <1>4, <1>9, ReceivedSound
  <2>2. Frame(t, s', IF Regular(s, c) THEN {} ELSE {c})
    BY <1>9
  <2> HIDE DEF t
  <2>3. IsSeq(q) /\ q # <<>>
    BY <1>1, <1>4, <1>9, InFlight
  <2> HIDE DEF q
  <2>4. Beating(t, asked)
    <3> SUFFICES ASSUME NEW d \in Clients
                 PROVE  OneBeat(t, d) /\ (d # asked => NoBeat(t, d))
      BY DEF Beating
    <3>1. OneBeat(s, d) /\ (d # asked => NoBeat(s, d))
      BY <1>1 DEF Beating
    <3>2. /\ t.toClient[d] = s.toClient[d]
          /\ t.toServer[d] = IF d = c THEN Tail(q) ELSE s.toServer[d]
      BY <2>1 DEF IsReceived, q
    <3> QED BY <2>3, <3>1, <3>2, BeatsTailed DEF OneBeat, NoBeat, q
  <2>5. ASSUME NEW d \in t.online \ (t.hung \cup t.crossed)
        PROVE  Fits(t, d)
    <3>1. d \in s.online \ (s.hung \cup s.crossed) /\ d \in Clients /\ SameRound(s, t)
      BY <1>1, <2>1, <2>5, OnlineAreClients DEF IsReceived
    <3>2. Fits(s, d)
      BY <1>1, <1>2, <3>1 DEF InStep
    <3>3. CASE d = c
      <4>1. t.toServer[d] = Tail(q) /\ s.toServer[d] = q
        BY <2>1, <3>1, <3>3 DEF IsReceived, q
      <4>2. \A k \in 1..Len(Tail(q)) : k + 1 \in 1..Len(q) /\ Tail(q)[k] = q[k + 1]
        BY <2>3, TailedSeq
      <4> QED BY <3>1, <3>2, <4>1, <4>2 DEF Fits, SameRound
    <3>4. CASE d # c
      <4>1. t.toServer[d] = s.toServer[d]
        BY <2>1, <3>1, <3>4 DEF IsReceived
      <4> QED BY <3>1, <3>2, <4>1 DEF Fits, SameRound
    <3> QED BY <3>3, <3>4
  <2>6. InStep(t, "walk", beats, asked)
    BY <2>5 DEF InStep
  <2>7. /\ SameRound(s, t) /\ t.online = s.online /\ t.hung = s.hung
        /\ t.crossed = s.crossed /\ t.pfds = s.pfds
        /\ \A d \in Clients : d # c => t.toServer[d] = s.toServer[d]
    BY <2>1 DEF IsReceived
  <2> QED BY <1>7, <2>1, <2>2, <2>4, <2>6, <2>7
<1> QED BY <1>6, <1>8, <1>9

LEMMA EndWalkConverses ==
  ASSUME SInv, EndWalk, IInv'
  PROVE  SInv'
<1>1. /\ Sound(s) /\ Beating(s, asked)
      /\ asked # None => at = "beat" /\ asked \notin beats
      /\ at # "beat" => Told(s)
      /\ InStep(s, at, beats, asked)
  BY Conversing
<1>2. at = "walk" /\ at' = "poll" /\ UNCHANGED <<s, backlog, i, beats, asked>>
  BY DEF EndWalk
<1>3. InStep(s, "poll", beats, asked)
  BY <1>1, <1>2 DEF InStep
<1> QED BY <1>1, <1>2, <1>3 DEF SInv

LEMMA TickConverses ==
  ASSUME SInv, Tick, IInv'
  PROVE  SInv'
<1>1. /\ Sound(s) /\ Good(s) /\ Beating(s, asked) /\ DOMAIN s = Fields
      /\ asked # None => at = "beat" /\ asked \notin beats
      /\ at = "beat" => ~s.in_progress
      /\ at # "beat" => Told(s)
      /\ InStep(s, at, beats, asked)
      /\ at # "poll" => Worths(s, backlog, Reached(at, i))
  BY Conversing
<1>2. /\ s.in_progress /\ s'.in_progress /\ s'.drawer = s.drawer
      /\ s'.phase = (IF s.phase = "countdown" THEN "drawing" ELSE "due")
      /\ s'.pfds = s.pfds
      /\ s'.online = s.online /\ s'.hung = s.hung /\ s'.crossed = s.crossed
      /\ s'.toServer = s.toServer /\ s'.toClient = s.toClient /\ s'.view = s.view
      /\ UNCHANGED <<backlog, at, i, beats, asked>>
  BY <1>1 DEF Tick, Fields
<1>3. at # "beat" /\ Told(s) /\ asked = None
  BY <1>1, <1>2
<1>4. Good(s') /\ CleanBeyond(s'.pfds)
  BY <1>1, <1>2 DEF IInv, Sound
<1>5. /\ Sound(s') /\ Beating(s', asked)
      /\ \A waiting, fd : Worth(s, waiting, fd) => Worth(s', waiting, fd)
  BY <1>1, <1>2, <1>4, SameInFlight
<1>6. Told(s')
  BY <1>2, <1>3 DEF Told, RoleOf
<1>7. InStep(s', at, beats, asked)
  <2>1. s'.phase # "countdown"
    BY <1>2
  <2> QED BY <1>1, <1>2, <1>3, <2>1 DEF InStep, Fits
<1>8. at # "poll" => Worths(s', backlog, Reached(at, i))
  BY <1>1, <1>2, <1>5 DEF Worths
<1> QED BY <1>2, <1>3, <1>5, <1>6, <1>7, <1>8 DEF SInv

-----------------------------------------------------------------------------
(* The steps of the clients *)

LEMMA DialConverses ==
  ASSUME SInv, NEW c \in Clients, Dial(c), IInv'
  PROVE  SInv'
<1>1. /\ Sound(s) /\ Beating(s, asked)
      /\ asked # None => at = "beat" /\ asked \notin beats
      /\ at = "beat" => ~s.in_progress
      /\ at # "beat" => Told(s)
      /\ InStep(s, at, beats, asked)
      /\ at # "poll" => Worths(s, backlog, Reached(at, i))
  BY Conversing
<1>2. backlog' = Append(backlog, c) /\ UNCHANGED <<s, at, i, beats, asked>>
  BY DEF Dial
<1>3. backlog' # <<>>
  <2>1. backlog \in Seq(Clients)
    BY DEF SInv, IInv, BacklogIsApart
  <2> QED BY <1>2, <2>1
<1>4. at # "poll" => Worths(s, backlog', Reached(at, i))
  BY <1>1, <1>3 DEF Worths, Worth
<1> QED BY <1>1, <1>2, <1>4 DEF SInv

LEMMA HangUpConverses ==
  ASSUME SInv, NEW c \in Clients, HangUp(c), IInv'
  PROVE  SInv'
<1>1. /\ Sound(s) /\ Plain(s) /\ Beating(s, asked) /\ DOMAIN s = Fields
      /\ asked # None => at = "beat" /\ asked \notin beats
      /\ at = "beat" => ~s.in_progress
      /\ at # "beat" => Told(s)
      /\ InStep(s, at, beats, asked)
      /\ at # "poll" => Worths(s, backlog, Reached(at, i))
  BY Conversing DEF Sound
<1>2. /\ c \in s.online \ s.hung /\ SameRound(s, s')
      /\ s'.pfds = s.pfds
      /\ s'.online = s.online /\ s'.hung = s.hung \cup {c} /\ s'.crossed = s.crossed
      /\ s'.toServer = s.toServer /\ s'.toClient = [s.toClient EXCEPT ![c] = <<>>]
      /\ s'.view = [s.view EXCEPT ![c] = Blank]
      /\ UNCHANGED <<backlog, at, i, beats, asked>>
  BY <1>1 DEF HangUp, Fields, SameRound
<1>3. \A d \in Clients : /\ s'.toClient[d] = IF d = c THEN <<>> ELSE s.toClient[d]
                         /\ s'.view[d] = IF d = c THEN Blank ELSE s.view[d]
  <2>1. \A d \in Clients : s'.toClient[d] = IF d = c THEN <<>> ELSE s.toClient[d]
    <3>1. c \in DOMAIN s.toClient /\ DOMAIN s.toClient = Clients
      BY <1>1, Zenon DEF Plain
    <3> QED BY <1>2, <3>1
  <2>2. \A d \in Clients : s'.view[d] = IF d = c THEN Blank ELSE s.view[d]
    <3>1. c \in DOMAIN s.view /\ DOMAIN s.view = Clients
      BY <1>1, Zenon DEF Plain
    <3> QED BY <1>2, <3>1
  <2> QED BY <2>1, <2>2
<1>4. s.online \subseteq Clients /\ s.hung \subseteq s.online
  BY <1>1, OnlineAreClients
<1>5. Sound(s')
  <2>1. Good(s') /\ CleanBeyond(s'.pfds)
    BY <1>1, <1>2 DEF IInv, Sound
  <2>2. s'.toClient = [d \in Clients |-> s'.toClient[d]]
    BY <1>1, <1>2 DEF Plain
  <2>3. s'.view = [d \in Clients |-> s'.view[d]]
    BY <1>1, <1>2 DEF Plain
  <2>4. \A d \in Clients : IsSeq(s'.toClient[d]) /\ DOMAIN s'.view[d] = View
    BY <1>1, <1>3, NothingIsSeq DEF Plain, Blank, View
  <2>5. \A d \in Clients \ s'.online :
          s'.toServer[d] = <<>> /\ s'.toClient[d] = <<>> /\ s'.view[d] = Blank
    BY <1>1, <1>2, <1>3 DEF Plain
  <2>6. \A d \in s'.hung : s'.toClient[d] = <<>> /\ s'.view[d] = Blank
    BY <1>1, <1>2, <1>3, <1>4 DEF Plain
  <2>7. Plain(s')
    BY <1>1, <1>2, <2>2, <2>3, <2>4, <2>5, <2>6 DEF Plain
  <2> QED BY <2>1, <2>7 DEF Sound
<1>6. Beating(s', asked)
  <2> SUFFICES ASSUME NEW d \in Clients
               PROVE  OneBeat(s', d) /\ (d # asked => NoBeat(s', d))
    BY DEF Beating
  <2>1. OneBeat(s, d) /\ (d # asked => NoBeat(s, d))
    BY <1>1 DEF Beating
  <2>2. /\ s'.toServer[d] = s.toServer[d]
        /\ s'.toClient[d] = IF d = c THEN <<>> ELSE s.toClient[d]
    BY <1>2, <1>3
  <2> QED BY <2>1, <2>2, NothingIsBeatless DEF OneBeat, NoBeat
<1>7. at # "beat" => Told(s')
  <2>1. ASSUME Told(s), NEW d \in s'.online \ s'.hung
        PROVE  Tells(s'.toClient[d], s'.view[d].role, RoleOf(s', d))
    <3>1. /\ d \in s.online \ s.hung /\ RoleOf(s', d) = RoleOf(s, d)
          /\ s'.toClient[d] = s.toClient[d] /\ s'.view[d] = s.view[d]
      BY <1>2, <1>3, <1>4, <2>1 DEF SameRound, RoleOf
    <3> QED BY <2>1, <3>1 DEF Told
  <2> QED BY <1>1, <2>1 DEF Told
<1>8. InStep(s', at, beats, asked)
  BY <1>1, <1>2 DEF InStep, Fits, OnlyAnswers, SameRound
<1>9. at # "poll" => Worths(s', backlog, Reached(at, i))
  BY <1>1, <1>2 DEF Worths, Worth
<1> QED BY <1>1, <1>2, <1>5, <1>6, <1>7, <1>8, <1>9 DEF SInv, SameRound

\* What clients do to the messages for the server is behind those that are there.
LEMMA WorthAppended ==
  ASSUME NEW t, NEW u, u.hung = t.hung, NEW c,
         \A d \in Clients : IsSeq(t.toServer[d]),
         \A d \in Clients : d # c => u.toServer[d] = t.toServer[d],
         NEW m, u.toServer[c] = Append(t.toServer[c], m) \/ u.toServer[c] = t.toServer[c],
         NEW waiting, NEW fd \in Clients \cup {Listener}, Worth(t, waiting, fd)
  PROVE  Worth(u, waiting, fd)
<1>1. CASE fd = Listener
  BY <1>1 DEF Worth
<1>2. CASE fd # Listener /\ (fd \in t.hung \/ u.toServer[fd] = t.toServer[fd])
  BY <1>2 DEF Worth
<1>3. CASE fd # Listener /\ fd = c /\ u.toServer[c] = Append(t.toServer[c], m) /\ fd \notin t.hung
  <2> DEFINE q == t.toServer[c]
             w == Append(q, m)
  <2>1. IsSeq(q) /\ q # <<>> /\ Head(q) # HeartBeat
    BY <1>3 DEF Worth
  <2> HIDE DEF q
  <2>2. Len(q) \in Nat \ {0} /\ Head(q) = q[1]
    BY <2>1, TailedSeq
  <2>3. /\ IsSeq(w) /\ Len(w) = Len(q) + 1
        /\ \A k \in 1..Len(q) : w[k] = q[k]
    BY <2>1, AppendedSeq
  <2> HIDE DEF w
  <2>4. w # <<>>
    BY <2>2, <2>3, NothingIsSeq
  <2>5. Head(w) = w[1]
    BY <2>3, <2>4, TailedSeq
  <2>6. 1 \in 1..Len(q)
    BY <2>2
  <2>7. Head(w) # HeartBeat
    BY <2>1, <2>2, <2>3, <2>5, <2>6
  <2>8. u.toServer[fd] = w
    BY <1>3 DEF w, q
  <2> QED BY <1>3, <2>4, <2>7, <2>8 DEF Worth
<1> QED BY <1>1, <1>2, <1>3

LEMMA ReadConverses ==
  ASSUME SInv, NEW c \in Clients, Read(c), IInv'
  PROVE  SInv'
<1>1. /\ Sound(s) /\ Plain(s) /\ Beating(s, asked) /\ DOMAIN s = Fields
      /\ asked # None => at = "beat" /\ asked \notin beats
      /\ at = "beat" => ~s.in_progress
      /\ at # "beat" => Told(s)
      /\ InStep(s, at, beats, asked)
      /\ at # "poll" => Worths(s, backlog, Reached(at, i))
  BY Conversing DEF Sound
<1> DEFINE q == s.toClient[c]
           m == Head(q)
           answers == IF m = HeartBeat THEN Append(s.toServer[c], m) ELSE s.toServer[c]
<1>2. /\ c \in s.online \ s.hung /\ q # <<>> /\ SameRound(s, s')
      /\ s'.pfds = s.pfds
      /\ s'.online = s.online /\ s'.hung = s.hung /\ s'.crossed = s.crossed
      /\ s'.toServer = [s.toServer EXCEPT ![c] = answers]
      /\ s'.toClient = [s.toClient EXCEPT ![c] = Tail(q)]
      /\ s'.view = [s.view EXCEPT ![c] = Show(s.view[c], m)]
      /\ UNCHANGED <<backlog, at, i, beats, asked>>
  BY <1>1 DEF Read, Fields, SameRound
<1>3. IsSeq(q) /\ IsSeq(s.toServer[c]) /\ s.toServer[c] \in Seq(ToServer)
  BY <1>1, InFlight DEF Plain
<1>4. answers \in Seq(ToServer)
  BY <1>3 DEF ToServer
<1>5. m = Head(s.toClient[c]) /\ (m = HeartBeat => answers = Append(s.toServer[c], HeartBeat))
      /\ (m # HeartBeat => answers = s.toServer[c]) /\ q = s.toClient[c]
  OBVIOUS
<1> HIDE DEF q, m, answers
<1>6. \A d \in Clients : /\ s'.toServer[d] = IF d = c THEN answers ELSE s.toServer[d]
                         /\ s'.toClient[d] = IF d = c THEN Tail(q) ELSE s.toClient[d]
                         /\ s'.view[d] = IF d = c THEN Show(s.view[c], m) ELSE s.view[d]
  <2>1. \A d \in Clients : s'.toServer[d] = IF d = c THEN answers ELSE s.toServer[d]
    BY <1>1, <1>2 DEF Plain
  <2>2. \A d \in Clients : s'.toClient[d] = IF d = c THEN Tail(q) ELSE s.toClient[d]
    <3>1. c \in DOMAIN s.toClient /\ DOMAIN s.toClient = Clients
      BY <1>1, Zenon DEF Plain
    <3> QED BY <1>2, <3>1
  <2>3. \A d \in Clients : s'.view[d] = IF d = c THEN Show(s.view[c], m) ELSE s.view[d]
    <3>1. c \in DOMAIN s.view /\ DOMAIN s.view = Clients
      BY <1>1, Zenon DEF Plain
    <3> QED BY <1>2, <3>1
  <2> QED BY <2>1, <2>2, <2>3
<1>7. /\ DOMAIN s.view[c] = View /\ DOMAIN Show(s.view[c], m) = View
      /\ \A r : Tells(q, s.view[c].role, r) => Tells(Tail(q), Show(s.view[c], m).role, r)
  <2>1. DOMAIN s.view[c] = View
    BY <1>1 DEF Plain
  <2>2. DOMAIN Show(s.view[c], m) = View
    <3>1. Tells(q, s.view[c].role, RoleOf(s, c)) => DOMAIN Show(s.view[c], m) = View
      BY <1>2, <1>3, <1>5, <2>1, TellsReader
    <3>2. DOMAIN [s.view[c] EXCEPT !.canvas = ToggleAll(@, m.diffs)] = View
      BY <2>1
    <3> QED BY <2>1, <3>2 DEF Show, View, Blank
  <2>3. \A r : Tells(q, s.view[c].role, r) => Tells(Tail(q), Show(s.view[c], m).role, r)
    BY <1>2, <1>3, <1>5, <2>1, TellsReader
  <2> QED BY <2>1, <2>2, <2>3
<1>8. s.online \subseteq Clients /\ s.hung \subseteq s.online
  BY <1>1, OnlineAreClients
<1>9. Sound(s')
  <2>1. Good(s') /\ CleanBeyond(s'.pfds)
    BY <1>1, <1>2 DEF IInv, Sound
  <2>2. s'.toClient = [d \in Clients |-> s'.toClient[d]]
    BY <1>1, <1>2 DEF Plain
  <2>3. s'.view = [d \in Clients |-> s'.view[d]]
    BY <1>1, <1>2 DEF Plain
  <2>4. \A d \in Clients : IsSeq(s'.toClient[d]) /\ DOMAIN s'.view[d] = View
    BY <1>1, <1>2, <1>3, <1>6, <1>7, TailedSeq DEF Plain
  <2>5. \A d \in Clients \ s'.online :
          s'.toServer[d] = <<>> /\ s'.toClient[d] = <<>> /\ s'.view[d] = Blank
    BY <1>1, <1>2, <1>6 DEF Plain
  <2>6. \A d \in s'.hung : s'.toClient[d] = <<>> /\ s'.view[d] = Blank
    BY <1>1, <1>2, <1>6, <1>8 DEF Plain
  <2>7. s'.toServer \in [Clients -> Seq(ToServer)]
    BY <1>1, <1>2, <1>4 DEF Plain
  <2>8. Plain(s')
    BY <1>1, <1>2, <2>2, <2>3, <2>4, <2>5, <2>6, <2>7 DEF Plain
  <2> QED BY <2>1, <2>8 DEF Sound
<1>10. /\ OneBeat(s, c) /\ (c # asked => NoBeat(s, c))
       /\ m = HeartBeat => c = asked
  <2>1. OneBeat(s, c) /\ (c # asked => NoBeat(s, c))
    BY <1>1 DEF Beating
  <2>2. Beatless(q) => m # HeartBeat
    BY <1>2, <1>3, <1>5, BeatsTailed
  <2> QED BY <1>5, <2>1, <2>2 DEF NoBeat
<1>11. Beating(s', asked)
  <2> SUFFICES ASSUME NEW d \in Clients
               PROVE  OneBeat(s', d) /\ (d # asked => NoBeat(s', d))
    BY DEF Beating
  <2>1. CASE d # c
    <3>1. s'.toServer[d] = s.toServer[d] /\ s'.toClient[d] = s.toClient[d]
      BY <1>6, <2>1
    <3> QED BY <1>1, <3>1 DEF Beating, OneBeat, NoBeat
  <2>2. CASE d = c /\ m # HeartBeat
    <3>1. s'.toServer[d] = s.toServer[d] /\ s'.toClient[d] = Tail(q)
      BY <1>5, <1>6, <2>2
    <3>2. (Beatless(q) => Beatless(Tail(q))) /\ (BeatOnce(q) => BeatOnce(Tail(q)))
      BY <1>2, <1>3, BeatsTailed
    <3> QED BY <1>5, <1>10, <2>2, <3>1, <3>2 DEF OneBeat, NoBeat
  <2>3. CASE d = c /\ m = HeartBeat
    <3>1. s'.toServer[d] = Append(s.toServer[c], HeartBeat) /\ s'.toClient[d] = Tail(q)
      BY <1>5, <1>6, <2>3
    <3>2. ~Beatless(q) /\ BeatOnce(q) /\ Beatless(s.toServer[c])
      BY <1>2, <1>3, <1>5, <1>10, <2>3, BeatsTailed DEF OneBeat
    <3>3. Beatless(Tail(q))
      BY <1>2, <1>3, <1>5, <2>3, <3>2, BeatsTailed
    <3>4. BeatOnce(Append(s.toServer[c], HeartBeat))
      BY <1>3, <3>2, BeatAppended
    <3> QED BY <1>10, <2>3, <3>1, <3>3, <3>4, BeatlessIsOnce DEF OneBeat
  <2> QED BY <2>1, <2>2, <2>3
<1>12. at # "beat" => Told(s')
  <2>1. ASSUME Told(s), NEW d \in s'.online \ s'.hung
        PROVE  Tells(s'.toClient[d], s'.view[d].role, RoleOf(s', d))
    <3>1. /\ d \in s.online \ s.hung /\ d \in Clients /\ RoleOf(s', d) = RoleOf(s, d)
      BY <1>2, <1>8, <2>1 DEF SameRound, RoleOf
    <3>2. Tells(s.toClient[d], s.view[d].role, RoleOf(s, d))
      BY <2>1, <3>1 DEF Told
    <3>3. CASE d = c
      <4>1. Tells(Tail(q), Show(s.view[c], m).role, RoleOf(s, c))
        BY <1>5, <1>7, <3>2, <3>3
      <4> QED BY <1>6, <3>1, <3>3, <4>1
    <3>4. CASE d # c
      BY <1>6, <3>1, <3>2, <3>4
    <3> QED BY <3>3, <3>4
  <2> QED BY <1>1, <2>1 DEF Told
<1>13. InStep(s', at, beats, asked)
  <2> SUFFICES ASSUME NEW d \in s'.online \ (s'.hung \cup s'.crossed)
               PROVE  IF at = "beat" THEN d \notin beats => OnlyAnswers(s', d, asked)
                      ELSE Fits(s', d)
    BY DEF InStep
  <2>1. /\ d \in s.online \ (s.hung \cup s.crossed) /\ d \in Clients
        /\ IF at = "beat" THEN d \notin beats => OnlyAnswers(s, d, asked) ELSE Fits(s, d)
    BY <1>1, <1>2, <1>8 DEF InStep
  <2>2. CASE s'.toServer[d] = s.toServer[d]
    BY <1>2, <2>1, <2>2 DEF Fits, OnlyAnswers, SameRound
  <2>3. CASE s'.toServer[d] # s.toServer[d]
    <3>1. d = c /\ m = HeartBeat /\ s'.toServer[d] = Append(s.toServer[c], HeartBeat)
      BY <1>5, <1>6, <2>1, <2>3
    <3>2. c = asked /\ at = "beat" /\ asked \notin beats
      <4>1. c # None
        BY SessionAssumption
      <4> QED BY <1>1, <1>10, <3>1, <4>1
    <3>3. OnlyAnswers(s, d, asked)
      BY <2>1, <3>1, <3>2
    <3>4. /\ Len(s.toServer[c]) \in Nat
          /\ Len(s'.toServer[d]) = Len(s.toServer[c]) + 1
          /\ \A k \in 1..Len(s.toServer[c]) : s'.toServer[d][k] = s.toServer[c][k]
          /\ s'.toServer[d][Len(s.toServer[c]) + 1] = HeartBeat
      BY <1>3, <3>1, AppendedSeq
    <3>5. ASSUME NEW k \in 1..Len(s'.toServer[d]) PROVE s'.toServer[d][k] = HeartBeat /\ d = asked
      <4>1. CASE k = Len(s.toServer[c]) + 1
        BY <3>1, <3>2, <3>4, <4>1
      <4>2. CASE k # Len(s.toServer[c]) + 1
        <5>1. k \in 1..Len(s.toServer[c])
          BY <3>4, <4>2
        <5> QED BY <3>1, <3>3, <3>4, <5>1 DEF OnlyAnswers
      <4> QED BY <4>1, <4>2
    <3>6. OnlyAnswers(s', d, asked)
      BY <3>5 DEF OnlyAnswers
    <3> QED BY <3>2, <3>6
  <2> QED BY <2>2, <2>3
<1>14. ASSUME NEW fd \in Clients \cup {Listener}, Worth(s, backlog, fd)
       PROVE  Worth(s', backlog, fd)
  <2>1. \A d \in Clients : IsSeq(s.toServer[d])
    BY <1>1, InFlight
  <2>2. s'.toServer[c] = Append(s.toServer[c], HeartBeat) \/ s'.toServer[c] = s.toServer[c]
    BY <1>5, <1>6
  <2>3. \A d \in Clients : d # c => s'.toServer[d] = s.toServer[d]
    BY <1>6
  <2> QED BY <1>2, <1>14, <2>1, <2>2, <2>3, WorthAppended
<1>15. at # "poll" => Worths(s', backlog, Reached(at, i))
  <2>1. \A k \in 1..s.pfds.fd_count : s.pfds.slots[k].fd \in Clients \cup {Listener}
    BY <1>1, <1>8, ExactlyInParts DEF Sound, Good
  <2> QED BY <1>1, <1>2, <1>14, <2>1 DEF Worths
<1> QED BY <1>1, <1>2, <1>9, <1>11, <1>12, <1>13, <1>15 DEF SInv, SameRound

LEMMA PlayConverses ==
  ASSUME SInv, NEW c \in Clients, Play(c), IInv'
  PROVE  SInv'
<1>1. /\ Sound(s) /\ Plain(s) /\ Beating(s, asked) /\ DOMAIN s = Fields
      /\ asked # None => at = "beat" /\ asked \notin beats
      /\ at = "beat" => ~s.in_progress
      /\ at # "beat" => Told(s)
      /\ InStep(s, at, beats, asked)
      /\ at # "poll" => Worths(s, backlog, Reached(at, i))
  BY Conversing DEF Sound
<1>2. PICK m \in IF s.view[c].role = "draw" THEN {Drawing(d) : d \in Strokes} ELSE {Chat} :
        s' = [s EXCEPT
                !.toServer[c] = Append(@, m),
                !.view[c].canvas = IF m = Chat THEN @ ELSE ToggleAll(@, Accepted(m.diffs)),
                !.crossed = IF RoundIsEndingFor(c) THEN @ \cup {c} ELSE @]
  BY DEF Play
<1>3. /\ m \in ToServer /\ m # HeartBeat
      /\ m.flag = IF s.view[c].role = "draw" THEN "CANVAS" ELSE "CHAT"
  BY DEF ToServer, Drawing, Chat, HeartBeat
<1> DEFINE shown == [s.view[c] EXCEPT !.canvas =
                       IF m = Chat THEN @ ELSE ToggleAll(@, Accepted(m.diffs))]
           sent == Append(s.toServer[c], m)
<1>4. /\ c \in s.online \ s.hung /\ SameRound(s, s')
      /\ s'.pfds = s.pfds
      /\ s'.online = s.online /\ s'.hung = s.hung
      /\ s'.crossed = IF RoundIsEndingFor(c) THEN s.crossed \cup {c} ELSE s.crossed
      /\ s'.toServer = [s.toServer EXCEPT ![c] = sent]
      /\ s'.toClient = s.toClient
      /\ s'.view = [s.view EXCEPT ![c] = shown]
      /\ s.view[c].role # "idle"
      /\ GameEnds \in ToSet(s.toClient[c]) \/ s.phase # "countdown"
      /\ UNCHANGED <<backlog, at, i, beats, asked>>
  BY <1>1, <1>2 DEF Play, Fields, SameRound
<1>5. /\ IsSeq(s.toServer[c]) /\ s.toServer[c] \in Seq(ToServer) /\ IsSeq(s.toClient[c])
      /\ DOMAIN s.view[c] = View
  BY <1>1, InFlight DEF Plain
<1>6. DOMAIN shown = View /\ shown.role = s.view[c].role
  BY <1>5 DEF View
<1>7. sent \in Seq(ToServer) /\ sent = Append(s.toServer[c], m)
  BY <1>3, <1>5
<1> HIDE DEF sent, shown
<1>8. \A d \in Clients : /\ s'.toServer[d] = IF d = c THEN sent ELSE s.toServer[d]
                         /\ s'.view[d] = IF d = c THEN shown ELSE s.view[d]
  <2>1. \A d \in Clients : s'.toServer[d] = IF d = c THEN sent ELSE s.toServer[d]
    BY <1>1, <1>4 DEF Plain
  <2>2. \A d \in Clients : s'.view[d] = IF d = c THEN shown ELSE s.view[d]
    <3>1. c \in DOMAIN s.view /\ DOMAIN s.view = Clients
      BY <1>1, Zenon DEF Plain
    <3> QED BY <1>4, <3>1
  <2> QED BY <2>1, <2>2
<1>9. s.online \subseteq Clients /\ s.hung \subseteq s.online
  BY <1>1, OnlineAreClients
<1>10. Sound(s')
  <2>1. Good(s') /\ CleanBeyond(s'.pfds)
    BY <1>1, <1>4 DEF IInv, Sound
  <2>2. s'.view = [d \in Clients |-> s'.view[d]]
    BY <1>1, <1>4 DEF Plain
  <2>3. \A d \in Clients : IsSeq(s'.toClient[d]) /\ DOMAIN s'.view[d] = View
    BY <1>1, <1>4, <1>6, <1>8 DEF Plain
  <2>4. \A d \in Clients \ s'.online :
          s'.toServer[d] = <<>> /\ s'.toClient[d] = <<>> /\ s'.view[d] = Blank
    BY <1>1, <1>4, <1>8 DEF Plain
  <2>5. \A d \in s'.hung : s'.toClient[d] = <<>> /\ s'.view[d] = Blank
    BY <1>1, <1>4, <1>8, <1>9 DEF Plain
  <2>6. s'.toServer \in [Clients -> Seq(ToServer)]
    BY <1>1, <1>4, <1>7 DEF Plain
  <2>7. s'.crossed \subseteq s'.online
    BY <1>1, <1>4 DEF Plain
  <2>8. s'.toClient = [d \in Clients |-> s'.toClient[d]] /\ s'.hung \subseteq s'.online
    BY <1>1, <1>4 DEF Plain
  <2>9. Plain(s')
    BY <2>2, <2>3, <2>4, <2>5, <2>6, <2>7, <2>8 DEF Plain
  <2> QED BY <2>1, <2>9 DEF Sound
<1>11. Beating(s', asked)
  <2> SUFFICES ASSUME NEW d \in Clients
               PROVE  OneBeat(s', d) /\ (d # asked => NoBeat(s', d))
    BY DEF Beating
  <2>1. OneBeat(s, d) /\ (d # asked => NoBeat(s, d)) /\ s'.toClient[d] = s.toClient[d]
    BY <1>1, <1>4 DEF Beating
  <2>2. CASE d # c
    <3>1. s'.toServer[d] = s.toServer[d]
      BY <1>8, <2>2
    <3> QED BY <2>1, <3>1 DEF OneBeat, NoBeat
  <2>3. CASE d = c
    <3>1. s'.toServer[d] = Append(s.toServer[c], m)
      BY <1>7, <1>8, <2>3
    <3>2. Extends(s.toServer[c], Append(s.toServer[c], m)) /\ IsSeq(Append(s.toServer[c], m))
      BY <1>3, <1>5, ExtendsByOne, AppendedSeq
    <3>3. /\ Beatless(s.toServer[c]) => Beatless(Append(s.toServer[c], m))
          /\ BeatOnce(s.toServer[c]) => BeatOnce(Append(s.toServer[c], m))
      BY <1>5, <3>2, BeatsExtended
    <3> QED BY <2>1, <2>3, <3>1, <3>3 DEF OneBeat, NoBeat
  <2> QED BY <2>2, <2>3
<1>12. at # "beat" => Told(s')
  <2>1. ASSUME Told(s), NEW d \in s'.online \ s'.hung
        PROVE  Tells(s'.toClient[d], s'.view[d].role, RoleOf(s', d))
    <3>1. /\ d \in s.online \ s.hung /\ d \in Clients /\ RoleOf(s', d) = RoleOf(s, d)
          /\ s'.toClient[d] = s.toClient[d] /\ s'.view[d].role = s.view[d].role
      BY <1>4, <1>6, <1>8, <1>9, <2>1 DEF SameRound, RoleOf
    <3> QED BY <2>1, <3>1 DEF Told
  <2> QED BY <1>1, <2>1 DEF Told
\* Unless the round is ending, the message fits it: the role shown is that of the round.
<1>13. ASSUME at # "beat", ~RoundIsEndingFor(c)
       PROVE  /\ s.in_progress /\ s.phase # "countdown"
              /\ m.flag = (IF c = s.drawer THEN "CANVAS" ELSE "CHAT")
  <2>1. GameEnds \notin ToSet(s.toClient[c])
    BY <1>13 DEF RoundIsEndingFor
  <2>2. \A k \in 1..Len(s.toClient[c]) : s.toClient[c][k] # GameEnds
    <3>1. PICK S : s.toClient[c] \in Seq(S)
      BY <1>5 DEF IsSeq
    <3> QED BY <2>1, <3>1 DEF ToSet
  <2>3. s.view[c].role \in {"idle", RoleOf(s, c)}
    BY <1>1, <1>4, <1>13, <2>2 DEF Told, Tells
  <2>4. s.view[c].role = RoleOf(s, c) /\ RoleOf(s, c) # "idle"
    BY <1>4, <2>3
  <2> QED BY <1>3, <1>4, <2>1, <2>4 DEF RoleOf
<1>14. InStep(s', at, beats, asked)
  <2> SUFFICES ASSUME NEW d \in s'.online \ (s'.hung \cup s'.crossed)
               PROVE  IF at = "beat" THEN d \notin beats => OnlyAnswers(s', d, asked)
                      ELSE Fits(s', d)
    BY DEF InStep
  <2>1. /\ d \in s.online \ (s.hung \cup s.crossed) /\ d \in Clients
        /\ IF at = "beat" THEN d \notin beats => OnlyAnswers(s, d, asked) ELSE Fits(s, d)
    BY <1>1, <1>4, <1>9 DEF InStep
  <2>2. CASE d # c
    <3>1. s'.toServer[d] = s.toServer[d]
      BY <1>8, <2>1, <2>2
    <3> QED BY <1>4, <2>1, <3>1 DEF Fits, OnlyAnswers, SameRound
  <2>3. CASE d = c
    <3>1. ~RoundIsEndingFor(c)
      BY <1>4, <2>3
    <3>2. CASE at = "beat"
      BY <2>3, <3>1, <3>2 DEF RoundIsEndingFor
    <3>3. CASE at # "beat"
      <4>1. /\ Len(s.toServer[c]) \in Nat /\ Len(sent) = Len(s.toServer[c]) + 1
            /\ \A k \in 1..Len(s.toServer[c]) : sent[k] = s.toServer[c][k]
            /\ sent[Len(s.toServer[c]) + 1] = m
        BY <1>5, <1>7, AppendedSeq
      <4>2. /\ s.in_progress /\ s.phase # "countdown"
            /\ m.flag = (IF c = s.drawer THEN "CANVAS" ELSE "CHAT")
        BY <1>13, <3>1, <3>3
      <4>3. Fits(s, c) /\ s'.toServer[c] = sent
        BY <1>8, <2>1, <2>3, <3>3
      <4>4. ASSUME NEW k \in 1..Len(sent)
            PROVE  sent[k].flag = (IF c = s.drawer THEN "CANVAS" ELSE "CHAT")
        <5>1. CASE k = Len(s.toServer[c]) + 1
          BY <4>1, <4>2, <5>1
        <5>2. CASE k # Len(s.toServer[c]) + 1
          <6>1. k \in 1..Len(s.toServer[c])
            BY <4>1, <5>2
          <6> QED BY <4>1, <4>3, <6>1 DEF Fits
        <5> QED BY <5>1, <5>2
      <4>5. Fits(s', c)
        BY <1>4, <4>2, <4>3, <4>4 DEF Fits, SameRound
      <4> QED BY <2>3, <3>3, <4>5
    <3> QED BY <3>2, <3>3
  <2> QED BY <2>2, <2>3
<1>15. ASSUME NEW fd \in Clients \cup {Listener}, Worth(s, backlog, fd)
       PROVE  Worth(s', backlog, fd)
  <2>1. \A d \in Clients : IsSeq(s.toServer[d])
    BY <1>1, InFlight
  <2>2. s'.toServer[c] = Append(s.toServer[c], m)
    BY <1>7, <1>8
  <2>3. \A d \in Clients : d # c => s'.toServer[d] = s.toServer[d]
    BY <1>8
  <2> QED BY <1>4, <1>15, <2>1, <2>2, <2>3, WorthAppended
<1>16. at # "poll" => Worths(s', backlog, Reached(at, i))
  <2>1. \A k \in 1..s.pfds.fd_count : s.pfds.slots[k].fd \in Clients \cup {Listener}
    BY <1>1, <1>9, ExactlyInParts DEF Sound, Good
  <2> QED BY <1>1, <1>4, <1>15, <2>1 DEF Worths
<1> QED BY <1>1, <1>4, <1>10, <1>11, <1>12, <1>14, <1>16 DEF SInv, SameRound

-----------------------------------------------------------------------------
(* The theorems *)

LEMMA StepConverses == SInv /\ [Next]_vars => SInv'
<1> SUFFICES ASSUME SInv, [Next]_vars PROVE SInv'
  OBVIOUS
<1>1. IInv'
  BY StepIsGood DEF SInv
<1>2. CASE UNCHANGED vars
  <2>1. UNCHANGED <<s, backlog, at, i, beats, asked>>
    BY <1>2 DEF vars
  <2> QED BY <1>1, <2>1 DEF SInv
<1>3. CASE Server
  <2>1. ASSUME NEW c \in Clients, Beat(c) PROVE SInv'
    BY <1>1, <2>1, BeatConverses
  <2> QED BY <1>1, <1>3, <2>1, PollConverses, SkipRoundConverses, EndRoundConverses,
             AnswerConverses, FinishRoundConverses, SkipEntryConverses, AcceptConverses,
             ReceiveConverses, EndWalkConverses DEF Server
<1>4. CASE Tick
  BY <1>1, <1>4, TickConverses
<1>5. ASSUME NEW c \in Clients, Dial(c) \/ HangUp(c) \/ Read(c) \/ Play(c) PROVE SInv'
  BY <1>1, <1>5, DialConverses, HangUpConverses, ReadConverses, PlayConverses
<1> QED BY <1>2, <1>3, <1>4, <1>5 DEF Next

LEMMA Converses == Spec => []SInv
BY InitConverses, StepConverses, PTL DEF Spec

\* What poll has found to read is there when the loop gets to it, for every number of
\* clients and messages: a heartbeat is never waiting when poll looks, and a removal in
\* between moves entries only towards the start.
THEOREM LoopReadsWhatIsThere == Spec => []NoBlindReceive
<1>1. SInv => NoBlindReceive
  <2> SUFFICES ASSUME SInv, at \in {"rounds", "walk"}, NEW k \in 1..s.pfds.fd_count,
                      at = "rounds" \/ k >= i, s.pfds.slots[k].revents = "POLLIN"
               PROVE  s.pfds.slots[k].fd \in ReadableFds
    BY DEF NoBlindReceive
  <2>1. /\ Sound(s) /\ i \in Nat \ {0} /\ s.pfds.fd_count \in Nat
        /\ Worths(s, backlog, Reached(at, i))
    BY Conversing, Entries
  <2>2. k >= Reached(at, i)
    BY <2>1 DEF Reached
  <2>3. Worth(s, backlog, s.pfds.slots[k].fd)
    BY <2>1, <2>2 DEF Worths
  <2>4. s.pfds.slots[k].fd \in s.online \cup {Listener}
    BY <2>1, ExactlyInParts DEF Sound, Good
  <2> QED BY <2>3, <2>4 DEF Worth, ReadableFds
<1> QED BY <1>1, Converses, PTL

\* Who is lost in a step had hung up, or has given the reason.
LostForAReason ==
  \A c \in s.online \ s.hung :
    c \notin s'.online => c \in s.crossed \/ SentOutOfRange(c) \/ MetJunk(c)

LEMMA ReceiveLoses ==
  ASSUME SInv, Receive
  PROVE  LostForAReason
<1>1. /\ Sound(s) /\ Good(s) /\ i \in Nat \ {0}
      /\ at # "beat" => Told(s)
      /\ InStep(s, at, beats, asked)
      /\ at # "poll" => Worths(s, backlog, Reached(at, i))
  BY Conversing
<1> DEFINE c == Entry.fd
<1>2. /\ at = "walk" /\ Walking /\ c # Listener /\ s' \in readable(s, c)
      /\ Entry.revents # "none"
  BY DEF Receive, Walking
<1>3. c \in Clients /\ i \in 1..s.pfds.fd_count
  BY <1>1, <1>2, EntryIsOnce, OnlineAreClients
<1>4. c = Entry.fd
  OBVIOUS
<1> HIDE DEF c
<1>5. \/ Frame(s, s', IF Regular(s, c) THEN {} ELSE {c})
      \/ /\ s.toServer[c] # <<>>
         /\ Frame(Received(s, c), s', IF Regular(s, c) THEN {} ELSE {c})
  BY <1>1, <1>2, <1>3, ReadableFrame
<1>6. s.online \ s'.online \subseteq s.hung \cup (IF Regular(s, c) THEN {} ELSE {c})
  <2>1. CASE Frame(s, s', IF Regular(s, c) THEN {} ELSE {c})
    BY <2>1 DEF Frame
  <2>2. CASE /\ s.toServer[c] # <<>>
             /\ Frame(Received(s, c), s', IF Regular(s, c) THEN {} ELSE {c})
    <3> DEFINE t == Received(s, c)
    <3>1. IsReceived(s, c, t)
      BY <1>1, <1>3, <2>2, ReceivedSound
    <3> HIDE DEF t
    <3>2. Frame(t, s', IF Regular(s, c) THEN {} ELSE {c})
      BY <2>2 DEF t
    <3> QED BY <3>1, <3>2 DEF IsReceived, Frame
  <2> QED BY <1>5, <2>1, <2>2
<1>7. ASSUME ~Regular(s, c), c \in s.online \ s.hung
      PROVE  c \in s.crossed \/ SentOutOfRange(c) \/ MetJunk(c)
  <2>1. Entry \in Slots(Clients \cup {Listener})
    <3>1. /\ s.pfds.slots \in Seq(Slots(Clients \cup {Listener}))
          /\ s.pfds.fd_count \in 0..Len(s.pfds.slots)
      BY <1>1 DEF Good, IsPollSet, Slots
    <3> QED BY <1>3, <3>1 DEF Entry
  <2>2. CASE Entry.revents = "junk"
    <3>1. Entry = [fd |-> Entry.fd, revents |-> Entry.revents]
      BY <2>1 DEF Slots
    <3> QED BY <1>2, <1>4, <2>2, <3>1 DEF MetJunk
  <2>3. CASE Entry.revents = "POLLIN" /\ c \notin s.crossed
    <3> DEFINE q == s.toServer[c]
    <3>1. Worth(s, backlog, c)
      BY <1>1, <1>2, <1>3, <1>4, <2>3 DEF Worths, Reached, Entry
    <3>2. q # <<>> /\ IsSeq(q)
      BY <1>1, <1>2, <1>3, <1>7, <3>1, InFlight DEF Worth
    <3>3. 1 \in 1..Len(q) /\ Head(q) = q[1]
      BY <3>2, TailedSeq
    <3>4. Fits(s, c)
      BY <1>1, <1>2, <1>7, <2>3 DEF InStep
    <3>5. /\ s.in_progress /\ s.phase # "countdown"
          /\ Head(q).flag = (IF c = s.drawer THEN "CANVAS" ELSE "CHAT")
      BY <3>3, <3>4 DEF Fits
    <3>6. c = s.drawer /\ Accepted(Head(q).diffs) # Head(q).diffs
      BY <1>7, <3>2, <3>5 DEF Regular
    <3> QED BY <3>2, <3>5, <3>6 DEF SentOutOfRange
  <2>4. Entry.revents \in {"none", "POLLIN", "junk"}
    BY <2>1 DEF Slots, Revents
  <2> QED BY <1>2, <2>2, <2>3, <2>4
<1> QED BY <1>6, <1>7 DEF LostForAReason

LEMMA StepLoses ==
  ASSUME SInv, [Next]_vars
  PROVE  LostForAReason
<1>1. /\ Sound(s) /\ DOMAIN s = Fields /\ asked \in Clients \cup {None}
      /\ asked # None => asked \notin beats
      /\ at = "beat" => ~s.in_progress
      /\ at # "beat" => Told(s)
      /\ InStep(s, at, beats, asked)
  BY Conversing
<1>2. ASSUME s'.online = s.online PROVE LostForAReason
  BY <1>2 DEF LostForAReason
<1>3. ASSUME NEW L, Frame(s, s', L), \A c \in L : c \in s.online => c \in s.hung \cup s.crossed
      PROVE  LostForAReason
  BY <1>3 DEF Frame, LostForAReason
<1>4. CASE UNCHANGED vars \/ SkipRound \/ SkipEntry \/ EndWalk \/ (\E c \in Clients : Dial(c))
  BY <1>2, <1>4 DEF vars, SkipRound, SkipEntry, EndWalk, Dial
<1>5. CASE Poll \/ EndRound \/ Tick
  <2>1. s'.online = s.online
    BY <1>1, <1>5 DEF Poll, EndRound, Tick, Fields
  <2> QED BY <1>2, <2>1
<1>6. ASSUME NEW c \in Clients, HangUp(c) \/ Read(c) \/ Play(c) PROVE LostForAReason
  <2>1. s'.online = s.online
    BY <1>1, <1>6 DEF HangUp, Read, Play, Fields
  <2> QED BY <1>2, <2>1
<1>7. ASSUME NEW c \in Clients, Beat(c) PROVE LostForAReason
  <2>1. CASE /\ c \in s.online
             /\ s' = [Send(s, {c}, HeartBeat) EXCEPT
                        !.crossed = IF s.toServer[c] = <<>> THEN @ ELSE @ \cup {c}]
    <3> DEFINE u == Send(s, {c}, HeartBeat)
    <3>1. {c} \subseteq s.online
      BY <2>1
    <3>2. DOMAIN u = Fields /\ u.online = s.online
      BY <1>1 DEF Send, Fields
    <3> HIDE DEF u
    <3>3. s'.online = s.online
      BY <2>1, <3>2 DEF Fields, u
    <3> QED BY <1>2, <3>3
  <2>2. CASE c \in s.hung /\ s' \in remove_player_from_server(s, c)
    <3>1. Frame(s, s', {c})
      BY <1>1, <2>2, RemovalLoses DEF Loses
    <3> QED BY <1>3, <2>2, <3>1
  <2>3. CASE UNCHANGED s
    BY <1>2, <2>3
  <2> QED BY <1>7, <2>1, <2>2, <2>3 DEF Beat
\* A player asked that has not crossed the end has nothing but the answer on its way.
<1>8. CASE Answer
  <2>1. asked \in Clients /\ at = "beat"
    BY <1>1, <1>8 DEF Answer
  <2>2. CASE s' = [s EXCEPT !.toServer[asked] = Tail(@)]
    <3>1. s'.online = s.online
      BY <1>1, <2>2 DEF Fields
    <3> QED BY <1>2, <3>1
  <2>3. CASE /\ s.toServer[asked] # <<>>
             /\ ~IsAnswer(Head(s.toServer[asked]))
             /\ s' \in remove_player_from_server(s, asked)
    <3> DEFINE q == s.toServer[asked]
    <3>1. Frame(s, s', {asked})
      BY <1>1, <2>1, <2>3, RemovalLoses DEF Loses
    <3>2. IsSeq(q) /\ q # <<>>
      BY <1>1, <2>1, <2>3, InFlight
    <3>3. 1 \in 1..Len(q) /\ Head(q) = q[1]
      BY <3>2, TailedSeq
    <3>4. Head(q) # HeartBeat
      BY <2>3 DEF IsAnswer, HeartBeat
    <3>5. ~OnlyAnswers(s, asked, asked)
      BY <3>3, <3>4 DEF OnlyAnswers
    <3>6. asked \in s.online => asked \in s.hung \cup s.crossed
      BY <1>1, <2>1, <3>5, SessionAssumption DEF InStep
    <3> QED BY <1>3, <3>1, <3>6
  <2>4. CASE asked \in s.hung /\ s' \in remove_player_from_server(s, asked)
    <3>1. Frame(s, s', {asked})
      BY <1>1, <2>1, <2>4, RemovalLoses DEF Loses
    <3> QED BY <1>3, <2>4, <3>1
  <2> QED BY <1>8, <2>2, <2>3, <2>4 DEF Answer
<1>9. CASE FinishRound
  <2>1. Frame(s, s', {})
    BY <1>1, <1>9, FinishFrame DEF FinishRound
  <2> QED BY <1>3, <2>1
<1>10. CASE Accept
  <2>1. CASE s' = s
    BY <1>2, <2>1
  <2>2. CASE s' \in join(s, Head(backlog))
    <3> DEFINE c == Head(backlog)
               polled == Polling(s, c)
    <3>1. c \in Clients /\ c \notin s.online /\ at # "beat"
      BY <1>10, AcceptedLeaves DEF SInv, IInv, Accept, Walking
    <3>2. polled = Polling(s, c) /\ s' \in join(s, c)
      BY <2>2
    <3> HIDE DEF c, polled
    <3>3. polled.online = s.online \cup {c} /\ polled.hung = s.hung
      BY <1>1, <3>1, <3>2, PollingSound
    <3>4. Frame(polled, s', {})
      BY <1>1, <3>1, <3>2, JoinFrame
    <3>5. s.online \ s'.online \subseteq s.hung
      BY <3>3, <3>4 DEF Frame
    <3> QED BY <3>5 DEF LostForAReason
  <2> QED BY <1>10, <2>1, <2>2 DEF Accept
<1>11. CASE Receive
  BY <1>11, ReceiveLoses
<1> QED BY <1>4, <1>5, <1>6, <1>7, <1>8, <1>9, <1>10, <1>11, Zenon DEF Next, Server

\* A client that reads, answers and keeps to its role is removed only for one of the three
\* reasons, whatever the others do and however its messages are delayed.
THEOREM RemovalsHaveReasons == Spec => RemovedForAReason
<1>1. SInv /\ [Next]_vars => [\A c \in s.online \ s.hung :
                                c \notin s'.online =>
                                  c \in s.crossed \/ SentOutOfRange(c) \/ MetJunk(c)]_vars
  BY StepLoses DEF LostForAReason
<1> QED BY <1>1, Converses, PTL DEF Spec, RemovedForAReason

-----------------------------------------------------------------------------
(* What clients show, and the canvas: the three folds of Session. *)

\* The indices of the canvas, and what a client may show.
Indices == 0..(CANVAS_SIZE - 1)
Views == [role : Roles, canvas : Canvas]

\* The messages clients are sent: drawings among them are not rejected ones.
Heard == {m \in ToClient : m.flag = "CANVAS" => Accepted(m.diffs) = m.diffs}

\* What indices and messages do, as functions.
Toggles(d) == [k \in 1..Len(d) |-> [x \in Canvas |-> toggle_bit(x, d[k])]]
Strokings(q) == [k \in 1..Len(q) |-> [x \in Canvas |-> Stroke(x, q[k])]]
Showings(q) == [k \in 1..Len(q) |-> [x \in Views |-> Show(x, q[k])]]

\* Where toggling leads from a canvas.
LEMMA TogglesLead ==
  ASSUME NEW canvas \in Canvas, NEW d \in Seq(Indices)
  PROVE  /\ Toggles(d) \in Seq([Canvas -> Canvas]) /\ Len(Toggles(d)) = Len(d)
         /\ Through(Toggles(d), Canvas, canvas, ToggleAll(canvas, d))
<1> DEFINE n == Len(d)
           P(g) == g = [S \in SUBSET (DOMAIN d) |->
                          IF S = {} THEN canvas ELSE toggle_bit(g[S \ {Max(S)}], d[Max(S)])]
<1>1. n \in Nat /\ DOMAIN d = 1..n
  OBVIOUS
<1>2. ASSUME NEW x \in Canvas, NEW k \in 1..n PROVE toggle_bit(x, d[k]) \in Canvas
  <2>1. d[k] \in Indices
    OBVIOUS
  <2> QED BY <2>1 DEF toggle_bit, Canvas, Indices
<1>3. /\ Toggles(d) \in Seq([Canvas -> Canvas]) /\ Len(Toggles(d)) = n
      /\ \A k \in 1..n, x \in Canvas : Toggles(d)[k][x] = toggle_bit(x, d[k])
  BY <1>1, <1>2 DEF Toggles
<1>4. PICK h \in [SUBSET (1..n) -> Canvas] : Iterates(h, Toggles(d), canvas, n)
  BY <1>3, IterationExists
<1>5. P(h)
  <2>1. ASSUME NEW S \in SUBSET (1..n), S # {}
        PROVE  Toggles(d)[Max(S)][h[S \ {Max(S)}]] = toggle_bit(h[S \ {Max(S)}], d[Max(S)])
    <3>1. Max(S) \in 1..n /\ S \ {Max(S)} \in SUBSET (1..n)
      BY <1>1, <2>1, MaxIsGreatest
    <3>2. h[S \ {Max(S)}] \in Canvas
      BY <3>1
    <3> QED BY <1>3, <3>1, <3>2
  <2>2. h = [S \in SUBSET (1..n) |->
               IF S = {} THEN canvas ELSE Toggles(d)[Max(S)][h[S \ {Max(S)}]]]
    BY <1>4 DEF Iterates
  <2> HIDE DEF n
  <2> QED BY <1>1, <2>1, <2>2
<1> DEFINE g == CHOOSE f : P(f)
<1>6. ToggleAll(canvas, d) = g[1..n]
  <2>1. ToggleAll(canvas, d) = g[DOMAIN d]
    BY Zenon DEF ToggleAll, FoldLeft, MapThenFoldSet
  <2> QED BY <1>1, <2>1
<1>7. P(g)
  <2> HIDE DEF P
  <2> QED BY <1>5, Zenon
<1> HIDE DEF g
<1>8. g[{}] = canvas
  BY <1>7
<1>9. ASSUME NEW k \in 1..n, g[1..(k - 1)] \in Canvas
      PROVE  g[1..k] = Toggles(d)[k][g[1..(k - 1)]]
  <2>1. Max(1..k) = k /\ (1..k) \ {k} = 1..(k - 1) /\ 1..k # {} /\ 1..k \in SUBSET (1..n)
    BY <1>1, MaxOfRange
  <2>2. g[1..k] = toggle_bit(g[(1..k) \ {Max(1..k)}], d[Max(1..k)])
    BY <1>1, <1>7, <2>1
  <2>3. g[1..k] = toggle_bit(g[1..(k - 1)], d[k])
    BY <2>1, <2>2
  <2> QED BY <1>3, <1>9, <2>3
<1> HIDE DEF P
<1>10. Through(Toggles(d), Canvas, canvas, g[1..n])
  BY <1>3, <1>8, <1>9, IterationLeads
<1> QED BY <1>3, <1>6, <1>10
\* The canvas stays one, when only indices in range are toggled.
LEMMA ToggledStays ==
  ASSUME NEW canvas \in Canvas, NEW d \in Seq(Indices)
  PROVE  ToggleAll(canvas, d) \in Canvas
<1>1. /\ Toggles(d) \in Seq([Canvas -> Canvas])
      /\ Through(Toggles(d), Canvas, canvas, ToggleAll(canvas, d))
  BY TogglesLead
<1> QED BY <1>1 DEF Through

\* No index, no change.
LEMMA ToggledByNothing ==
  ASSUME NEW canvas \in Canvas
  PROVE  ToggleAll(canvas, <<>>) = canvas
<1>1. <<>> \in Seq(Indices) /\ \A k \in 1..Len(<<>>) : FALSE
  OBVIOUS
<1>2. /\ Toggles(<<>>) \in Seq([Canvas -> Canvas]) /\ Len(Toggles(<<>>)) = Len(<<>>)
      /\ Through(Toggles(<<>>), Canvas, canvas, ToggleAll(canvas, <<>>))
  BY <1>1, TogglesLead
<1>3. \A k \in 1..Len(Toggles(<<>>)) : \A x \in Canvas : Toggles(<<>>)[k][x] = x
  BY <1>1, <1>2
<1> QED BY <1>2, <1>3, ThroughIdentity

\* What manage_drawing_player toggles is in range.
LEMMA AcceptedInRange ==
  ASSUME NEW d \in Seq(Int)
  PROVE  Accepted(d) \in Seq(Indices)
<1> DEFINE bad == {k \in 1..Len(d) : ~InRange(d[k])}
<1>1. CANVAS_SIZE \in Nat
  BY SessionAssumption
<1>2. \A k \in 1..Len(d) : k \notin bad => d[k] \in Indices
  BY <1>1 DEF InRange, Indices
<1>3. Accepted(d) = IF bad = {} THEN d ELSE SubSeq(d, 1, Min(bad) - 1)
  BY Zenon DEF Accepted
<1>4. CASE bad = {}
  <2>1. \A k \in 1..Len(d) : d[k] \in Indices
    BY <1>2, <1>4
  <2>2. d \in Seq(Indices)
    BY <2>1
  <2> QED BY <1>3, <1>4, <2>2
<1>5. CASE bad # {}
  <2>1. bad \in SUBSET Nat
    OBVIOUS
  <2>2. Min(bad) \in bad /\ \A k \in bad : Min(bad) <= k
    BY <1>5, <2>1, MinIsLeast
  <2> DEFINE m == Min(bad) - 1
             a == SubSeq(d, 1, m)
  <2>3. m \in 0..Len(d) /\ \A k \in 1..m : k \in 1..Len(d) /\ k \notin bad
    <3> HIDE DEF bad
    <3>1. Min(bad) \in 1..Len(d)
      BY <2>2 DEF bad
    <3> QED BY <2>2, <3>1
  <2> HIDE DEF m, bad
  <2>4. \A k \in 1..m : d[k] \in Indices
    BY <1>2, <2>3
  <2>5. Len(a) = m /\ \A k \in 1..m : a[k] = d[k]
    BY <2>3
  <2>6. a \in Seq(Int)
    BY <2>3
  <2> HIDE DEF a
  <2>7. a \in Seq(Indices)
    BY <2>4, <2>5, <2>6
  <2> QED BY <1>3, <1>5, <2>7 DEF m, a
<1> QED BY <1>4, <1>5

\* A drawing of the player, and what it is not.
LEMMA SentKinds ==
  ASSUME NEW m \in ToServer, m.flag = "CANVAS"
  PROVE  m.diffs \in Seq(Int) /\ m # Chat /\ m # HeartBeat
<1>1. Strokes \subseteq Seq(Int)
  BY SessionAssumption
<1>2. m # Chat /\ m # HeartBeat
  BY DEF Chat, HeartBeat
<1>3. PICK d \in Strokes : m = Drawing(d)
  BY <1>2 DEF ToServer
<1> QED BY <1>1, <1>2, <1>3 DEF Drawing

\* What is in a message to a client.
LEMMA HeardKinds ==
  ASSUME NEW m \in Heard
  PROVE  /\ m.flag = "CANVAS" => m.diffs \in Seq(Indices)
         /\ m.flag \in {"START", "GAME_IN_PROGRESS"} => m.role \in Roles
         /\ m.flag = "GAME_IN_PROGRESS" => m.canvas \in Canvas
<1>1. m \in ToClient /\ (m.flag = "CANVAS" => Accepted(m.diffs) = m.diffs)
  BY DEF Heard
<1>2. CASE m \in {HeartBeat, GameEnds}
  BY <1>2 DEF HeartBeat, GameEnds
<1>3. CASE m \in {Start(r) : r \in Roles \ {"idle"}}
  BY <1>3 DEF Start
<1>4. CASE m \in {InProgress(r, c) : r \in Roles \ {"idle"}, c \in Canvas}
  BY <1>4 DEF InProgress
<1>5. CASE m \in {Drawing(d) : d \in Strokes}
  <2>1. m.flag = "CANVAS" /\ m.diffs \in Seq(Int)
    BY <1>5, SessionAssumption DEF Drawing
  <2>2. Accepted(m.diffs) \in Seq(Indices)
    BY <2>1, AcceptedInRange
  <2> QED BY <1>1, <2>1, <2>2
<1> QED BY <1>1, <1>2, <1>3, <1>4, <1>5 DEF ToClient

\* A message of the player leaves a canvas.
LEMMA StrokeStays ==
  ASSUME NEW canvas \in Canvas, NEW m \in ToServer
  PROVE  Stroke(canvas, m) \in Canvas
<1>1. CASE m.flag = "CANVAS"
  <2>1. Accepted(m.diffs) \in Seq(Indices)
    BY <1>1, SentKinds, AcceptedInRange
  <2> QED BY <1>1, <2>1, ToggledStays DEF Stroke
<1>2. CASE m.flag # "CANVAS"
  BY <1>2 DEF Stroke
<1> QED BY <1>1, <1>2

\* GAME_ENDS, START and GAME_IN_PROGRESS.
Resets(m) == SaysRole(m) \/ m.flag = "GAME_ENDS"

\* What a message does to what is shown.
LEMMA ShowStays ==
  ASSUME NEW v \in Views, NEW m \in Heard
  PROVE  /\ Show(v, m) \in Views
         /\ Resets(m) => \A x, y \in Views : Show(x, m) = Show(y, m)
         /\ m.flag # "CANVAS" /\ ~Resets(m) => Show(v, m) = v
<1>1. v = [role |-> v.role, canvas |-> v.canvas] /\ v.role \in Roles /\ v.canvas \in Canvas
  BY DEF Views
<1>2. Blank \in Views
  BY DEF Blank, Views, Roles, Canvas
<1>3. CASE m.flag = "GAME_ENDS"
  <2>1. \A x : Show(x, m) = Blank
    BY <1>3 DEF Show
  <2> QED BY <1>2, <1>3, <2>1 DEF Resets
<1>4. CASE m.flag = "START"
  <2>1. \A x : Show(x, m) = [role |-> m.role, canvas |-> {}]
    BY <1>4 DEF Show
  <2>2. m.role \in Roles
    BY <1>4, HeardKinds
  <2>3. [role |-> m.role, canvas |-> {}] \in Views
    BY <2>2 DEF Views, Canvas
  <2> QED BY <1>4, <2>1, <2>3 DEF Resets, SaysRole
<1>5. CASE m.flag = "GAME_IN_PROGRESS"
  <2>1. \A x : Show(x, m) = [role |-> m.role, canvas |-> m.canvas]
    BY <1>5 DEF Show
  <2>2. m.role \in Roles /\ m.canvas \in Canvas
    BY <1>5, HeardKinds
  <2>3. [role |-> m.role, canvas |-> m.canvas] \in Views
    BY <2>2 DEF Views
  <2> QED BY <1>5, <2>1, <2>3 DEF Resets, SaysRole
<1>6. CASE m.flag = "CANVAS"
  <2>1. Show(v, m) = [v EXCEPT !.canvas = ToggleAll(@, m.diffs)]
    BY <1>6 DEF Show
  <2>2. ToggleAll(v.canvas, m.diffs) \in Canvas
    BY <1>1, <1>6, HeardKinds, ToggledStays
  <2>3. Show(v, m) = [role |-> v.role, canvas |-> ToggleAll(v.canvas, m.diffs)]
    BY <1>1, <2>1
  <2>4. Show(v, m) \in Views
    BY <1>1, <2>2, <2>3 DEF Views
  <2> QED BY <1>6, <2>4 DEF Resets, SaysRole
<1>7. CASE m.flag \notin {"GAME_ENDS", "START", "GAME_IN_PROGRESS", "CANVAS"}
  <2>1. Show(v, m) = v
    BY <1>7 DEF Show
  <2> QED BY <1>7, <2>1 DEF Resets, SaysRole
<1> QED BY <1>3, <1>4, <1>5, <1>6, <1>7

\* Where the messages of the player lead from a canvas.
LEMMA StrokingsLead ==
  ASSUME NEW canvas \in Canvas, NEW q \in Seq(ToServer)
  PROVE  /\ Strokings(q) \in Seq([Canvas -> Canvas]) /\ Len(Strokings(q)) = Len(q)
         /\ Through(Strokings(q), Canvas, canvas, FoldLeft(Stroke, canvas, q))
<1> DEFINE n == Len(q)
           P(g) == g = [S \in SUBSET (DOMAIN q) |->
                          IF S = {} THEN canvas ELSE Stroke(g[S \ {Max(S)}], q[Max(S)])]
<1>1. n \in Nat /\ DOMAIN q = 1..n
  OBVIOUS
<1>2. \A x \in Canvas, k \in 1..n : Stroke(x, q[k]) \in Canvas
  BY StrokeStays
<1>3. /\ Strokings(q) \in Seq([Canvas -> Canvas]) /\ Len(Strokings(q)) = n
      /\ \A k \in 1..n, x \in Canvas : Strokings(q)[k][x] = Stroke(x, q[k])
  BY <1>1, <1>2 DEF Strokings
<1>4. PICK h \in [SUBSET (1..n) -> Canvas] : Iterates(h, Strokings(q), canvas, n)
  BY <1>3, IterationExists
<1>5. P(h)
  <2>1. ASSUME NEW S \in SUBSET (1..n), S # {}
        PROVE  Strokings(q)[Max(S)][h[S \ {Max(S)}]] = Stroke(h[S \ {Max(S)}], q[Max(S)])
    <3>1. Max(S) \in 1..n /\ S \ {Max(S)} \in SUBSET (1..n)
      BY <1>1, <2>1, MaxIsGreatest
    <3>2. h[S \ {Max(S)}] \in Canvas
      BY <3>1
    <3> QED BY <1>3, <3>1, <3>2
  <2>2. h = [S \in SUBSET (1..n) |->
               IF S = {} THEN canvas ELSE Strokings(q)[Max(S)][h[S \ {Max(S)}]]]
    BY <1>4 DEF Iterates
  <2> HIDE DEF n
  <2> QED BY <1>1, <2>1, <2>2
<1> DEFINE g == CHOOSE f : P(f)
<1>6. FoldLeft(Stroke, canvas, q) = g[1..n]
  <2>1. FoldLeft(Stroke, canvas, q) = g[DOMAIN q]
    BY Zenon DEF FoldLeft, MapThenFoldSet
  <2> QED BY <1>1, <2>1
<1>7. P(g)
  <2> HIDE DEF P
  <2> QED BY <1>5, Zenon
<1> HIDE DEF g
<1>8. g[{}] = canvas
  BY <1>7
<1>9. ASSUME NEW k \in 1..n, g[1..(k - 1)] \in Canvas
      PROVE  g[1..k] = Strokings(q)[k][g[1..(k - 1)]]
  <2>1. Max(1..k) = k /\ (1..k) \ {k} = 1..(k - 1) /\ 1..k # {} /\ 1..k \in SUBSET (1..n)
    BY <1>1, MaxOfRange
  <2>2. g[1..k] = Stroke(g[(1..k) \ {Max(1..k)}], q[Max(1..k)])
    BY <1>1, <1>7, <2>1
  <2>3. g[1..k] = Stroke(g[1..(k - 1)], q[k])
    BY <2>1, <2>2
  <2> QED BY <1>3, <1>9, <2>3
<1> HIDE DEF P
<1>10. Through(Strokings(q), Canvas, canvas, g[1..n])
  BY <1>3, <1>8, <1>9, IterationLeads
<1> QED BY <1>3, <1>6, <1>10
\* Where the messages to a client lead from what it shows.
LEMMA ShowingsLead ==
  ASSUME NEW v \in Views, NEW q \in Seq(Heard)
  PROVE  /\ Showings(q) \in Seq([Views -> Views]) /\ Len(Showings(q)) = Len(q)
         /\ Through(Showings(q), Views, v, FoldLeft(Show, v, q))
<1> DEFINE n == Len(q)
           P(g) == g = [S \in SUBSET (DOMAIN q) |->
                          IF S = {} THEN v ELSE Show(g[S \ {Max(S)}], q[Max(S)])]
<1>1. n \in Nat /\ DOMAIN q = 1..n
  OBVIOUS
<1>2. \A x \in Views, k \in 1..n : Show(x, q[k]) \in Views
  BY ShowStays
<1>3. /\ Showings(q) \in Seq([Views -> Views]) /\ Len(Showings(q)) = n
      /\ \A k \in 1..n, x \in Views : Showings(q)[k][x] = Show(x, q[k])
  BY <1>1, <1>2 DEF Showings
<1>4. PICK h \in [SUBSET (1..n) -> Views] : Iterates(h, Showings(q), v, n)
  BY <1>3, IterationExists
<1>5. P(h)
  <2>1. ASSUME NEW S \in SUBSET (1..n), S # {}
        PROVE  Showings(q)[Max(S)][h[S \ {Max(S)}]] = Show(h[S \ {Max(S)}], q[Max(S)])
    <3>1. Max(S) \in 1..n /\ S \ {Max(S)} \in SUBSET (1..n)
      BY <1>1, <2>1, MaxIsGreatest
    <3>2. h[S \ {Max(S)}] \in Views
      BY <3>1
    <3> QED BY <1>3, <3>1, <3>2
  <2>2. h = [S \in SUBSET (1..n) |->
               IF S = {} THEN v ELSE Showings(q)[Max(S)][h[S \ {Max(S)}]]]
    BY <1>4 DEF Iterates
  <2> HIDE DEF n
  <2> QED BY <1>1, <2>1, <2>2
<1> DEFINE g == CHOOSE f : P(f)
<1>6. FoldLeft(Show, v, q) = g[1..n]
  <2>1. FoldLeft(Show, v, q) = g[DOMAIN q]
    BY Zenon DEF FoldLeft, MapThenFoldSet
  <2> QED BY <1>1, <2>1
<1>7. P(g)
  <2> HIDE DEF P
  <2> QED BY <1>5, Zenon
<1> HIDE DEF g
<1>8. g[{}] = v
  BY <1>7
<1>9. ASSUME NEW k \in 1..n, g[1..(k - 1)] \in Views
      PROVE  g[1..k] = Showings(q)[k][g[1..(k - 1)]]
  <2>1. Max(1..k) = k /\ (1..k) \ {k} = 1..(k - 1) /\ 1..k # {} /\ 1..k \in SUBSET (1..n)
    BY <1>1, MaxOfRange
  <2>2. g[1..k] = Show(g[(1..k) \ {Max(1..k)}], q[Max(1..k)])
    BY <1>1, <1>7, <2>1
  <2>3. g[1..k] = Show(g[1..(k - 1)], q[k])
    BY <2>1, <2>2
  <2> QED BY <1>3, <1>9, <2>3
<1> HIDE DEF P
<1>10. Through(Showings(q), Views, v, g[1..n])
  BY <1>3, <1>8, <1>9, IterationLeads
<1> QED BY <1>3, <1>6, <1>10

\* What is shown after the messages of q, and the canvas after them.
Seen(v, q) == FoldLeft(Show, v, q)
Stroked(canvas, q) == FoldLeft(Stroke, canvas, q)

\* One message more of the player.
LEMMA StrokedMore ==
  ASSUME NEW canvas \in Canvas, NEW q \in Seq(ToServer), NEW m \in ToServer
  PROVE  /\ Stroked(canvas, Append(q, m)) = Stroke(Stroked(canvas, q), m)
         /\ Stroked(canvas, q) \in Canvas
<1> DEFINE h == [x \in Canvas |-> Stroke(x, m)]
           more == Append(q, m)
<1>1. /\ Strokings(q) \in Seq([Canvas -> Canvas]) /\ Len(Strokings(q)) = Len(q)
      /\ Through(Strokings(q), Canvas, canvas, Stroked(canvas, q))
  BY StrokingsLead DEF Stroked
<1>2. more \in Seq(ToServer)
  OBVIOUS
<1>3. /\ Strokings(more) \in Seq([Canvas -> Canvas]) /\ Len(Strokings(more)) = Len(more)
      /\ Through(Strokings(more), Canvas, canvas, Stroked(canvas, more))
  BY <1>2, StrokingsLead DEF Stroked
<1>4. h \in [Canvas -> Canvas]
  <2>1. \A x \in Canvas : Stroke(x, m) \in Canvas
    BY StrokeStays
  <2> QED BY <2>1
<1>5. Strokings(more) = Append(Strokings(q), h)
  <2>1. /\ Len(q) \in Nat /\ Len(more) = Len(q) + 1
        /\ more[Len(q) + 1] = m /\ \A k \in 1..Len(q) : more[k] = q[k]
    OBVIOUS
  <2> HIDE DEF more
  <2>2. /\ Strokings(more) = [k \in 1..Len(more) |-> [x \in Canvas |-> Stroke(x, more[k])]]
        /\ Strokings(q) = [k \in 1..Len(q) |-> [x \in Canvas |-> Stroke(x, q[k])]]
    BY DEF Strokings
  <2>3. ASSUME NEW k \in 1..Len(more) PROVE Strokings(more)[k] = Append(Strokings(q), h)[k]
    <3>1. CASE k = Len(q) + 1
      <4>1. Strokings(more)[k] = h
        BY <2>1, <2>2, <3>1
      <4>2. Append(Strokings(q), h)[k] = h
        BY <1>1, <3>1
      <4> QED BY <4>1, <4>2
    <3>2. CASE k # Len(q) + 1
      <4>1. k \in 1..Len(q)
        BY <2>1, <3>2
      <4>2. Strokings(more)[k] = Strokings(q)[k]
        BY <2>1, <2>2, <4>1
      <4>3. Append(Strokings(q), h)[k] = Strokings(q)[k]
        BY <1>1, <4>1
      <4> QED BY <4>2, <4>3
    <3> QED BY <3>1, <3>2
  <2>4. /\ Append(Strokings(q), h) \in Seq([Canvas -> Canvas])
        /\ Len(Append(Strokings(q), h)) = Len(more)
    BY <1>1, <1>4, <2>1
  <2> QED BY <1>3, <2>3, <2>4
<1>6. Through(Append(Strokings(q), h), Canvas, canvas, h[Stroked(canvas, q)])
  BY <1>1, <1>4, ThroughOneMore
<1>7. Stroked(canvas, more) = h[Stroked(canvas, q)]
  BY <1>3, <1>5, <1>6, ThroughOnce
<1>8. Stroked(canvas, q) \in Canvas
  BY <1>1 DEF Through
<1> QED BY <1>7, <1>8

\* The first message of the player.
LEMMA StrokedRest ==
  ASSUME NEW canvas \in Canvas, NEW q \in Seq(ToServer), q # <<>>
  PROVE  /\ Head(q) \in ToServer /\ Tail(q) \in Seq(ToServer) /\ Stroke(canvas, Head(q)) \in Canvas
         /\ Stroked(Stroke(canvas, Head(q)), Tail(q)) = Stroked(canvas, q)
<1> DEFINE rest == Tail(q)
           w == Stroke(canvas, Head(q))
<1>1. /\ Strokings(q) \in Seq([Canvas -> Canvas]) /\ Len(Strokings(q)) = Len(q)
      /\ Through(Strokings(q), Canvas, canvas, Stroked(canvas, q))
  BY StrokingsLead DEF Stroked
<1>2. /\ Head(q) \in ToServer /\ rest \in Seq(ToServer) /\ Head(q) = q[1]
      /\ Len(q) \in Nat \ {0} /\ Len(rest) = Len(q) - 1
      /\ \A k \in 1..Len(rest) : rest[k] = q[k + 1]
  OBVIOUS
<1>3. w \in Canvas
  BY <1>2, StrokeStays
<1> HIDE DEF w, rest
<1>4. /\ Strokings(rest) \in Seq([Canvas -> Canvas]) /\ Len(Strokings(rest)) = Len(rest)
      /\ Through(Strokings(rest), Canvas, w, Stroked(w, rest))
  BY <1>2, <1>3, StrokingsLead DEF Stroked
<1>5. Strokings(rest) = Tail(Strokings(q)) /\ Strokings(q)[1][canvas] = w /\ Strokings(q) # <<>>
  <2>1. /\ Strokings(rest) = [k \in 1..Len(rest) |-> [x \in Canvas |-> Stroke(x, rest[k])]]
        /\ Strokings(q) = [k \in 1..Len(q) |-> [x \in Canvas |-> Stroke(x, q[k])]]
    BY DEF Strokings
  <2>2. Strokings(q) # <<>>
    BY <1>1, <1>2
  <2>3. /\ Tail(Strokings(q)) \in Seq([Canvas -> Canvas]) /\ Len(Tail(Strokings(q))) = Len(rest)
        /\ \A k \in 1..Len(rest) : Tail(Strokings(q))[k] = Strokings(q)[k + 1]
    BY <1>1, <1>2, <2>2
  <2>4. ASSUME NEW k \in 1..Len(rest) PROVE Strokings(rest)[k] = Tail(Strokings(q))[k]
    <3>1. k + 1 \in 1..Len(q)
      BY <1>2
    <3> QED BY <1>2, <2>1, <2>3, <3>1
  <2>5. Strokings(q)[1] = [x \in Canvas |-> Stroke(x, q[1])]
    BY <1>2, <2>1
  <2>6. Strokings(rest) = Tail(Strokings(q))
    BY <1>4, <2>3, <2>4
  <2>7. Strokings(q)[1][canvas] = w
    BY <1>2, <2>5 DEF w
  <2> QED BY <2>2, <2>6, <2>7
<1>6. Through(Tail(Strokings(q)), Canvas, w, Stroked(canvas, q))
  BY <1>1, <1>5, ThroughTheRest
<1>7. Stroked(w, rest) = Stroked(canvas, q)
  BY <1>4, <1>5, <1>6, ThroughOnce
<1> QED BY <1>2, <1>3, <1>7 DEF w, rest

\* Messages that are no drawings do not change the canvas.
LEMMA StrokedByNothing ==
  ASSUME NEW canvas \in Canvas, NEW q \in Seq(ToServer),
         \A k \in 1..Len(q) : q[k].flag # "CANVAS"
  PROVE  Stroked(canvas, q) = canvas
<1>1. /\ Strokings(q) \in Seq([Canvas -> Canvas]) /\ Len(Strokings(q)) = Len(q)
      /\ Through(Strokings(q), Canvas, canvas, Stroked(canvas, q))
  BY StrokingsLead DEF Stroked
<1>2. ASSUME NEW k \in 1..Len(Strokings(q)), NEW x \in Canvas PROVE Strokings(q)[k][x] = x
  <2>1. Strokings(q)[k][x] = Stroke(x, q[k])
    BY <1>1 DEF Strokings
  <2>2. q[k].flag # "CANVAS"
    BY <1>1
  <2> QED BY <2>1, <2>2 DEF Stroke
<1> QED BY <1>1, <1>2, ThroughIdentity

\* One message more to a client.
LEMMA SeenMore ==
  ASSUME NEW v \in Views, NEW q \in Seq(Heard), NEW m \in Heard
  PROVE  Seen(v, Append(q, m)) = Show(Seen(v, q), m) /\ Seen(v, q) \in Views
<1> DEFINE h == [x \in Views |-> Show(x, m)]
           more == Append(q, m)
<1>1. /\ Showings(q) \in Seq([Views -> Views]) /\ Len(Showings(q)) = Len(q)
      /\ Through(Showings(q), Views, v, Seen(v, q))
  BY ShowingsLead DEF Seen
<1>2. more \in Seq(Heard)
  OBVIOUS
<1>3. /\ Showings(more) \in Seq([Views -> Views]) /\ Len(Showings(more)) = Len(more)
      /\ Through(Showings(more), Views, v, Seen(v, more))
  BY <1>2, ShowingsLead DEF Seen
<1>4. h \in [Views -> Views]
  <2>1. \A x \in Views : Show(x, m) \in Views
    BY ShowStays
  <2> QED BY <2>1
<1>5. Showings(more) = Append(Showings(q), h)
  <2>1. /\ Len(q) \in Nat /\ Len(more) = Len(q) + 1
        /\ more[Len(q) + 1] = m /\ \A k \in 1..Len(q) : more[k] = q[k]
    OBVIOUS
  <2> HIDE DEF more
  <2>2. /\ Showings(more) = [k \in 1..Len(more) |-> [x \in Views |-> Show(x, more[k])]]
        /\ Showings(q) = [k \in 1..Len(q) |-> [x \in Views |-> Show(x, q[k])]]
    BY DEF Showings
  <2>3. ASSUME NEW k \in 1..Len(more) PROVE Showings(more)[k] = Append(Showings(q), h)[k]
    <3>1. CASE k = Len(q) + 1
      <4>1. Showings(more)[k] = h
        BY <2>1, <2>2, <3>1
      <4>2. Append(Showings(q), h)[k] = h
        BY <1>1, <3>1
      <4> QED BY <4>1, <4>2
    <3>2. CASE k # Len(q) + 1
      <4>1. k \in 1..Len(q)
        BY <2>1, <3>2
      <4>2. Showings(more)[k] = Showings(q)[k]
        BY <2>1, <2>2, <4>1
      <4>3. Append(Showings(q), h)[k] = Showings(q)[k]
        BY <1>1, <4>1
      <4> QED BY <4>2, <4>3
    <3> QED BY <3>1, <3>2
  <2>4. Append(Showings(q), h) \in Seq([Views -> Views]) /\ Len(Append(Showings(q), h)) = Len(more)
    BY <1>1, <1>4, <2>1
  <2> QED BY <1>3, <2>3, <2>4
<1>6. Through(Append(Showings(q), h), Views, v, h[Seen(v, q)])
  BY <1>1, <1>4, ThroughOneMore
<1>7. Seen(v, more) = h[Seen(v, q)]
  BY <1>3, <1>5, <1>6, ThroughOnce
<1>8. Seen(v, q) \in Views
  BY <1>1 DEF Through
<1> QED BY <1>7, <1>8

\* The first message to a client.
LEMMA SeenRest ==
  ASSUME NEW v \in Views, NEW q \in Seq(Heard), q # <<>>
  PROVE  /\ Head(q) \in Heard /\ Tail(q) \in Seq(Heard) /\ Show(v, Head(q)) \in Views
         /\ Seen(Show(v, Head(q)), Tail(q)) = Seen(v, q)
<1> DEFINE rest == Tail(q)
           w == Show(v, Head(q))
<1>1. /\ Showings(q) \in Seq([Views -> Views]) /\ Len(Showings(q)) = Len(q)
      /\ Through(Showings(q), Views, v, Seen(v, q))
  BY ShowingsLead DEF Seen
<1>2. /\ Head(q) \in Heard /\ rest \in Seq(Heard) /\ Head(q) = q[1]
      /\ Len(q) \in Nat \ {0} /\ Len(rest) = Len(q) - 1
      /\ \A k \in 1..Len(rest) : rest[k] = q[k + 1]
  OBVIOUS
<1>3. w \in Views
  BY <1>2, ShowStays
<1> HIDE DEF w, rest
<1>4. /\ Showings(rest) \in Seq([Views -> Views]) /\ Len(Showings(rest)) = Len(rest)
      /\ Through(Showings(rest), Views, w, Seen(w, rest))
  BY <1>2, <1>3, ShowingsLead DEF Seen
<1>5. Showings(rest) = Tail(Showings(q)) /\ Showings(q)[1][v] = w /\ Showings(q) # <<>>
  <2>1. /\ Showings(rest) = [k \in 1..Len(rest) |-> [x \in Views |-> Show(x, rest[k])]]
        /\ Showings(q) = [k \in 1..Len(q) |-> [x \in Views |-> Show(x, q[k])]]
    BY DEF Showings
  <2>2. Showings(q) # <<>>
    BY <1>1, <1>2
  <2>3. /\ Tail(Showings(q)) \in Seq([Views -> Views]) /\ Len(Tail(Showings(q))) = Len(rest)
        /\ \A k \in 1..Len(rest) : Tail(Showings(q))[k] = Showings(q)[k + 1]
    BY <1>1, <1>2, <2>2
  <2>4. ASSUME NEW k \in 1..Len(rest) PROVE Showings(rest)[k] = Tail(Showings(q))[k]
    <3>1. k + 1 \in 1..Len(q)
      BY <1>2
    <3> QED BY <1>2, <2>1, <2>3, <3>1
  <2>5. Showings(q)[1] = [x \in Views |-> Show(x, q[1])]
    BY <1>2, <2>1
  <2>6. Showings(rest) = Tail(Showings(q))
    BY <1>4, <2>3, <2>4
  <2>7. Showings(q)[1][v] = w
    BY <1>2, <2>5 DEF w
  <2> QED BY <2>2, <2>6, <2>7
<1>6. Through(Tail(Showings(q)), Views, w, Seen(v, q))
  BY <1>1, <1>5, ThroughTheRest
<1>7. Seen(w, rest) = Seen(v, q)
  BY <1>4, <1>5, <1>6, ThroughOnce
<1> QED BY <1>2, <1>3, <1>7 DEF w, rest

\* Neither do messages that are no drawings and say nothing of roles.
LEMMA SeenNothing ==
  ASSUME NEW v \in Views, NEW q \in Seq(Heard),
         \A k \in 1..Len(q) : q[k].flag # "CANVAS" /\ ~Resets(q[k])
  PROVE  Seen(v, q) = v
<1>1. /\ Showings(q) \in Seq([Views -> Views]) /\ Len(Showings(q)) = Len(q)
      /\ Through(Showings(q), Views, v, Seen(v, q))
  BY ShowingsLead DEF Seen
<1>2. ASSUME NEW k \in 1..Len(Showings(q)), NEW x \in Views PROVE Showings(q)[k][x] = x
  <2>1. Showings(q)[k][x] = Show(x, q[k])
    BY <1>1 DEF Showings
  <2>2. q[k].flag # "CANVAS" /\ ~Resets(q[k]) /\ q[k] \in Heard
    BY <1>1
  <2> QED BY <2>1, <2>2, ShowStays
<1> QED BY <1>1, <1>2, ThroughIdentity

\* After a message that says how a round begins or ends, what was shown before is forgotten.
LEMMA SeenAnew ==
  ASSUME NEW v \in Views, NEW w \in Views, NEW q \in Seq(Heard),
         NEW l \in 1..Len(q), Resets(q[l])
  PROVE  Seen(v, q) = Seen(w, q)
<1>1. /\ Showings(q) \in Seq([Views -> Views]) /\ Len(Showings(q)) = Len(q)
      /\ Through(Showings(q), Views, v, Seen(v, q))
      /\ Through(Showings(q), Views, w, Seen(w, q))
  BY ShowingsLead DEF Seen
<1>2. ASSUME NEW x \in Views, NEW y \in Views PROVE Showings(q)[l][x] = Showings(q)[l][y]
  <2>1. Showings(q)[l][x] = Show(x, q[l]) /\ Showings(q)[l][y] = Show(y, q[l])
    BY <1>1 DEF Showings
  <2>2. q[l] \in Heard
    OBVIOUS
  <2> QED BY <2>1, <2>2, ShowStays
<1>3. l \in 1..Len(Showings(q))
  BY <1>1
<1> QED BY <1>1, <1>2, <1>3, ThroughConstant

-----------------------------------------------------------------------------
(* Catching up: what is on its way to a client makes it show what it should. *)

\* A role is said to a client that shows none, or will have been told the end of the
\* last round.
Fresh(q, role) ==
  /\ \A k \in 1..Len(q) :
       SaysRole(q[k]) /\ role # "idle" => \E j \in 1..Len(q) : j < k /\ q[j] = GameEnds
  /\ \A j, k \in 1..Len(q) :
       j < k /\ SaysRole(q[j]) /\ SaysRole(q[k]) =>
         \E l \in 1..Len(q) : j < l /\ l < k /\ q[l] = GameEnds

\* Drawings of an earlier round will be forgotten.
Settled(q) ==
  \A k \in 1..Len(q) : q[k].flag = "CANVAS" => \E l \in 1..Len(q) : k < l /\ Resets(q[l])

\* Nothing is on its way.
LEMMA FreshNothing ==
  ASSUME NEW q, q = <<>>, NEW role
  PROVE  Fresh(q, role) /\ Settled(q)
BY NothingIsSeq DEF Fresh, Settled

\* A role is sent only to a client that has been told the end of the last round.
LEMMA FreshMore ==
  ASSUME NEW q, IsSeq(q), NEW role, Fresh(q, role),
         NEW m, ~SaysRole(m) \/ Tells(q, role, "idle")
  PROVE  Fresh(Append(q, m), role)
<1> DEFINE w == Append(q, m)
           n == Len(q) + 1
<1>1. /\ Len(q) \in Nat /\ Len(w) = n
      /\ \A k \in 1..Len(q) : w[k] = q[k]
      /\ w[n] = m
  BY AppendedSeq
<1> HIDE DEF w
<1>2. ASSUME NEW k \in 1..Len(w), SaysRole(w[k]), role # "idle"
      PROVE  \E j \in 1..Len(w) : j < k /\ w[j] = GameEnds
  <2>1. CASE k = n
    <3>1. Tells(q, role, "idle")
      BY <1>1, <1>2, <2>1
    <3>2. PICK j \in 1..Len(q) : q[j] = GameEnds
      BY <1>2, <3>1 DEF Tells
    <3> QED BY <1>1, <2>1, <3>2
  <2>2. CASE k # n
    <3>1. k \in 1..Len(q)
      BY <1>1, <2>2
    <3>2. PICK j \in 1..Len(q) : j < k /\ q[j] = GameEnds
      BY <1>1, <1>2, <3>1 DEF Fresh
    <3> QED BY <1>1, <3>2
  <2> QED BY <2>1, <2>2
<1>3. ASSUME NEW j \in 1..Len(w), NEW k \in 1..Len(w), j < k, SaysRole(w[j]), SaysRole(w[k])
      PROVE  \E l \in 1..Len(w) : j < l /\ l < k /\ w[l] = GameEnds
  <2>0. j \in 1..Len(q) /\ w[j] = q[j]
    BY <1>1, <1>3
  <2>1. CASE k = n
    <3>1. Tells(q, role, "idle")
      BY <1>1, <1>3, <2>1
    <3>2. PICK l \in 1..Len(q) : l > j /\ q[l] = GameEnds
      BY <1>3, <2>0, <3>1 DEF Tells
    <3> QED BY <1>1, <2>1, <3>2
  <2>2. CASE k # n
    <3>1. k \in 1..Len(q)
      BY <1>1, <2>2
    <3>2. PICK l \in 1..Len(q) : j < l /\ l < k /\ q[l] = GameEnds
      BY <1>1, <1>3, <2>0, <3>1 DEF Fresh
    <3> QED BY <1>1, <3>2
  <2> QED BY <2>1, <2>2
<1>4. Fresh(w, role)
  BY <1>2, <1>3, Zenon DEF Fresh
<1> QED BY <1>4 DEF w

\* A client reads on.
LEMMA FreshRest ==
  ASSUME NEW q, IsSeq(q), q # <<>>, NEW v, Fresh(q, v.role),
         NEW role, Head(q).flag = "GAME_ENDS" => role = "idle",
         ~Resets(Head(q)) => role = v.role
  PROVE  Fresh(Tail(q), role)
<1> DEFINE w == Tail(q)
<1>1. /\ Len(q) \in Nat \ {0} /\ Len(w) = Len(q) - 1
      /\ \A k \in 1..Len(w) : k + 1 \in 1..Len(q) /\ w[k] = q[k + 1]
      /\ Head(q) = q[1] /\ 1 \in 1..Len(q)
  BY TailedSeq
<1> HIDE DEF w
<1>2. \A l \in 1..Len(q) : l > 1 => l - 1 \in 1..Len(w) /\ w[l - 1] = q[l]
  <2> SUFFICES ASSUME NEW l \in 1..Len(q), l > 1 PROVE l - 1 \in 1..Len(w) /\ w[l - 1] = q[l]
    OBVIOUS
  <2>1. l - 1 \in 1..Len(w) /\ (l - 1) + 1 = l
    BY <1>1
  <2> QED BY <1>1, <2>1
<1>3. ASSUME NEW k \in 1..Len(w), SaysRole(w[k]), role # "idle"
      PROVE  \E j \in 1..Len(w) : j < k /\ w[j] = GameEnds
  <2>1. k + 1 \in 1..Len(q) /\ w[k] = q[k + 1] /\ 1 < k + 1
    BY <1>1
  <2>2. CASE SaysRole(q[1])
    <3>1. PICK l \in 1..Len(q) : 1 < l /\ l < k + 1 /\ q[l] = GameEnds
      BY <1>1, <1>3, <2>1, <2>2 DEF Fresh
    <3>2. l - 1 \in 1..Len(w) /\ w[l - 1] = GameEnds /\ l - 1 < k
      BY <1>1, <1>2, <3>1
    <3> QED BY <3>2
  <2>3. CASE ~SaysRole(q[1])
    <3>1. q[1].flag # "GAME_ENDS" /\ v.role # "idle"
      BY <1>1, <1>3, <2>3 DEF Resets
    <3>2. PICK l \in 1..Len(q) : l < k + 1 /\ q[l] = GameEnds
      BY <1>3, <2>1, <3>1 DEF Fresh
    <3>3. l > 1
      <4>1. GameEnds.flag = "GAME_ENDS"
        BY DEF GameEnds
      <4>2. l # 1
        BY <3>1, <3>2, <4>1
      <4> QED BY <4>2
    <3>4. l - 1 \in 1..Len(w) /\ w[l - 1] = GameEnds /\ l - 1 < k
      BY <1>1, <1>2, <3>2, <3>3
    <3> QED BY <3>4
  <2> QED BY <2>2, <2>3
<1>4. ASSUME NEW j \in 1..Len(w), NEW k \in 1..Len(w), j < k, SaysRole(w[j]), SaysRole(w[k])
      PROVE  \E l \in 1..Len(w) : j < l /\ l < k /\ w[l] = GameEnds
  <2>1. /\ j + 1 \in 1..Len(q) /\ k + 1 \in 1..Len(q) /\ j + 1 < k + 1
        /\ w[j] = q[j + 1] /\ w[k] = q[k + 1]
    BY <1>1, <1>4
  <2>2. PICK l \in 1..Len(q) : j + 1 < l /\ l < k + 1 /\ q[l] = GameEnds
    BY <1>4, <2>1 DEF Fresh
  <2>3. l - 1 \in 1..Len(w) /\ w[l - 1] = GameEnds /\ j < l - 1 /\ l - 1 < k
    BY <1>1, <1>2, <2>2
  <2> QED BY <2>3
<1>5. Fresh(w, role)
  BY <1>3, <1>4, Zenon DEF Fresh
<1> QED BY <1>5 DEF w

\* One message more, which is no drawing.
LEMMA SettledMore ==
  ASSUME NEW q, IsSeq(q), NEW m, m.flag # "CANVAS", Settled(q) \/ Resets(m)
  PROVE  Settled(Append(q, m))
<1> DEFINE w == Append(q, m)
<1>1. /\ Len(q) \in Nat /\ Len(w) = Len(q) + 1
      /\ \A k \in 1..Len(q) : w[k] = q[k]
      /\ w[Len(q) + 1] = m
  BY AppendedSeq
<1> HIDE DEF w
<1>2. ASSUME NEW k \in 1..Len(w), w[k].flag = "CANVAS"
      PROVE  \E l \in 1..Len(w) : k < l /\ Resets(w[l])
  <2>1. k \in 1..Len(q) /\ k < Len(q) + 1 /\ Len(q) + 1 \in 1..Len(w)
    BY <1>1, <1>2
  <2>2. CASE Resets(m)
    BY <1>1, <2>1, <2>2
  <2>3. CASE Settled(q)
    <3>1. PICK l \in 1..Len(q) : k < l /\ Resets(q[l])
      BY <1>1, <1>2, <2>1, <2>3 DEF Settled
    <3> QED BY <1>1, <3>1
  <2> QED BY <2>2, <2>3
<1>3. Settled(w)
  BY <1>2 DEF Settled
<1> QED BY <1>3 DEF w

\* The first message is read.
LEMMA SettledRest ==
  ASSUME NEW q, IsSeq(q), q # <<>>, Settled(q)
  PROVE  Settled(Tail(q))
<1> DEFINE w == Tail(q)
<1>1. /\ Len(q) \in Nat \ {0} /\ Len(w) = Len(q) - 1
      /\ \A k \in 1..Len(w) : k + 1 \in 1..Len(q) /\ w[k] = q[k + 1]
  BY TailedSeq
<1> HIDE DEF w
<1>2. ASSUME NEW k \in 1..Len(w), w[k].flag = "CANVAS"
      PROVE  \E l \in 1..Len(w) : k < l /\ Resets(w[l])
  <2>1. PICK l \in 1..Len(q) : k + 1 < l /\ Resets(q[l])
    BY <1>1, <1>2 DEF Settled
  <2>2. l - 1 \in 1..Len(w) /\ (l - 1) + 1 = l /\ k < l - 1
    BY <1>1, <2>1
  <2>3. w[l - 1] = q[l]
    BY <1>1, <2>2
  <2> QED BY <2>1, <2>2, <2>3
<1>3. Settled(w)
  BY <1>2 DEF Settled
<1> QED BY <1>3 DEF w

\* What a message changes of the role shown.
LEMMA RoleShown ==
  ASSUME NEW v \in Views, NEW m \in Heard
  PROVE  /\ m.flag = "GAME_ENDS" => Show(v, m).role = "idle"
         /\ ~Resets(m) => Show(v, m).role = v.role
<1>1. CASE m.flag = "GAME_ENDS"
  BY <1>1 DEF Show, Blank, Resets
<1>2. CASE m.flag = "CANVAS"
  <2>1. Show(v, m) = [v EXCEPT !.canvas = ToggleAll(@, m.diffs)]
    BY <1>2 DEF Show
  <2> QED BY <1>2, <2>1 DEF Views
<1>3. CASE m.flag # "CANVAS" /\ ~Resets(m)
  <2>1. Show(v, m) = v
    BY <1>3, ShowStays
  <2> QED BY <1>3, <2>1 DEF Resets
<1> QED BY <1>1, <1>2, <1>3 DEF Resets

-----------------------------------------------------------------------------
(* What every handler keeps: each client can catch up. *)

\* What a client shows when it has read everything, against what the server has.
CatchesUp(t, c) ==
  IF c = t.drawer
  THEN /\ c \notin t.crossed =>
            Seen(t.view[c], t.toClient[c])
              = [role |-> "draw", canvas |-> Stroked(t.canvas, t.toServer[c])]
       /\ Settled(t.toClient[c])
  ELSE Seen(t.view[c], t.toClient[c]) = [role |-> "guess", canvas |-> t.canvas]

\* With what is needed to keep it so: of a round that is running, or before one.
Catches(t, c) ==
  /\ Fresh(t.toClient[c], t.view[c].role)
  /\ t.in_progress /\ ~t.spoiled => CatchesUp(t, c)

\* The types of what is drawn, shown and on its way.
Typed(t) ==
  /\ t.in_progress \in BOOLEAN /\ t.phase \in Phases /\ t.drawer \in Clients \cup {None}
  /\ t.canvas \in Canvas /\ t.spoiled \in BOOLEAN
  /\ \A c \in Clients : t.toClient[c] \in Seq(Heard) /\ t.view[c] \in Views

\* Every client that has not hung up can catch up.
Follows(t) == Typed(t) /\ \A c \in t.online \ t.hung : Catches(t, c)

\* Between two rounds: nothing is drawn, and nobody has a message under way unless it
\* crossed the end of the last one.
Between(t) ==
  /\ ~t.in_progress /\ t.canvas = {} /\ ~t.spoiled
  /\ \A c \in t.online \ (t.hung \cup t.crossed) : t.toServer[c] = <<>>

\* What is shown, on its way and drawn at the start.
LEMMA BlankIsView == Blank \in Views /\ <<>> \in Seq(Heard) /\ {} \in Canvas
BY DEF Blank, Views, Roles, Canvas

\* The messages without a canvas, and the one with it.
LEMMA SaidIsHeard ==
  /\ HeartBeat \in Heard /\ GameEnds \in Heard
  /\ Start("draw") \in Heard /\ Start("guess") \in Heard
  /\ \A canvas \in Canvas :
       InProgress("draw", canvas) \in Heard /\ InProgress("guess", canvas) \in Heard
<1>1. HeartBeat \in ToClient /\ GameEnds \in ToClient
  BY DEF ToClient
<1>2. Start("draw") \in ToClient /\ Start("guess") \in ToClient
  BY DEF ToClient, Roles
<1>3. \A canvas \in Canvas :
        InProgress("draw", canvas) \in ToClient /\ InProgress("guess", canvas) \in ToClient
  BY DEF ToClient, Roles
<1> QED BY <1>1, <1>2, <1>3 DEF Heard, HeartBeat, GameEnds, Start, InProgress

\* Nothing of what c shows and is to show is different.
LEMMA CatchesOn ==
  ASSUME NEW t, NEW u, NEW c, Catches(t, c), SameRound(t, u), SameCanvas(t, u),
         u.toClient[c] = t.toClient[c], u.view[c] = t.view[c],
         c = t.drawer => u.toServer[c] = t.toServer[c],
         c \in t.crossed => c \in u.crossed
  PROVE  Catches(u, c)
BY DEF Catches, CatchesUp, SameRound, SameCanvas

\* Connections that are lost do not matter to c.
LEMMA LosesCatches ==
  ASSUME NEW t, NEW u, NEW L, Loses(t, u, L), SameCanvas(t, u), NEW c \in u.online, Catches(t, c)
  PROVE  Catches(u, c)
<1>1. /\ SameRound(t, u) /\ u.toClient[c] = t.toClient[c] /\ u.view[c] = t.view[c]
      /\ u.toServer[c] = t.toServer[c] /\ (c \in t.crossed => c \in u.crossed)
  BY DEF Loses, Frame
<1> QED BY <1>1, CatchesOn

\* Connections that are lost leave the types.
LEMMA LosesTyped ==
  ASSUME NEW t, Typed(t), NEW u, Sound(u), NEW L, Loses(t, u, L), SameCanvas(t, u)
  PROVE  Typed(u)
<1>1. ASSUME NEW c \in Clients PROVE u.toClient[c] \in Seq(Heard) /\ u.view[c] \in Views
  <2>1. CASE c \in u.online
    <3>1. u.toClient[c] = t.toClient[c] /\ u.view[c] = t.view[c]
      BY <2>1 DEF Loses, Frame
    <3> QED BY <3>1 DEF Typed
  <2>2. CASE c \notin u.online
    <3>1. u.toClient[c] = <<>> /\ u.view[c] = Blank
      BY <2>2 DEF Sound, Plain
    <3> QED BY <3>1, BlankIsView
  <2> QED BY <2>1, <2>2
<1> QED BY <1>1 DEF Typed, Loses, SameRound, SameCanvas

\* Connections are lost.
LEMMA LosesFollows ==
  ASSUME NEW t, Follows(t), NEW u, Sound(u), NEW L, Loses(t, u, L), SameCanvas(t, u)
  PROVE  Follows(u)
<1>1. ASSUME NEW c \in u.online \ u.hung PROVE Catches(u, c)
  <2>1. c \in t.online \ t.hung
    BY DEF Loses, Frame
  <2> QED BY <2>1, LosesCatches DEF Follows
<1> QED BY <1>1, LosesTyped DEF Follows

\* Connections are lost between rounds.
LEMMA LosesBetween ==
  ASSUME NEW t, Between(t), NEW u, NEW L, Loses(t, u, L), SameCanvas(t, u)
  PROVE  Between(u)
BY DEF Between, Loses, Frame, SameRound, SameCanvas

\* A broadcast.
LEMMA BroadcastFollows ==
  ASSUME NEW t, Sound(t), Follows(t), NEW sender, NEW u \in broadcast(t, sender)
  PROVE  Follows(u) /\ SameCanvas(t, u)
<1>1. Sound(u) /\ Loses(t, u, {})
  BY BroadcastLoses
<1>2. SameCanvas(t, u)
  BY BroadcastKeepsCanvas DEF Sound, Good
<1> QED BY <1>1, <1>2, LosesFollows

\* c is removed; that it has caught up does not matter.
LEMMA RemovalFollows ==
  ASSUME NEW t, Sound(t), Typed(t), NEW c \in Clients,
         \A d \in (t.online \ t.hung) \ {c} : Catches(t, d),
         NEW u \in remove_player_from_server(t, c)
  PROVE  Follows(u) /\ SameCanvas(t, u)
<1>1. Sound(u) /\ Loses(t, u, {c}) /\ c \notin u.online
  BY RemovalLoses, RemovalRemoves
<1>2. SameCanvas(t, u)
  BY RemovalKeepsCanvas DEF Sound, Good
<1>3. ASSUME NEW d \in u.online \ u.hung PROVE Catches(u, d)
  <2>1. d \in (t.online \ t.hung) \ {c}
    BY <1>1 DEF Loses, Frame
  <2> QED BY <1>1, <1>2, <2>1, LosesCatches
<1> QED BY <1>1, <1>2, <1>3, LosesTyped DEF Follows

\* A message is sent.
LEMMA SendTyped ==
  ASSUME NEW t, Sound(t), Typed(t), NEW C, C \subseteq t.online, NEW m \in Heard,
         NEW u, u = Send(t, C, m)
  PROVE  /\ Typed(u) /\ SameCanvas(t, u) /\ SameRound(t, u)
         /\ u.toServer = t.toServer /\ u.crossed = t.crossed
<1>1. /\ u.view = t.view /\ SameRound(t, u) /\ SameCanvas(t, u)
      /\ u.toServer = t.toServer /\ u.crossed = t.crossed
      /\ u.toClient = [c \in Clients |-> IF c \in C \ t.hung THEN Append(t.toClient[c], m)
                                         ELSE t.toClient[c]]
  BY DEF Send, Sound, Good, Fields, SameRound, SameCanvas
<1>2. ASSUME NEW c \in Clients PROVE u.toClient[c] \in Seq(Heard)
  <2>1. t.toClient[c] \in Seq(Heard)
    BY DEF Typed
  <2>2. Append(t.toClient[c], m) \in Seq(Heard)
    BY <2>1
  <2> QED BY <1>1, <2>1, <2>2
<1> QED BY <1>1, <1>2 DEF Typed, SameRound, SameCanvas

\* Nothing is shown of an earlier round after START or GAME_IN_PROGRESS.
LEMMA StartShows ==
  ASSUME NEW v \in Views, NEW q \in Seq(Heard), NEW m \in Heard, SaysRole(m)
  PROVE  Seen(v, Append(q, m))
           = [role |-> m.role, canvas |-> IF m.flag = "START" THEN {} ELSE m.canvas]
<1>1. Seen(v, Append(q, m)) = Show(Seen(v, q), m)
  BY SeenMore
<1> QED BY <1>1 DEF Show, SaysRole

\* A role is sent.
LEMMA ResetSettles ==
  ASSUME NEW q, IsSeq(q), NEW m, SaysRole(m)
  PROVE  Settled(Append(q, m))
<1>1. m.flag # "CANVAS" /\ Resets(m)
  BY DEF SaysRole, Resets
<1> QED BY <1>1, SettledMore

\* Nothing is under way.
LEMMA StrokedEmpty == Stroked({}, <<>>) = {}
<1>1. <<>> \in Seq(ToServer) /\ \A k \in 1..Len(<<>>) : <<>>[k].flag # "CANVAS"
  OBVIOUS
<1>2. {} \in Canvas
  BY BlankIsView
<1> QED BY <1>1, <1>2, StrokedByNothing

\* The type of what is on its way to c.
LEMMA HeardIsSeq ==
  ASSUME NEW t, Typed(t), NEW c \in Clients
  PROVE  t.toClient[c] \in Seq(Heard) /\ IsSeq(t.toClient[c]) /\ t.view[c] \in Views
<1>1. t.toClient[c] \in Seq(Heard) /\ t.view[c] \in Views
  BY DEF Typed
<1> QED BY <1>1 DEF IsSeq

\* A round starts: everybody online is told its role, and the canvas is empty.
LEMMA StartFollows ==
  ASSUME NEW t, Sound(t), Told(t), Follows(t), Between(t), NEW u \in start_round(t)
  PROVE  Follows(u) /\ SameCanvas(t, u)
<1>1. Sound(u)
  BY StartSends
<1>2. PICK d \in t.online : Started(t, u, d)
  BY StartSends
<1>3. /\ Frame(t, u, {}) /\ u.in_progress = TRUE /\ u.phase = "countdown" /\ u.drawer = d
      /\ SameCanvas(t, u)
      /\ \A c \in u.online \ u.hung :
           /\ u.toClient[c] = Append(t.toClient[c], Start(IF c = d THEN "draw" ELSE "guess"))
           /\ u.view[c] = t.view[c]
  BY <1>2 DEF Started
<1>4. ASSUME NEW c \in u.online \ u.hung
      PROVE  u.toClient[c] \in Seq(Heard) /\ u.view[c] \in Views /\ Catches(u, c)
  <2> DEFINE r == IF c = d THEN "draw" ELSE "guess"
             m == Start(r)
             q == t.toClient[c]
  <2>1. m \in Heard /\ SaysRole(m) /\ m.flag = "START" /\ m.role = r
    BY SaidIsHeard DEF SaysRole, Start
  <2>2. /\ c \in t.online \ (t.hung \cup {}) /\ u.toClient[c] = Append(q, m)
        /\ u.view[c] = t.view[c] /\ u.toServer[c] = t.toServer[c]
        /\ (c \in t.crossed => c \in u.crossed)
    BY <1>3 DEF Frame
  <2> HIDE DEF m
  <2>3. c \in Clients
    BY <2>2, OnlineAreClients
  <2>4. q \in Seq(Heard) /\ IsSeq(q) /\ t.view[c] \in Views
    BY <2>3, HeardIsSeq DEF Follows
  <2> HIDE DEF q
  <2>5. Fresh(q, t.view[c].role) /\ Tells(q, t.view[c].role, "idle")
    BY <2>2 DEF Follows, Catches, Told, RoleOf, Between, q
  <2>6. Fresh(u.toClient[c], u.view[c].role)
    BY <2>2, <2>4, <2>5, FreshMore
  <2>7. Seen(u.view[c], u.toClient[c]) = [role |-> r, canvas |-> {}]
    BY <2>1, <2>2, <2>4, StartShows
  <2>8. Settled(u.toClient[c])
    BY <2>1, <2>2, <2>4, ResetSettles
  <2>9. u.canvas = {}
    BY <1>3 DEF SameCanvas, Between
  <2>10. ASSUME c \notin u.crossed PROVE Stroked(u.canvas, u.toServer[c]) = {}
    <3>1. u.toServer[c] = <<>>
      BY <2>2, <2>10 DEF Between
    <3> QED BY <2>9, <3>1, StrokedEmpty
  <2>11. CatchesUp(u, c)
    <3>1. CASE c = d
      BY <1>3, <2>7, <2>8, <2>10, <3>1 DEF CatchesUp
    <3>2. CASE c # d
      BY <1>3, <2>7, <2>9, <3>2 DEF CatchesUp
    <3> QED BY <3>1, <3>2
  <2>12. u.toClient[c] \in Seq(Heard)
    BY <2>1, <2>2, <2>4
  <2> QED BY <2>2, <2>4, <2>6, <2>11, <2>12 DEF Catches
<1>5. ASSUME NEW c \in Clients, c \notin u.online \ u.hung
      PROVE  u.toClient[c] \in Seq(Heard) /\ u.view[c] \in Views
  <2>1. u.toClient[c] = <<>> /\ u.view[c] = Blank
    BY <1>1, <1>5 DEF Sound, Plain
  <2> QED BY <2>1, BlankIsView
<1>6. d \in Clients
  BY <1>2, OnlineAreClients
<1>7. Typed(u)
  BY <1>3, <1>4, <1>5, <1>6 DEF Typed, Follows, SameCanvas, Phases
<1> QED BY <1>3, <1>4, <1>7 DEF Follows

\* A round starts, or none does.
LEMMA ValidateFollows ==
  ASSUME NEW t, Sound(t), Told(t), Follows(t), Between(t), NEW u \in validate_round(t)
  PROVE  Follows(u) /\ SameCanvas(t, u)
<1>1. CASE u \in broadcast(t, None)
  BY <1>1, BroadcastFollows
<1>2. CASE u \in start_round(t)
  BY <1>2, StartFollows
<1> QED BY <1>1, <1>2 DEF validate_round

\* A round ends, and perhaps the next one starts.
LEMMA FinishFollows ==
  ASSUME NEW t, Sound(t), Follows(t), ~t.in_progress,
         \A c \in t.online \ (t.hung \cup t.crossed) : t.toServer[c] = <<>>,
         NEW u \in finish_round(t)
  PROVE  Follows(u) /\ u.canvas = {} /\ ~u.spoiled
<1>1. PICK v \in broadcast_buffer(t, None, GameEnds) :
        u \in validate_round([v EXCEPT !.canvas = {}, !.spoiled = FALSE])
  BY Zenon DEF finish_round
<1> DEFINE ended == Send(t, t.online \ {None}, GameEnds)
           w == [v EXCEPT !.canvas = {}, !.spoiled = FALSE]
<1>2. t.online \ {None} = t.online /\ t.online \subseteq t.online
  BY OnlineAreClients, SessionAssumption
<1>3. /\ Sound(ended) /\ IsSent(t, t.online \ {None}, GameEnds, ended)
      /\ Sound(v) /\ Loses(ended, v, {})
  BY <1>1, BroadcastBufferLoses
<1>4. Told(ended) /\ Told(v)
  <2>1. Told(ended)
    BY <1>2, EndTells
  <2> QED BY <1>3, <2>1, LosesKeepsTold DEF Loses
<1>5. /\ Typed(ended) /\ SameCanvas(t, ended) /\ SameRound(t, ended)
      /\ ended.toServer = t.toServer /\ ended.crossed = t.crossed
  BY <1>2, SaidIsHeard, SendTyped DEF Follows
<1> HIDE DEF ended
<1>6. SameCanvas(ended, v)
  <2>1. SameCanvas(t, v)
    BY <1>1, BroadcastBufferLoses
  <2> QED BY <1>5, <2>1 DEF SameCanvas
<1>7. ASSUME NEW c \in ended.online \ ended.hung
      PROVE  Catches(ended, c)
  <2>1. /\ c \in t.online \ t.hung /\ ended.toClient[c] = Append(t.toClient[c], GameEnds)
        /\ ended.view[c] = t.view[c] /\ IsSeq(t.toClient[c])
    BY <1>2, <1>3 DEF IsSent
  <2>2. Fresh(t.toClient[c], t.view[c].role) /\ ~SaysRole(GameEnds)
    BY <2>1 DEF Follows, Catches, SaysRole, GameEnds
  <2>3. Fresh(ended.toClient[c], ended.view[c].role)
    BY <2>1, <2>2, FreshMore
  <2> QED BY <1>5, <2>3 DEF Catches, SameRound
<1>8. Follows(v)
  <2>1. Follows(ended)
    BY <1>5, <1>7 DEF Follows
  <2> QED BY <1>3, <1>6, <2>1, LosesFollows
<1>9. ASSUME NEW c \in v.online \ (v.hung \cup v.crossed) PROVE v.toServer[c] = <<>>
  <2>1. /\ c \in ended.online \ (ended.hung \cup ended.crossed)
        /\ v.toServer[c] = ended.toServer[c]
    BY <1>3 DEF Loses, Frame
  <2>2. c \in t.online \ (t.hung \cup t.crossed)
    BY <1>3, <1>5, <2>1 DEF IsSent
  <2> QED BY <1>5, <2>1, <2>2
<1>10. /\ DOMAIN w = Fields /\ w.pfds = v.pfds /\ w.online = v.online /\ w.hung = v.hung
       /\ w.crossed = v.crossed /\ w.toServer = v.toServer /\ w.toClient = v.toClient
       /\ w.view = v.view /\ SameRound(v, w) /\ w.canvas = {} /\ w.spoiled = FALSE
  BY <1>3 DEF Sound, Good, Fields, SameRound
<1>11. u \in validate_round(w)
  BY <1>1
<1> HIDE DEF w
<1>12. ~w.in_progress
  BY <1>3, <1>5, <1>10 DEF Loses, SameRound
<1>13. Sound(w) /\ Told(w)
  BY <1>3, <1>4, <1>10, FieldsFrame, FieldsKeepTold
<1>14. Between(w)
  BY <1>9, <1>10, <1>12 DEF Between
<1>15. Follows(w)
  <2>1. Typed(w)
    BY <1>8, <1>10, BlankIsView DEF Follows, Typed, SameRound
  <2>2. \A c \in w.online \ w.hung : Catches(w, c)
    BY <1>8, <1>10, <1>12 DEF Follows, Catches
  <2> QED BY <2>1, <2>2 DEF Follows
<1>16. Follows(u) /\ SameCanvas(w, u)
  BY <1>11, <1>13, <1>14, <1>15, ValidateFollows
<1> QED BY <1>10, <1>16 DEF SameCanvas

\* The newcomer is in the array and in the game, and not told of the round yet.
LEMMA PollingFollows ==
  ASSUME NEW t, Sound(t), Told(t), Follows(t), NEW c \in Clients, c \notin t.online,
         NEW u, u = Polling(t, c)
  PROVE  /\ Typed(u) /\ SameCanvas(t, u)
         /\ \A d \in (u.online \ u.hung) \ {c} : Catches(u, d)
<1>1. /\ SameRound(t, u) /\ u.online = t.online \cup {c} /\ u.hung = t.hung
      /\ u.crossed = t.crossed /\ u.toServer = t.toServer /\ u.toClient = t.toClient
      /\ u.view = t.view
  BY PollingSound
<1>2. SameCanvas(t, u)
  BY DEF Polling, Sound, Good, Fields, SameCanvas
<1>3. Typed(u)
  BY <1>1, <1>2 DEF Follows, Typed, SameRound, SameCanvas
<1>4. ASSUME NEW d \in (u.online \ u.hung) \ {c} PROVE Catches(u, d)
  <2>1. Catches(t, d)
    BY <1>1 DEF Follows
  <2> QED BY <1>1, <1>2, <2>1, CatchesOn
<1> QED BY <1>2, <1>3, <1>4

\* The newcomer is told of the round.
LEMMA InProgressFollows ==
  ASSUME NEW t, Sound(t), Typed(t), NEW c \in t.online \ t.hung,
         t.toClient[c] = <<>>, t.toServer[c] = <<>>, t.view[c] = Blank,
         \A d \in (t.online \ t.hung) \ {c} : Catches(t, d),
         NEW u \in send_game_in_progress(t, c)
  PROVE  Follows(u) /\ SameCanvas(t, u)
<1> DEFINE r == IF c = t.drawer THEN "draw" ELSE "guess"
           m == InProgress(r, t.canvas)
<1>1. u = Send(t, {c}, m) /\ {c} \subseteq t.online /\ c \in Clients
  BY OnlineAreClients DEF send_game_in_progress
<1>2. m \in Heard /\ SaysRole(m) /\ m.flag # "START" /\ m.role = r /\ m.canvas = t.canvas
  BY SaidIsHeard DEF Typed, SaysRole, InProgress
<1> HIDE DEF m
<1>3. /\ Typed(u) /\ SameCanvas(t, u) /\ SameRound(t, u) /\ u.toServer = t.toServer
      /\ u.crossed = t.crossed
  BY <1>1, <1>2, SendTyped
<1>4. IsSent(t, {c}, m, u)
  BY <1>1, SendIsSent
<1>5. ASSUME NEW d \in u.online \ u.hung, d # c PROVE Catches(u, d)
  <2>1. d \in t.online \ t.hung /\ u.toClient[d] = t.toClient[d] /\ u.view[d] = t.view[d]
    BY <1>4, <1>5 DEF IsSent
  <2> QED BY <1>3, <1>5, <2>1, CatchesOn
<1>6. Catches(u, c)
  <2> DEFINE q == t.toClient[c]
  <2>1. u.toClient[c] = Append(q, m) /\ u.view[c] = t.view[c]
    BY <1>4 DEF IsSent
  <2>2. q \in Seq(Heard) /\ IsSeq(q) /\ t.view[c] \in Views
    BY <1>1, HeardIsSeq
  <2>3. Fresh(q, t.view[c].role) /\ Tells(q, t.view[c].role, "idle")
    BY FreshNothing, TellsNothing
  <2> HIDE DEF q
  <2>4. Fresh(u.toClient[c], u.view[c].role)
    BY <2>1, <2>2, <2>3, FreshMore
  <2>5. Seen(u.view[c], u.toClient[c]) = [role |-> r, canvas |-> t.canvas]
    <3>1. Seen(t.view[c], Append(q, m)) = [role |-> r, canvas |-> t.canvas]
      BY <1>2, <2>2, StartShows
    <3> QED BY <2>1, <3>1
  <2>6. Settled(u.toClient[c])
    <3>1. Settled(Append(q, m))
      BY <1>2, <2>2, ResetSettles
    <3> QED BY <2>1, <3>1
  <2>7. Stroked(u.canvas, u.toServer[c]) = t.canvas
    <3>1. u.toServer[c] = <<>> /\ u.canvas = t.canvas /\ t.canvas \in Canvas
      BY <1>3 DEF SameCanvas, Typed
    <3>2. <<>> \in Seq(ToServer) /\ \A k \in 1..Len(<<>>) : <<>>[k].flag # "CANVAS"
      OBVIOUS
    <3> QED BY <3>1, <3>2, StrokedByNothing
  <2>8. CatchesUp(u, c)
    BY <1>3, <2>5, <2>6, <2>7 DEF CatchesUp, SameRound, SameCanvas
  <2> QED BY <2>4, <2>8 DEF Catches
<1> QED BY <1>3, <1>5, <1>6 DEF Follows

\* The listener branch: the newcomer is told of the round, or one may start.
LEMMA JoinFollows ==
  ASSUME NEW t, Sound(t), Told(t), Follows(t), ~t.in_progress => Between(t),
         NEW c \in Clients, c \notin t.online, NEW u \in join(t, c)
  PROVE  Follows(u) /\ SameCanvas(t, u)
<1> DEFINE polled == Polling(t, c)
<1>1. PICK v \in broadcast(polled, c) :
        u \in IF v.in_progress THEN send_game_in_progress(v, c) ELSE validate_round(v)
  BY Zenon DEF join, Polling
<1>2. polled = Polling(t, c)
  OBVIOUS
<1> HIDE DEF polled
<1>3. /\ Sound(polled) /\ Told(polled) /\ SameRound(t, polled)
      /\ polled.online = t.online \cup {c} /\ polled.hung = t.hung
      /\ polled.crossed = t.crossed /\ polled.toServer = t.toServer
      /\ polled.toClient = t.toClient /\ polled.view = t.view
  BY <1>2, PollingSound
<1>4. /\ Typed(polled) /\ SameCanvas(t, polled)
      /\ \A d \in (polled.online \ polled.hung) \ {c} : Catches(polled, d)
  BY <1>2, PollingFollows
<1>5. Sound(v) /\ Loses(polled, v, {}) /\ Told(v)
  BY <1>1, <1>3, BroadcastLoses, LosesKeepsTold
<1>6. SameCanvas(polled, v)
  BY <1>1, <1>3, BroadcastKeepsCanvas DEF Sound, Good
<1>7. Typed(v)
  BY <1>4, <1>5, <1>6, LosesTyped
<1>8. \A d \in (v.online \ v.hung) \ {c} : Catches(v, d)
  <2>1. ASSUME NEW d \in (v.online \ v.hung) \ {c} PROVE Catches(v, d)
    <3>1. d \in (polled.online \ polled.hung) \ {c}
      BY <1>5 DEF Loses, Frame
    <3> QED BY <1>4, <1>5, <1>6, <3>1, LosesCatches
  <2> QED BY <2>1
<1>9. /\ c \in v.online \ v.hung
      /\ v.toClient[c] = <<>> /\ v.toServer[c] = <<>> /\ v.view[c] = Blank
  <2>1. c \notin polled.hung /\ polled.toClient[c] = <<>> /\ polled.toServer[c] = <<>>
        /\ polled.view[c] = Blank
    BY <1>3, OnlineAreClients DEF Sound, Plain
  <2>2. c \in v.online \ v.hung
    BY <1>3, <1>5, <2>1 DEF Loses, Frame
  <2> QED BY <1>5, <2>1, <2>2 DEF Loses, Frame
<1>10. CASE v.in_progress
  <2>1. u \in send_game_in_progress(v, c)
    BY <1>1, <1>10
  <2>2. Follows(u) /\ SameCanvas(v, u)
    BY <1>5, <1>7, <1>8, <1>9, <2>1, InProgressFollows
  <2> QED BY <1>4, <1>6, <2>2 DEF SameCanvas
<1>11. CASE ~v.in_progress
  <2>1. u \in validate_round(v)
    BY <1>1, <1>11
  <2>2. Between(v)
    <3>1. Between(t)
      BY <1>3, <1>5, <1>11 DEF Loses, SameRound
    <3>2. ASSUME NEW d \in polled.online \ (polled.hung \cup polled.crossed)
          PROVE  polled.toServer[d] = <<>>
      <4>1. CASE d = c
        BY <1>3, <4>1 DEF Sound, Plain
      <4>2. CASE d # c
        BY <1>3, <3>1, <3>2, <4>2 DEF Between
      <4> QED BY <4>1, <4>2
    <3>3. Between(polled)
      BY <1>3, <1>4, <3>1, <3>2 DEF Between, SameRound, SameCanvas
    <3> QED BY <1>5, <1>6, <3>3, LosesBetween
  <2>3. Follows(v)
    <3>1. Fresh(v.toClient[c], v.view[c].role)
      BY <1>9, FreshNothing
    <3>2. Catches(v, c)
      BY <1>11, <3>1 DEF Catches
    <3> QED BY <1>7, <1>8, <3>2 DEF Follows
  <2>4. Follows(u) /\ SameCanvas(v, u)
    BY <1>5, <2>1, <2>2, <2>3, ValidateFollows
  <2> QED BY <1>4, <1>6, <2>4 DEF SameCanvas
<1> QED BY <1>10, <1>11

\* The message of c is received: it matters only for the drawing player.
LEMMA ReceivedFollows ==
  ASSUME NEW t, Sound(t), Follows(t), NEW c \in Clients, t.toServer[c] # <<>>,
         NEW u, u = Received(t, c)
  PROVE  /\ Typed(u) /\ SameCanvas(t, u)
         /\ \A d \in u.online \ u.hung :
              d # c \/ c # t.drawer \/ ~t.in_progress => Catches(u, d)
<1>1. IsReceived(t, c, u)
  BY ReceivedSound
<1>2. SameCanvas(t, u)
  BY DEF Received, Sound, Good, Fields, SameCanvas
<1>3. Typed(u)
  BY <1>1, <1>2 DEF IsReceived, Follows, Typed, SameRound, SameCanvas
<1>4. ASSUME NEW d \in u.online \ u.hung, d # c \/ c # t.drawer \/ ~t.in_progress
      PROVE  Catches(u, d)
  <2>1. d \in t.online \ t.hung /\ d \in Clients
    BY <1>1, OnlineAreClients DEF IsReceived
  <2>2. Catches(t, d) /\ u.toClient[d] = t.toClient[d] /\ u.view[d] = t.view[d]
        /\ u.crossed = t.crossed /\ SameRound(t, u)
    BY <1>1, <2>1 DEF IsReceived, Follows
  <2>3. CASE ~t.in_progress
    BY <2>2, <2>3 DEF Catches, SameRound
  <2>4. CASE d # c \/ c # t.drawer
    <3>1. d = t.drawer => u.toServer[d] = t.toServer[d]
      BY <1>1, <2>1, <2>4 DEF IsReceived
    <3> QED BY <1>2, <2>2, <3>1, CatchesOn
  <2> QED BY <1>4, <2>3, <2>4
<1> QED BY <1>2, <1>3, <1>4

\* The others are sent the drawing.
LEMMA DrawnShows ==
  ASSUME NEW canvas \in Canvas, NEW q \in Seq(Heard), NEW v \in Views, NEW m \in Heard,
         m.flag = "CANVAS", Seen(v, q) = [role |-> "guess", canvas |-> canvas]
  PROVE  Seen(v, Append(q, m)) = [role |-> "guess", canvas |-> ToggleAll(canvas, m.diffs)]
<1> DEFINE w == [role |-> "guess", canvas |-> canvas]
<1>1. Seen(v, Append(q, m)) = Show(w, m)
  BY SeenMore
<1>2. Show(w, m) = [w EXCEPT !.canvas = ToggleAll(@, m.diffs)]
  BY DEF Show
<1>3. w.canvas = canvas
  OBVIOUS
<1> QED BY <1>1, <1>2, <1>3

\* The drawing player's message is taken, and the canvas changed.
LEMMA StrokeTaken ==
  ASSUME NEW t, Sound(t), Follows(t), NEW c \in Clients, t.toServer[c] # <<>>,
         NEW m, m = Head(t.toServer[c]), m.flag = "CANVAS"
  PROVE  /\ m \in ToServer
         /\ ToggleAll(t.canvas, Accepted(m.diffs)) \in Canvas
         /\ Stroked(ToggleAll(t.canvas, Accepted(m.diffs)), Tail(t.toServer[c]))
              = Stroked(t.canvas, t.toServer[c])
<1>1. t.toServer[c] \in Seq(ToServer) /\ t.canvas \in Canvas
  BY DEF Sound, Plain, Follows, Typed
<1>2. Stroke(t.canvas, m) = ToggleAll(t.canvas, Accepted(m.diffs))
  BY DEF Stroke
<1> QED BY <1>1, <1>2, StrokedRest

\* The drawing is accepted and passed on, or its player removed.
LEMMA DrawingFollows ==
  ASSUME NEW t, Sound(t), Follows(t), NEW c \in Clients, t.toServer[c] # <<>>,
         NEW m, m = Head(t.toServer[c]), m.flag = "CANVAS", c = t.drawer,
         NEW u \in manage_drawing_player(Received(t, c), c, m)
  PROVE  Follows(u)
<1> DEFINE v == Received(t, c)
           canvas == ToggleAll(t.canvas, Accepted(m.diffs))
           drawn == [v EXCEPT !.canvas = ToggleAll(@, Accepted(m.diffs))]
           spoiled == [drawn EXCEPT !.spoiled = @ \/ Accepted(m.diffs) # <<>>]
<1>1. Sound(v) /\ IsReceived(t, c, v)
  BY ReceivedSound
<1>2. /\ Typed(v) /\ SameCanvas(t, v)
      /\ \A d \in v.online \ v.hung : d # c => Catches(v, d)
  BY ReceivedFollows
<1>3. u \in IF Accepted(m.diffs) = m.diffs THEN broadcast_buffer(drawn, c, m)
            ELSE remove_player_from_server(spoiled, c)
  BY Zenon DEF manage_drawing_player
<1> HIDE DEF v
<1>4. /\ DOMAIN drawn = Fields /\ drawn.pfds = v.pfds /\ drawn.online = v.online
      /\ drawn.hung = v.hung /\ drawn.crossed = v.crossed /\ drawn.toServer = v.toServer
      /\ drawn.toClient = v.toClient /\ drawn.view = v.view /\ SameRound(v, drawn)
      /\ drawn.canvas = canvas /\ drawn.spoiled = t.spoiled
  BY <1>1, <1>2 DEF Sound, Good, Fields, SameRound, SameCanvas
<1>5. /\ m \in ToServer /\ canvas \in Canvas
      /\ Stroked(canvas, Tail(t.toServer[c])) = Stroked(t.canvas, t.toServer[c])
  BY StrokeTaken
<1> HIDE DEF drawn
<1>6. Sound(drawn)
  BY <1>1, <1>4, FieldsFrame
<1>7. Typed(drawn)
  BY <1>2, <1>4, <1>5 DEF Typed, SameRound, SameCanvas
<1>8. /\ drawn.online = t.online /\ drawn.hung = t.hung /\ drawn.toClient = t.toClient
      /\ drawn.view = t.view /\ drawn.crossed = t.crossed /\ SameRound(t, drawn)
      /\ drawn.toServer[c] = Tail(t.toServer[c])
  BY <1>1, <1>4 DEF IsReceived, SameRound
<1>9. CASE Accepted(m.diffs) = m.diffs
  <2> DEFINE w == Send(drawn, drawn.online \ {c}, m)
  <2>1. m \in Heard
    <3>1. \A d \in Strokes : Drawing(d) \in ToClient
      BY DEF ToClient
    <3>2. m \in ToClient
      BY <1>5, <3>1 DEF ToServer, HeartBeat, Chat
    <3> QED BY <1>9, <3>2 DEF Heard
  <2>2. u \in broadcast_buffer(drawn, c, m) /\ drawn.online \ {c} \subseteq drawn.online
    BY <1>3, <1>9
  <2>3. /\ Sound(w) /\ IsSent(drawn, drawn.online \ {c}, m, w)
        /\ Sound(u) /\ Loses(w, u, {}) /\ SameCanvas(drawn, u)
    BY <1>6, <2>2, BroadcastBufferLoses
  <2>4. /\ Typed(w) /\ SameCanvas(drawn, w) /\ SameRound(drawn, w)
        /\ w.toServer = drawn.toServer /\ w.crossed = drawn.crossed
    BY <1>6, <1>7, <2>1, <2>2, SendTyped
  <2> HIDE DEF w
  <2>5. w.canvas = canvas /\ w.spoiled = t.spoiled /\ SameRound(t, w)
    BY <1>4, <1>8, <2>4 DEF SameCanvas, SameRound
  <2> HIDE DEF canvas
  <2>6. ASSUME NEW d \in w.online \ w.hung PROVE Catches(w, d)
    <3>1. /\ d \in t.online \ t.hung /\ d \in Clients /\ w.view[d] = t.view[d]
          /\ w.toClient[d] = IF d = c THEN t.toClient[d] ELSE Append(t.toClient[d], m)
      <4>1. /\ d \in drawn.online \ drawn.hung /\ w.view[d] = drawn.view[d]
            /\ w.toClient[d] = IF d \in drawn.online \ {c} THEN Append(drawn.toClient[d], m)
                               ELSE drawn.toClient[d]
        BY <2>3 DEF IsSent
      <4> QED BY <1>8, <4>1, OnlineAreClients
    <3>2. Catches(t, d)
      BY <3>1 DEF Follows
    <3>3. CASE d = c
      <4>1. w.toServer[c] = Tail(t.toServer[c])
        BY <1>8, <2>4
      <4> QED BY <1>5, <1>8, <2>4, <2>5, <3>1, <3>2, <3>3, <4>1 DEF Catches, CatchesUp, SameRound
    <3>4. CASE d # c
      <4>1. /\ t.toClient[d] \in Seq(Heard) /\ IsSeq(t.toClient[d]) /\ t.view[d] \in Views
            /\ t.canvas \in Canvas
        BY <3>1, HeardIsSeq DEF Follows, Typed
      <4>2. ~SaysRole(m)
        BY DEF SaysRole
      <4>3. Fresh(w.toClient[d], w.view[d].role)
        <5>1. Fresh(Append(t.toClient[d], m), t.view[d].role)
          BY <3>2, <4>1, <4>2, FreshMore DEF Catches
        <5> QED BY <3>1, <3>4, <5>1
      <4>4. ASSUME w.in_progress, ~w.spoiled
            PROVE  Seen(w.view[d], w.toClient[d]) = [role |-> "guess", canvas |-> w.canvas]
        <5>1. Seen(t.view[d], t.toClient[d]) = [role |-> "guess", canvas |-> t.canvas]
          BY <2>5, <3>2, <3>4, <4>4 DEF Catches, CatchesUp, SameRound
        <5>2. Seen(t.view[d], Append(t.toClient[d], m))
                = [role |-> "guess", canvas |-> ToggleAll(t.canvas, m.diffs)]
          BY <2>1, <4>1, <5>1, DrawnShows
        <5> QED BY <1>9, <2>5, <3>1, <3>4, <5>2 DEF canvas
      <4> QED BY <2>5, <3>4, <4>3, <4>4 DEF Catches, CatchesUp, SameRound
    <3> QED BY <3>3, <3>4
  <2>7. Follows(w) /\ SameCanvas(w, u)
    BY <2>3, <2>4, <2>6 DEF Follows, SameCanvas
  <2> QED BY <2>3, <2>7, LosesFollows
<1>10. CASE Accepted(m.diffs) # m.diffs
  <2>1. /\ DOMAIN spoiled = Fields /\ spoiled.pfds = drawn.pfds /\ spoiled.online = drawn.online
        /\ spoiled.hung = drawn.hung /\ spoiled.crossed = drawn.crossed
        /\ spoiled.toServer = drawn.toServer
        /\ spoiled.toClient = drawn.toClient /\ spoiled.view = drawn.view
        /\ SameRound(drawn, spoiled) /\ spoiled.canvas = canvas
        /\ spoiled.spoiled = (drawn.spoiled \/ Accepted(m.diffs) # <<>>)
    BY <1>4 DEF Fields, SameRound
  <2>2. u \in remove_player_from_server(spoiled, c)
    BY <1>3, <1>10
  <2> HIDE DEF spoiled
  <2>3. Sound(spoiled)
    BY <1>6, <2>1, FieldsFrame
  <2>4. spoiled.spoiled \in BOOLEAN
    BY <2>1
  <2>5. Typed(spoiled)
    BY <1>4, <1>5, <1>7, <2>1, <2>4 DEF Typed, SameRound
  <2>6. Accepted(m.diffs) = <<>> => canvas = t.canvas
    <3>1. t.canvas \in Canvas
      BY DEF Follows, Typed
    <3> QED BY <3>1, ToggledByNothing
  <2> HIDE DEF canvas
  <2>7. ASSUME NEW d \in (spoiled.online \ spoiled.hung) \ {c} PROVE Catches(spoiled, d)
    <3>1. d \in t.online \ t.hung /\ Catches(t, d) /\ SameRound(t, spoiled)
      BY <1>8, <2>1, <2>7 DEF Follows, SameRound
    <3>2. spoiled.toClient[d] = t.toClient[d] /\ spoiled.view[d] = t.view[d]
      BY <1>8, <2>1
    <3>3. CASE Accepted(m.diffs) = <<>>
      BY <1>4, <2>1, <2>6, <2>7, <3>1, <3>2, <3>3 DEF Catches, CatchesUp, SameRound
    <3>4. CASE Accepted(m.diffs) # <<>>
      BY <2>1, <3>1, <3>2, <3>4 DEF Catches
    <3> QED BY <3>3, <3>4
  <2> QED BY <2>2, <2>3, <2>5, <2>7, RemovalFollows
<1> QED BY <1>9, <1>10

\* The other branch.
LEMMA ReadableFollows ==
  ASSUME NEW t, Sound(t), Follows(t), NEW c \in Clients, NEW u \in readable(t, c)
  PROVE  Follows(u) /\ (~t.in_progress => SameCanvas(t, u))
<1>1. \A d \in (t.online \ t.hung) \ {c} : Catches(t, d)
  BY DEF Follows
<1>2. CASE u \in remove_player_from_server(t, c)
  BY <1>1, <1>2, RemovalFollows DEF Follows
<1>3. CASE u \notin remove_player_from_server(t, c)
  <2>1. t.in_progress /\ u \in manage_player_action(t, c)
    BY <1>3 DEF readable
  <2> DEFINE v == Received(t, c)
             m == Head(t.toServer[c])
  <2>2. t.toServer[c] # <<>>
    BY <1>3, <2>1, Zenon DEF manage_player_action
  <2>3. u \in IF c = t.drawer /\ m.flag = "CANVAS" THEN manage_drawing_player(v, c, m)
              ELSE IF c # t.drawer /\ m.flag = "CHAT" THEN manage_guessing_player(v, c)
              ELSE remove_player_from_server(v, c)
    BY <2>1, <2>2, Zenon DEF manage_player_action, Received
  <2>4. v = Received(t, c) /\ m = Head(t.toServer[c])
    OBVIOUS
  <2> HIDE DEF v, m
  <2>5. Sound(v)
    BY <2>2, <2>4, ReceivedSound
  <2>6. /\ Typed(v)
        /\ \A d \in v.online \ v.hung : d # c \/ c # t.drawer => Catches(v, d)
    BY <2>2, <2>4, ReceivedFollows
  <2>7. CASE c = t.drawer /\ m.flag = "CANVAS"
    <3>1. u \in manage_drawing_player(Received(t, c), c, m)
      BY <2>3, <2>4, <2>7
    <3> QED BY <2>1, <2>2, <2>4, <2>7, <3>1, DrawingFollows
  <2>8. CASE c # t.drawer /\ m.flag = "CHAT"
    <3>1. u \in manage_guessing_player(v, c) /\ Follows(v)
      BY <2>3, <2>6, <2>8 DEF Follows
    <3>2. CASE u \in broadcast(v, c)
      BY <2>1, <2>5, <3>1, <3>2, BroadcastFollows
    <3>3. CASE u \in remove_player_from_server(v, c)
      BY <2>1, <2>5, <2>6, <3>3, RemovalFollows
    <3> QED BY <3>1, <3>2, <3>3 DEF manage_guessing_player
  <2>9. CASE ~(c = t.drawer /\ m.flag = "CANVAS") /\ ~(c # t.drawer /\ m.flag = "CHAT")
    <3>1. u \in remove_player_from_server(v, c)
      BY <2>3, <2>9
    <3> QED BY <2>1, <2>5, <2>6, <3>1, RemovalFollows
  <2> QED BY <2>7, <2>8, <2>9
<1> QED BY <1>2, <1>3

\* The invariant: between two rounds the canvas is empty.
CInv ==
  /\ SInv
  /\ Follows(s)
  /\ ~s.in_progress /\ at # "beat" => s.canvas = {} /\ ~s.spoiled
  /\ at \in {"poll", "rounds", "beat", "walk"}

\* A state in which nothing of the round and of the connections is different.
LEMMA SameFollows ==
  ASSUME NEW t, Follows(t), NEW u, SameRound(t, u), SameCanvas(t, u),
         u.online = t.online, u.hung = t.hung, u.crossed = t.crossed,
         u.toServer = t.toServer, u.toClient = t.toClient, u.view = t.view
  PROVE  Follows(u)
<1>1. Typed(u)
  BY DEF Follows, Typed, SameRound, SameCanvas
<1>2. \A c \in u.online \ u.hung : Catches(u, c)
  BY DEF Follows, Catches, CatchesUp, SameRound, SameCanvas
<1> QED BY <1>1, <1>2 DEF Follows

\* Outside end_round, no round is between two rounds.
LEMMA QuietIsBetween ==
  ASSUME CInv, at # "beat", ~s.in_progress
  PROVE  Between(s)
<1>1. Sound(s) /\ InStep(s, at, beats, asked)
  BY Conversing DEF CInv
<1>2. ASSUME NEW c \in s.online \ (s.hung \cup s.crossed) PROVE s.toServer[c] = <<>>
  <2>1. Fits(s, c) /\ c \in Clients
    BY <1>1, OnlineAreClients DEF InStep
  <2>2. s.toServer[c] \in Seq(ToServer)
    BY <1>1, <2>1 DEF Sound, Plain
  <2>3. ~(1 \in 1..Len(s.toServer[c]))
    BY <2>1 DEF Fits
  <2> QED BY <2>2, <2>3
<1> QED BY <1>2 DEF Between, CInv

-----------------------------------------------------------------------------
(* The steps that keep it *)

\* At the start.
LEMMA InitFollows == Init => CInv
<1> SUFFICES ASSUME Init PROVE CInv
  OBVIOUS
<1>1. SInv
  BY InitConverses
<1>2. /\ s.online = {} /\ s.in_progress = FALSE /\ s.phase = "due" /\ s.drawer = None
      /\ s.canvas = {} /\ s.spoiled = FALSE
      /\ s.toClient = [c \in Clients |-> <<>>] /\ s.view = [c \in Clients |-> Blank]
      /\ at = "poll"
  BY DEF Init
<1>3. Typed(s)
  BY <1>2, BlankIsView DEF Typed, Phases
<1> QED BY <1>1, <1>2, <1>3 DEF CInv, Follows

\* poll reports.
LEMMA PollFollows ==
  ASSUME CInv, Poll, SInv'
  PROVE  CInv'
<1>1. DOMAIN s = Fields
  BY Conversing DEF CInv
<1>2. /\ at = "poll" /\ at' = "rounds" /\ SameRound(s, s') /\ SameCanvas(s, s')
      /\ s'.online = s.online /\ s'.hung = s.hung /\ s'.crossed = s.crossed
      /\ s'.toServer = s.toServer /\ s'.toClient = s.toClient /\ s'.view = s.view
  BY <1>1 DEF Poll, Fields, SameRound, SameCanvas
<1>3. Follows(s')
  BY <1>2, SameFollows DEF CInv
<1> QED BY <1>2, <1>3 DEF CInv, SameRound, SameCanvas

\* The round ends for the server.
LEMMA EndRoundFollows ==
  ASSUME CInv, EndRound, SInv'
  PROVE  CInv'
<1>1. DOMAIN s = Fields
  BY Conversing DEF CInv
<1>2. /\ at' = "beat" /\ s'.in_progress = FALSE /\ s'.phase = s.phase
      /\ s'.drawer = s.drawer /\ SameCanvas(s, s')
      /\ s'.online = s.online /\ s'.hung = s.hung /\ s'.crossed = s.crossed
      /\ s'.toServer = s.toServer /\ s'.toClient = s.toClient /\ s'.view = s.view
  BY <1>1 DEF EndRound, Fields, SameCanvas
<1>3. Typed(s')
  BY <1>2 DEF CInv, Follows, Typed, SameCanvas
<1>4. \A c \in s'.online \ s'.hung : Catches(s', c)
  BY <1>2 DEF CInv, Follows, Catches
<1> QED BY <1>2, <1>3, <1>4 DEF CInv, Follows

\* HEART_BEAT is sent to c, or c is removed.
LEMMA BeatFollows ==
  ASSUME CInv, NEW c \in Clients, Beat(c), SInv'
  PROVE  CInv'
<1>1. Sound(s) /\ DOMAIN s = Fields /\ ~s.in_progress /\ Follows(s) /\ at = "beat" /\ at' = at
  BY Conversing DEF CInv, Beat
<1>2. CASE /\ c \in s.online
           /\ s' = [Send(s, {c}, HeartBeat) EXCEPT
                      !.crossed = IF s.toServer[c] = <<>> THEN @ ELSE @ \cup {c}]
  <2> DEFINE u == Send(s, {c}, HeartBeat)
  <2>1. {c} \subseteq s.online
    BY <1>2
  <2>2. Typed(u) /\ SameCanvas(s, u) /\ SameRound(s, u)
    BY <1>1, <2>1, SaidIsHeard, SendTyped DEF Follows
  <2>3. IsSent(s, {c}, HeartBeat, u)
    BY <1>1, <2>1, SendIsSent
  <2>4. DOMAIN u = Fields
    BY <1>1 DEF Send, Fields
  <2>5. s' = [u EXCEPT !.crossed = IF s.toServer[c] = <<>> THEN @ ELSE @ \cup {c}]
    BY <1>2
  <2> HIDE DEF u
  <2>6. /\ s'.online = u.online /\ s'.hung = u.hung /\ s'.toClient = u.toClient
        /\ s'.view = u.view /\ SameRound(u, s') /\ SameCanvas(u, s')
    BY <2>4, <2>5 DEF Fields, SameRound, SameCanvas
  <2>7. Typed(s')
    BY <2>2, <2>6 DEF Typed, SameRound, SameCanvas
  <2>8. ASSUME NEW d \in s'.online \ s'.hung PROVE Catches(s', d)
    <3>1. /\ d \in s.online \ s.hung /\ IsSeq(s.toClient[d]) /\ s'.view[d] = s.view[d]
          /\ s'.toClient[d] = IF d \in {c} THEN Append(s.toClient[d], HeartBeat)
                              ELSE s.toClient[d]
      BY <2>3, <2>6, <2>8 DEF IsSent
    <3>2. Fresh(s.toClient[d], s.view[d].role) /\ ~SaysRole(HeartBeat)
      BY <1>1, <3>1 DEF Follows, Catches, SaysRole, HeartBeat
    <3>3. Fresh(Append(s.toClient[d], HeartBeat), s.view[d].role)
      BY <3>1, <3>2, FreshMore
    <3>4. ~s'.in_progress
      BY <1>1, <2>2, <2>6 DEF SameRound
    <3> QED BY <3>1, <3>2, <3>3, <3>4 DEF Catches
  <2> QED BY <1>1, <2>7, <2>8 DEF CInv, Follows
<1>3. CASE s' \in remove_player_from_server(s, c)
  <2>1. \A d \in (s.online \ s.hung) \ {c} : Catches(s, d)
    BY <1>1 DEF Follows
  <2>2. Follows(s')
    BY <1>1, <1>3, <2>1, RemovalFollows DEF Follows
  <2> QED BY <1>1, <2>2 DEF CInv
<1>4. CASE s' = s
  BY <1>1, <1>4 DEF CInv
<1> QED BY <1>2, <1>3, <1>4 DEF Beat

\* The answer is received, or its player removed.
LEMMA AnswerFollows ==
  ASSUME CInv, Answer, SInv'
  PROVE  CInv'
<1>1. Sound(s) /\ ~s.in_progress /\ Follows(s) /\ at = "beat" /\ at' = at /\ asked \in Clients
  BY Conversing DEF CInv, Answer
<1>2. CASE s.toServer[asked] # <<>> /\ s' = Received(s, asked)
  <2>1. /\ Typed(s')
        /\ \A d \in s'.online \ s'.hung : Catches(s', d)
    BY <1>1, <1>2, ReceivedFollows
  <2> QED BY <1>1, <2>1 DEF CInv, Follows
<1>3. CASE s' \in remove_player_from_server(s, asked)
  <2>1. \A d \in (s.online \ s.hung) \ {asked} : Catches(s, d)
    BY <1>1 DEF Follows
  <2>2. Follows(s')
    BY <1>1, <1>3, <2>1, RemovalFollows DEF Follows
  <2> QED BY <1>1, <2>2 DEF CInv
<1> QED BY <1>2, <1>3 DEF Answer, Received

\* GAME_ENDS is sent, and the next round may start.
LEMMA FinishRoundFollows ==
  ASSUME CInv, FinishRound, SInv'
  PROVE  CInv'
<1>1. /\ Sound(s) /\ ~s.in_progress /\ Follows(s) /\ InStep(s, "beat", {}, None)
      /\ s' \in finish_round(s) /\ at' = "walk"
  BY Conversing DEF CInv, FinishRound
<1>2. ASSUME NEW c \in s.online \ (s.hung \cup s.crossed) PROVE s.toServer[c] = <<>>
  <2>1. OnlyAnswers(s, c, None) /\ c \in Clients
    BY <1>1, OnlineAreClients DEF InStep
  <2>2. s.toServer[c] \in Seq(ToServer) /\ c # None
    BY <1>1, <2>1, SessionAssumption DEF Sound, Plain
  <2>3. ~(1 \in 1..Len(s.toServer[c]))
    BY <2>1, <2>2 DEF OnlyAnswers
  <2> QED BY <2>2, <2>3
<1>3. Follows(s') /\ s'.canvas = {} /\ ~s'.spoiled
  BY <1>1, <1>2, FinishFollows
<1> QED BY <1>1, <1>3 DEF CInv

\* A client logs in, or fails to.
LEMMA AcceptFollows ==
  ASSUME CInv, Accept, SInv'
  PROVE  CInv'
<1>1. /\ Sound(s) /\ Told(s) /\ Follows(s) /\ at = "walk" /\ at' = at /\ backlog # <<>>
      /\ s' \in join(s, Head(backlog)) \cup {s}
  BY Conversing DEF CInv, Accept, Walking
<1>2. CASE s' = s
  BY <1>1, <1>2 DEF CInv
<1>3. CASE s' \in join(s, Head(backlog))
  <2>1. Head(backlog) \in Clients /\ Head(backlog) \notin s.online
    BY <1>1, AcceptedLeaves DEF CInv, SInv, IInv
  <2>2. ~s.in_progress => Between(s)
    BY <1>1, QuietIsBetween
  <2>3. Follows(s') /\ SameCanvas(s, s')
    BY <1>1, <1>3, <2>1, <2>2, JoinFollows
  <2>4. s.in_progress => s'.in_progress
    <3>1. s.in_progress => SameRound(s, s')
      BY <1>1, <1>3, <2>1, JoinFrame
    <3> QED BY <3>1 DEF SameRound
  <2> QED BY <1>1, <2>3, <2>4 DEF CInv, SameCanvas
<1> QED BY <1>1, <1>2, <1>3

\* A message is taken, or its client removed.
LEMMA ReceiveFollows ==
  ASSUME CInv, Receive, SInv'
  PROVE  CInv'
<1>1. /\ Sound(s) /\ Good(s) /\ Told(s) /\ Follows(s) /\ at = "walk" /\ at' = at
      /\ i \in Nat \ {0} /\ Walking /\ Entry.fd # Listener /\ s' \in readable(s, Entry.fd)
  BY Conversing DEF CInv, Receive, Walking
<1>2. Entry.fd \in Clients
  BY <1>1, EntryIsOnce, OnlineAreClients
<1>3. Follows(s') /\ (~s.in_progress => SameCanvas(s, s'))
  BY <1>1, <1>2, ReadableFollows
<1>4. SameRound(s, s')
  BY <1>1, <1>2, ReadableFrame
<1> QED BY <1>1, <1>3, <1>4 DEF CInv, SameRound, SameCanvas

\* Time passes.
LEMMA TickFollows ==
  ASSUME CInv, Tick, SInv'
  PROVE  CInv'
<1>1. DOMAIN s = Fields
  BY Conversing DEF CInv
<1>2. /\ s'.phase \in Phases
      /\ s.in_progress /\ s'.in_progress = s.in_progress /\ s'.drawer = s.drawer
      /\ SameCanvas(s, s')
      /\ s'.online = s.online /\ s'.hung = s.hung /\ s'.crossed = s.crossed
      /\ s'.toServer = s.toServer /\ s'.toClient = s.toClient /\ s'.view = s.view
      /\ at' = at
  BY <1>1 DEF Tick, Fields, SameCanvas, Phases
<1>3. Typed(s')
  BY <1>2 DEF CInv, Follows, Typed, SameCanvas
<1>4. \A c \in s'.online \ s'.hung : Catches(s', c)
  BY <1>2 DEF CInv, Follows, Catches, CatchesUp, SameCanvas
<1> QED BY <1>2, <1>3, <1>4 DEF CInv, Follows

\* A client hangs up.
LEMMA HangUpFollows ==
  ASSUME CInv, NEW c \in Clients, HangUp(c), SInv'
  PROVE  CInv'
<1>1. Sound(s) /\ DOMAIN s = Fields /\ Follows(s) /\ Plain(s)
  BY Conversing DEF CInv, Sound
<1>2. /\ SameRound(s, s') /\ SameCanvas(s, s')
      /\ s'.online = s.online /\ s'.hung = s.hung \cup {c} /\ s'.crossed = s.crossed
      /\ s'.toServer = s.toServer /\ s'.toClient = [s.toClient EXCEPT ![c] = <<>>]
      /\ s'.view = [s.view EXCEPT ![c] = Blank]
      /\ at' = at
  BY <1>1 DEF HangUp, Fields, SameRound, SameCanvas
<1>3. \A d \in Clients : /\ s'.toClient[d] = IF d = c THEN <<>> ELSE s.toClient[d]
                         /\ s'.view[d] = IF d = c THEN Blank ELSE s.view[d]
  <2>1. /\ c \in DOMAIN s.toClient /\ DOMAIN s.toClient = Clients
        /\ c \in DOMAIN s.view /\ DOMAIN s.view = Clients
    BY <1>1, Zenon DEF Plain
  <2> QED BY <1>2, <2>1
<1>4. Typed(s')
  BY <1>1, <1>2, <1>3, BlankIsView DEF Follows, Typed, SameRound, SameCanvas
<1>5. ASSUME NEW d \in s'.online \ s'.hung PROVE Catches(s', d)
  <2>1. d \in s.online \ s.hung /\ d # c /\ d \in Clients
    BY <1>1, <1>2, OnlineAreClients
  <2>2. Catches(s, d)
    BY <1>1, <2>1 DEF Follows
  <2> QED BY <1>2, <1>3, <2>1, <2>2, CatchesOn
<1> QED BY <1>2, <1>4, <1>5 DEF CInv, Follows, SameRound, SameCanvas

\* A client reads a message.
LEMMA ReadFollows ==
  ASSUME CInv, NEW c \in Clients, Read(c), SInv'
  PROVE  CInv'
<1>1. Sound(s) /\ DOMAIN s = Fields /\ Follows(s) /\ Plain(s)
  BY Conversing DEF CInv, Sound
<1> DEFINE q == s.toClient[c]
           m == Head(q)
           v == s.view[c]
           answers == IF m = HeartBeat THEN Append(s.toServer[c], m) ELSE s.toServer[c]
<1>2. /\ c \in s.online \ s.hung /\ q # <<>> /\ SameRound(s, s') /\ SameCanvas(s, s')
      /\ s'.online = s.online /\ s'.hung = s.hung /\ s'.crossed = s.crossed
      /\ s'.toServer = [s.toServer EXCEPT ![c] = answers]
      /\ s'.toClient = [s.toClient EXCEPT ![c] = Tail(q)]
      /\ s'.view = [s.view EXCEPT ![c] = Show(v, m)]
      /\ at' = at
  BY <1>1 DEF Read, Fields, SameRound, SameCanvas
<1>3. q \in Seq(Heard) /\ IsSeq(q) /\ v \in Views /\ s.canvas \in Canvas
      /\ s.toServer[c] \in Seq(ToServer)
  BY <1>1, HeardIsSeq DEF Follows, Typed, Plain
<1>4. Stroked(s.canvas, answers) = Stroked(s.canvas, s.toServer[c])
  <2>1. CASE m = HeartBeat
    <3>1. HeartBeat \in ToServer
      BY DEF ToServer
    <3>2. Stroked(s.canvas, answers) = Stroke(Stroked(s.canvas, s.toServer[c]), HeartBeat)
      BY <1>3, <2>1, <3>1, StrokedMore
    <3> QED BY <3>2 DEF Stroke, HeartBeat
  <2>2. CASE m # HeartBeat
    BY <2>2
  <2> QED BY <2>1, <2>2
<1>5. q = s.toClient[c] /\ m = Head(q) /\ v = s.view[c]
  OBVIOUS
<1> HIDE DEF answers, m, q, v
<1>6. \A d \in Clients : /\ s'.toServer[d] = IF d = c THEN answers ELSE s.toServer[d]
                         /\ s'.toClient[d] = IF d = c THEN Tail(q) ELSE s.toClient[d]
                         /\ s'.view[d] = IF d = c THEN Show(v, m) ELSE s.view[d]
  <2>1. /\ DOMAIN s.toServer = Clients /\ DOMAIN s.toClient = Clients /\ DOMAIN s.view = Clients
    BY <1>1, Zenon DEF Plain
  <2> QED BY <1>2, <2>1
<1>7. /\ m \in Heard /\ Tail(q) \in Seq(Heard) /\ Show(v, m) \in Views
      /\ Seen(Show(v, m), Tail(q)) = Seen(v, q)
  BY <1>2, <1>3, <1>5, SeenRest
<1>8. Typed(s')
  BY <1>1, <1>2, <1>6, <1>7 DEF Follows, Typed, SameRound, SameCanvas
<1>9. Fresh(q, v.role) => Fresh(Tail(q), Show(v, m).role)
  <2>1. /\ m.flag = "GAME_ENDS" => Show(v, m).role = "idle"
        /\ ~Resets(m) => Show(v, m).role = v.role
    BY <1>3, <1>7, RoleShown
  <2> QED BY <1>2, <1>3, <1>5, <2>1, FreshRest
<1>10. Settled(q) => Settled(Tail(q))
  BY <1>2, <1>3, SettledRest
<1>11. ASSUME NEW d \in s'.online \ s'.hung PROVE Catches(s', d)
  <2>1. d \in s.online \ s.hung /\ d \in Clients
    BY <1>1, <1>2, OnlineAreClients
  <2>2. Catches(s, d)
    BY <1>1, <2>1 DEF Follows
  <2>3. CASE d # c
    <3>1. /\ s'.toClient[d] = s.toClient[d] /\ s'.view[d] = s.view[d]
          /\ s'.toServer[d] = s.toServer[d]
      BY <1>6, <2>1, <2>3
    <3> QED BY <1>2, <2>2, <3>1, CatchesOn
  <2>4. CASE d = c
    <3>1. /\ s'.toClient[c] = Tail(q) /\ s'.view[c] = Show(v, m) /\ s'.toServer[c] = answers
          /\ s'.crossed = s.crossed /\ SameRound(s, s') /\ SameCanvas(s, s')
      BY <1>2, <1>6
    <3>2. Fresh(s'.toClient[c], s'.view[c].role)
      BY <1>5, <1>9, <2>2, <2>4, <3>1 DEF Catches
    <3>3. CatchesUp(s, c) => CatchesUp(s', c)
      BY <1>4, <1>5, <1>7, <1>10, <3>1 DEF CatchesUp, SameRound, SameCanvas
    <3> QED BY <2>2, <2>4, <3>1, <3>2, <3>3 DEF Catches, SameRound, SameCanvas
  <2> QED BY <2>3, <2>4
<1> QED BY <1>2, <1>8, <1>11 DEF CInv, Follows, SameRound, SameCanvas

\* A client that has not been told the end of the round, and will not be, has nothing on
\* its way that changes its role.
LEMMA NothingToCome ==
  ASSUME NEW q, IsSeq(q), NEW role, role # "idle", Fresh(q, role),
         \A k \in 1..Len(q) : q[k] # GameEnds,
         \A k \in 1..Len(q) : q[k].flag = "GAME_ENDS" => q[k] = GameEnds
  PROVE  /\ \A k \in 1..Len(q) : ~Resets(q[k])
         /\ Settled(q) => \A k \in 1..Len(q) : q[k].flag # "CANVAS"
<1>1. \A k \in 1..Len(q) : ~SaysRole(q[k])
  BY DEF Fresh
<1>2. \A k \in 1..Len(q) : ~Resets(q[k])
  BY <1>1 DEF Resets
<1> QED BY <1>2 DEF Settled

\* GAME_ENDS is one message.
LEMMA EndIsEnd ==
  ASSUME NEW m \in Heard, m.flag = "GAME_ENDS"
  PROVE  m = GameEnds
BY DEF Heard, ToClient, HeartBeat, Start, InProgress, Drawing, GameEnds

\* A client draws or guesses.
LEMMA PlayFollows ==
  ASSUME CInv, NEW c \in Clients, Play(c), SInv'
  PROVE  CInv'
<1>1. /\ Sound(s) /\ DOMAIN s = Fields /\ Follows(s) /\ Plain(s)
      /\ at = "beat" => ~s.in_progress
      /\ at # "beat" => Told(s)
  BY Conversing DEF CInv, Sound
<1>2. PICK m \in IF s.view[c].role = "draw" THEN {Drawing(d) : d \in Strokes} ELSE {Chat} :
        s' = [s EXCEPT
                !.toServer[c] = Append(@, m),
                !.view[c].canvas = IF m = Chat THEN @ ELSE ToggleAll(@, Accepted(m.diffs)),
                !.crossed = IF RoundIsEndingFor(c) THEN @ \cup {c} ELSE @]
  BY DEF Play
<1>3. /\ m \in ToServer
      /\ m.flag = (IF s.view[c].role = "draw" THEN "CANVAS" ELSE "CHAT")
      /\ m = Chat <=> m.flag # "CANVAS"
  BY DEF ToServer, Drawing, Chat
<1> DEFINE q == s.toClient[c]
           v == s.view[c]
           shown == [s.view[c] EXCEPT !.canvas =
                       IF m = Chat THEN @ ELSE ToggleAll(@, Accepted(m.diffs))]
           sent == Append(s.toServer[c], m)
<1>4. /\ c \in s.online \ s.hung /\ SameRound(s, s') /\ SameCanvas(s, s')
      /\ s'.online = s.online /\ s'.hung = s.hung
      /\ s'.crossed = (IF RoundIsEndingFor(c) THEN s.crossed \cup {c} ELSE s.crossed)
      /\ s'.toServer = [s.toServer EXCEPT ![c] = sent]
      /\ s'.toClient = s.toClient
      /\ s'.view = [s.view EXCEPT ![c] = shown]
      /\ v.role # "idle" /\ at' = at
  BY <1>1, <1>2 DEF Play, Fields, SameRound, SameCanvas
<1>5. /\ q \in Seq(Heard) /\ IsSeq(q) /\ v \in Views /\ s.canvas \in Canvas
      /\ s.toServer[c] \in Seq(ToServer)
  BY <1>1, HeardIsSeq DEF Follows, Typed, Plain
<1>6. /\ shown = [role |-> v.role, canvas |-> Stroke(v.canvas, m)]
      /\ shown \in Views /\ (m.flag # "CANVAS" => shown = v)
  <2>1. v.canvas \in Canvas /\ v.role \in Roles /\ v = [role |-> v.role, canvas |-> v.canvas]
    BY <1>5 DEF Views
  <2>2. Stroke(v.canvas, m) \in Canvas
    BY <1>3, <2>1, StrokeStays
  <2>3. shown = [role |-> v.role, canvas |-> Stroke(v.canvas, m)]
    BY <1>3, <2>1 DEF Stroke
  <2>4. m.flag # "CANVAS" => Stroke(v.canvas, m) = v.canvas
    BY DEF Stroke
  <2> HIDE DEF shown, v
  <2> QED BY <2>1, <2>2, <2>3, <2>4 DEF Views
<1>7. q = s.toClient[c] /\ v = s.view[c] /\ sent = Append(s.toServer[c], m)
  OBVIOUS
<1> HIDE DEF q, v, shown, sent
<1>8. \A d \in Clients : /\ s'.toServer[d] = IF d = c THEN sent ELSE s.toServer[d]
                         /\ s'.view[d] = IF d = c THEN shown ELSE s.view[d]
  <2>1. DOMAIN s.toServer = Clients /\ DOMAIN s.view = Clients
    BY <1>1, Zenon DEF Plain
  <2> QED BY <1>4, <2>1
<1>9. Typed(s')
  BY <1>1, <1>4, <1>6, <1>8 DEF Follows, Typed, SameRound, SameCanvas
<1>10. Catches(s, c) /\ shown.role = v.role
  BY <1>1, <1>4, <1>6 DEF Follows
\* What c shows in the end, if it has been told of an end, and if not.
<1>11. ASSUME NEW l \in 1..Len(q), q[l] = GameEnds
       PROVE  Seen(shown, q) = Seen(v, q)
  <2>1. Resets(q[l])
    BY <1>11 DEF Resets, GameEnds
  <2> QED BY <1>5, <1>6, <2>1, SeenAnew
<1>12. ASSUME \A k \in 1..Len(q) : q[k] # GameEnds, s.in_progress, ~s.spoiled
       PROVE  /\ c = s.drawer => Seen(v, q) = v /\ Seen(shown, q) = shown
              /\ c # s.drawer => shown = v
  <2>1. CASE c = s.drawer
    <3>1. Settled(q) /\ Fresh(q, v.role)
      BY <1>7, <1>10, <1>12, <2>1 DEF Catches, CatchesUp
    <3>2. \A k \in 1..Len(q) : q[k].flag = "GAME_ENDS" => q[k] = GameEnds
      <4>1. \A k \in 1..Len(q) : q[k] \in Heard
        BY <1>5
      <4> QED BY <4>1, EndIsEnd
    <3>3. \A k \in 1..Len(q) : q[k].flag # "CANVAS" /\ ~Resets(q[k])
      BY <1>4, <1>5, <1>12, <3>1, <3>2, NothingToCome
    <3> QED BY <1>5, <1>6, <2>1, <3>3, SeenNothing
  <2>2. CASE c # s.drawer
    <3>1. Tells(q, v.role, "guess")
      <4>1. RoleOf(s, c) = "guess"
        BY <1>12, <2>2 DEF RoleOf
      <4> QED BY <1>1, <1>4, <1>7, <1>12, <4>1 DEF Told
    <3>2. v.role # "draw"
      BY <1>12, <3>1 DEF Tells
    <3> QED BY <1>3, <1>6, <1>7, <2>2, <3>2
  <2> QED BY <2>1, <2>2
<1>13. CatchesUp(s, c) /\ s.in_progress /\ ~s.spoiled => CatchesUp(s', c)
  <2> SUFFICES ASSUME CatchesUp(s, c), s.in_progress, ~s.spoiled
               PROVE  CatchesUp(s', c)
    OBVIOUS
  <2>1. /\ s'.toClient[c] = q /\ s'.view[c] = shown /\ s'.toServer[c] = sent
        /\ s'.canvas = s.canvas /\ s'.drawer = s.drawer
    BY <1>4, <1>7, <1>8 DEF SameRound, SameCanvas
  <2>2. CASE c # s.drawer
    <3>1. Seen(shown, q) = Seen(v, q)
      BY <1>11, <1>12, <2>2
    <3> QED BY <1>7, <2>1, <2>2, <3>1 DEF CatchesUp
  <2>3. CASE c = s.drawer
    <3>1. ASSUME c \notin s'.crossed
          PROVE  Seen(shown, q) = [role |-> "draw", canvas |-> Stroked(s.canvas, sent)]
      <4>1. c \notin s.crossed /\ ~RoundIsEndingFor(c)
        BY <1>4, <3>1
      <4>2. \A k \in 1..Len(q) : q[k] # GameEnds
        BY <1>5, <1>7, <4>1 DEF RoundIsEndingFor, ToSet
      <4>3. Seen(v, q) = v /\ Seen(shown, q) = shown
        BY <1>12, <2>3, <4>2
      <4>4. v = [role |-> "draw", canvas |-> Stroked(s.canvas, s.toServer[c])]
        BY <1>7, <2>3, <4>1, <4>3 DEF CatchesUp
      <4>5. Stroked(s.canvas, sent) = Stroke(Stroked(s.canvas, s.toServer[c]), m)
        BY <1>3, <1>5, <1>7, StrokedMore
      <4>6. v.role = "draw" /\ v.canvas = Stroked(s.canvas, s.toServer[c])
        BY <4>4
      <4> QED BY <1>6, <4>3, <4>5, <4>6
    <3>2. Settled(q)
      BY <1>7, <2>3 DEF CatchesUp
    <3> QED BY <2>1, <2>3, <3>1, <3>2 DEF CatchesUp
  <2> QED BY <2>2, <2>3
<1>14. ASSUME NEW d \in s'.online \ s'.hung PROVE Catches(s', d)
  <2>1. d \in s.online \ s.hung /\ d \in Clients /\ Catches(s, d)
    BY <1>1, <1>4, OnlineAreClients DEF Follows
  <2>2. CASE d # c
    <3>1. /\ s'.toClient[d] = s.toClient[d] /\ s'.view[d] = s.view[d]
          /\ s'.toServer[d] = s.toServer[d] /\ (d \in s.crossed => d \in s'.crossed)
      BY <1>4, <1>8, <2>1, <2>2
    <3> QED BY <1>4, <2>1, <3>1, CatchesOn
  <2>3. CASE d = c
    <3>1. Fresh(s'.toClient[c], s'.view[c].role)
      BY <1>4, <1>7, <1>8, <1>10 DEF Catches
    <3> QED BY <1>4, <1>10, <1>13, <2>3, <3>1 DEF Catches, SameRound, SameCanvas
  <2> QED BY <2>2, <2>3
<1> QED BY <1>4, <1>9, <1>14 DEF CInv, Follows, SameRound, SameCanvas

\* The invariant of catching up is kept.
LEMMA StepFollows == CInv /\ [Next]_vars => CInv'
<1> SUFFICES ASSUME CInv, [Next]_vars PROVE CInv'
  OBVIOUS
<1>1. SInv'
  BY StepConverses DEF CInv
<1>2. ASSUME s' = s, at' = at \/ (at # "beat" /\ at' \in {"poll", "walk"}) PROVE CInv'
  BY <1>1, <1>2 DEF CInv
<1>3. CASE UNCHANGED vars
  BY <1>2, <1>3 DEF vars
<1>4. CASE Server
  <2>1. CASE SkipRound \/ SkipEntry \/ EndWalk
    BY <1>2, <2>1 DEF SkipRound, SkipEntry, EndWalk
  <2>2. CASE \E c \in Clients : Beat(c)
    BY <1>1, <2>2, BeatFollows
  <2>3. CASE Poll \/ EndRound
    BY <1>1, <2>3, PollFollows, EndRoundFollows
  <2>4. CASE Answer \/ FinishRound
    BY <1>1, <2>4, AnswerFollows, FinishRoundFollows
  <2>5. CASE Accept \/ Receive
    BY <1>1, <2>5, AcceptFollows, ReceiveFollows
  <2> QED BY <1>4, <2>1, <2>2, <2>3, <2>4, <2>5 DEF Server
<1>5. CASE Tick
  BY <1>1, <1>5, TickFollows
<1>6. ASSUME NEW c \in Clients, Dial(c) \/ HangUp(c) \/ Read(c) \/ Play(c) PROVE CInv'
  <2>1. CASE Dial(c)
    BY <1>2, <2>1 DEF Dial
  <2>2. CASE HangUp(c)
    BY <1>1, <2>2, HangUpFollows
  <2>3. CASE Read(c)
    BY <1>1, <2>3, ReadFollows
  <2>4. CASE Play(c)
    BY <1>1, <2>4, PlayFollows
  <2> QED BY <1>6, <2>1, <2>2, <2>3, <2>4
<1> QED BY <1>3, <1>4, <1>5, <1>6 DEF Next

\* It holds.
LEMMA ClientsFollow == Spec => []CInv
<1> QED BY InitFollows, StepFollows, PTL DEF Spec

\* Every client that reads on ends up in the role the server has it in and with the canvas
\* the server has, the drawing player with what it has drawn since, whatever was on its way
\* when it joined, when the last round ended, and when others were removed.
THEOREM ClientsSeeTheRound == Spec => []ClientsCatchUp
<1>1. CInv => ClientsCatchUp
  BY DEF CInv, Follows, Catches, CatchesUp, Seen, Stroked, ClientsCatchUp, CaughtUp, WithStrokesOf
<1> QED BY <1>1, ClientsFollow, PTL

\* The types of the session: what the handlers build, send and receive, among them a
\* canvas whose indices are in range whatever indices the drawing player sends.
THEOREM TypeCorrect == Spec => []TypeOK
<1>1. ASSUME CInv PROVE TypeOK
  <2>1. Sound(s) /\ Plain(s) /\ Good(s) /\ Typed(s) /\ IInv
    BY <1>1, Conversing DEF CInv, Follows, Sound
  <2>2. s.toClient \in [Clients -> Seq(ToClient)]
    <3>1. ASSUME NEW c \in Clients PROVE s.toClient[c] \in Seq(ToClient)
      <4>1. s.toClient[c] \in Seq(Heard)
        BY <2>1 DEF Typed
      <4>2. \A m \in Heard : m \in ToClient
        BY DEF Heard
      <4> QED BY <4>1, <4>2
    <3>2. s.toClient = [c \in Clients |-> s.toClient[c]]
      BY <2>1 DEF Plain
    <3> QED BY <3>1, <3>2
  <2>3. s.view \in [Clients -> [role : Roles, canvas : Canvas]]
    <3>1. \A c \in Clients : s.view[c] \in [role : Roles, canvas : Canvas]
      BY <2>1 DEF Typed, Views
    <3>2. s.view = [c \in Clients |-> s.view[c]]
      BY <2>1 DEF Plain
    <3> QED BY <3>1, <3>2
  <2>4. /\ DOMAIN s = Fields /\ IsPollSet(s.pfds, Clients \cup {Listener})
        /\ s.online \subseteq Clients /\ s.hung \subseteq s.online
        /\ s.crossed \subseteq s.online /\ s.toServer \in [Clients -> Seq(ToServer)]
    BY <2>1 DEF Good, Plain
  <2>5. IsSession(s)
    BY <2>1, <2>2, <2>3, <2>4 DEF IsSession, Typed, Fields
  <2>6. backlog \in Seq(Clients) /\ i \in Nat /\ beats \subseteq Clients
        /\ asked \in Clients \cup {None}
    BY <2>1 DEF IInv, BacklogIsApart
  <2> QED BY <1>1, <2>5, <2>6 DEF TypeOK, CInv
<1> QED BY <1>1, ClientsFollow, PTL
=============================================================================
