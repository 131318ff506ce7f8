------------------------------- MODULE PollSet -------------------------------
(***************************************************************************)
(* The array of struct pollfd that the server hands to poll                *)
(* (utils/sock_utils.c), as operators on a value:                          *)
(*                                                                         *)
(*   slots    : the allocated array, fd_size long                          *)
(*   fd_count : how many slots from the start on are entries               *)
(*                                                                         *)
(* A slot has a descriptor and what the last poll said of it.  Indices are *)
(* one higher than in the program.                                         *)
(***************************************************************************)
EXTENDS Integers, Sequences, FiniteSetsExt

\* The descriptor of a slot that is not an entry; whatever is written there is never
\* looked at.
NoFd == -1

\* revents: nothing to read, POLLIN, or whatever realloc found in that memory.
Revents == {"none", "POLLIN", "junk"}

IsPollSet(p, Fds) ==
  /\ DOMAIN p = {"slots", "fd_count"}
  /\ p.slots \in Seq([fd : Fds \cup {NoFd}, revents : Revents])
  /\ p.fd_count \in 0..Len(p.slots)

FreeSlot == [fd |-> NoFd, revents |-> "none"]
JunkSlot == [fd |-> NoFd, revents |-> "junk"]

\* initialize_lobby: calloc of fd_size slots.
new_pfds(fd_size) == [slots |-> [k \in 1..fd_size |-> FreeSlot], fd_count |-> 0]

\* The descriptors polled.
Polled(p) == {p.slots[k].fd : k \in 1..p.fd_count}

\* A full array is doubled; realloc leaves the new half as it finds it.
Room(p) ==
  IF p.fd_count = Len(p.slots)
  THEN p.slots \o [k \in 1..Len(p.slots) |-> JunkSlot]
  ELSE p.slots

\* The first slot after the entries gets the descriptor; its revents are not touched.
add_to_pfds(p, new_fd) ==
  [slots |-> [Room(p) EXCEPT ![p.fd_count + 1].fd = new_fd],
   fd_count |-> p.fd_count + 1]

\* Mutant: the last entry is dropped with the one deleted.
del_from_pfds_without_move(p, i) ==
  [slots |-> [p.slots EXCEPT ![p.fd_count] = FreeSlot], fd_count |-> p.fd_count - 1]

\* Mutant: the slot left behind keeps its revents.
del_from_pfds_keeping_revents(p, i) ==
  [slots |-> [p.slots EXCEPT ![i] = p.slots[p.fd_count], ![p.fd_count].fd = NoFd],
   fd_count |-> p.fd_count - 1]

\* The last entry takes the place of the one deleted, and leaves a clean slot.
del_from_pfds(p, i) ==
  [slots |-> [p.slots EXCEPT ![i] = p.slots[p.fd_count], ![p.fd_count] = FreeSlot],
   fd_count |-> p.fd_count - 1]

\* The first entry with that descriptor is deleted, if there is one.
del_from_pfds_by_fd(p, fd) ==
  LET found == {k \in 1..p.fd_count : p.slots[k].fd = fd}
  IN  IF found = {} THEN p ELSE del_from_pfds(p, Min(found))

\* poll: the entries learn whether they can be read.
poll(p, readable) ==
  [p EXCEPT !.slots =
     [k \in 1..Len(p.slots) |->
        IF k > p.fd_count THEN p.slots[k]
        ELSE [fd |-> p.slots[k].fd,
              revents |-> IF p.slots[k].fd \in readable THEN "POLLIN" ELSE "none"]]]

\* The entries are exactly the descriptors of F, each once.
IsExactly(p, F) ==
  /\ Polled(p) = F
  /\ \A j, k \in 1..p.fd_count : p.slots[j].fd = p.slots[k].fd => j = k
=============================================================================
