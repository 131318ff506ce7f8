----------------------------- MODULE PlayerList -----------------------------
(***************************************************************************)
(* The player list of one game (model/player.c) and the rotation of the    *)
(* drawing player over it (game.c), as operators on a value.               *)
(*                                                                         *)
(* The C code keeps a singly linked list, newest player first, and a       *)
(* pointer drawing_player_list into it.  remove_player unlinks a node but  *)
(* neither frees it nor moves that pointer, so the chain of nodes          *)
(* reachable from the pointer may start with nodes that are no longer in   *)
(* the list.  A roster records what the code can see of that heap:         *)
(*                                                                         *)
(*   list : the players of the linked list, head first                     *)
(*   dead : the players of the unlinked nodes at the start of the chain    *)
(*          that begins at drawing_player_list                             *)
(*   live : the players of the rest of that chain, a suffix of list        *)
(*                                                                         *)
(* dead \o live is empty exactly when drawing_player_list is NULL.  Module *)
(* PlayerHeap has the nodes and the pointers and implements this view.     *)
(***************************************************************************)
EXTENDS Integers, FiniteSets, SequencesExt

\* r is a roster of players of P.
IsRoster(r, P) ==
  /\ DOMAIN r = {"list", "dead", "live"}
  /\ r.list \in Seq(P)
  /\ r.dead \in Seq(P)
  /\ r.live \in Seq(P)

\* new_players, and drawing_player_list as new_game leaves it.
new_players == [list |-> <<>>, dead |-> <<>>, live |-> <<>>]

\* The nodes reachable from drawing_player_list.
Rotation(r) == r.dead \o r.live

\* drawing_player_list->player, when the pointer is not NULL.
Drawer(r) == Rotation(r)[1]

Members(r) == ToSet(r.list)

\* The index of the first player of seq that is in S, 0 if there is none.
FirstIn(seq, S) ==
  LET hits == {i \in 1..Len(seq) : seq[i] \in S}
  IN  IF hits = {} THEN 0 ELSE Min(hits)

\* The sequence from its k-th element on, for a k up to its length plus one.
From(seq, k) == [i \in 1..(Len(seq) - k + 1) |-> seq[k + i - 1]]

\* The sequence without the first node of player p.
Without(seq, p) ==
  LET k == FirstIn(seq, {p})
  IN  IF k = 0 THEN seq
      ELSE [i \in 1..(Len(seq) - 1) |-> IF i < k THEN seq[i] ELSE seq[i + 1]]

\* t is the end of seq.
IsTail(t, seq) ==
  /\ Len(t) <= Len(seq)
  /\ \A i \in 1..Len(t) : t[i] = seq[Len(seq) - Len(t) + i]

\* What holds of every roster: nobody is twice in the list, and what the drawing
\* pointer reaches is, unlinked nodes apart, the end of the list.
IsSound(r) == IsInjective(r.list) /\ IsTail(r.live, r.list)

-----------------------------------------------------------------------------
\* Mutant: whoever joins makes the rotation start over.
add_player_restarting(r, p) ==
  [list |-> <<p>> \o r.list, dead |-> <<>>, live |-> <<p>> \o r.list]

\* The new node becomes the head; the drawing pointer is not touched.
add_player(r, p) == [list |-> <<p>> \o r.list, dead |-> r.dead, live |-> r.live]

\* Mutant: the drawing pointer follows when its node is unlinked.
remove_player_moving_pointer(r, p) ==
  [list |-> Without(r.list, p), dead |-> r.dead, live |-> Without(r.live, p)]

\* Mutant: the unlinked node stays reachable from its predecessor.
remove_player_leaving_link(r, p) == [r EXCEPT !.list = Without(r.list, p)]

\* The node leaves the list.  When its predecessor in the drawing chain is an
\* unlinked node, or it is itself where the drawing pointer points, nothing
\* bypasses it there: it stays in the chain as one more dead node.
remove_player(r, p) ==
  LET stays == FirstIn(r.live, {p}) = 1
  IN  [list |-> Without(r.list, p),
       dead |-> IF stays THEN Append(r.dead, p) ELSE r.dead,
       live |-> Without(r.live, p)]

-----------------------------------------------------------------------------
\* Where the search of get_next_drawing_fd starts: after the drawing node, or at
\* the head when there is none.
Ahead(r) == IF Rotation(r) = <<>> THEN r.list ELSE From(Rotation(r), 2)

\* The first node of the chain, or of the whole list, with an online player; 0
\* if there is none.
NextAhead(r, online) == FirstIn(Ahead(r), online)
NextAround(r, online) == FirstIn(r.list, online)

\* Mutant: the second loop counts its iterations one too far.
Wraps_too_early(r, online) ==
  /\ NextAround(r, online) # 0
  /\ Len(Ahead(r)) + NextAround(r, online) + 1 < Len(r.list)

\* The first loop of get_next_drawing_fd visits all of Ahead(r) in vain, the
\* second starts over at the head and gives up when the iterations of both
\* reach the number of players.
Wraps(r, online) ==
  /\ NextAround(r, online) # 0
  /\ Len(Ahead(r)) + NextAround(r, online) < Len(r.list)

\* get_next_drawing_fd returns 0.
HasNextDrawer(r, online) == NextAhead(r, online) # 0 \/ Wraps(r, online)

\* The drawing pointer set to the k-th node of the list.
PointAt(r, k) == [list |-> r.list, dead |-> <<>>, live |-> From(r.list, k)]

\* The drawing pointer moved k nodes down its chain.
Advance(r, k) ==
  IF k < Len(r.dead)
  THEN [list |-> r.list, dead |-> From(r.dead, k + 1), live |-> r.live]
  ELSE [list |-> r.list, dead |-> <<>>, live |-> From(r.live, k - Len(r.dead) + 1)]

\* Mutant: the search always starts over at the head.
get_next_drawing_from_head(r, online) == PointAt(r, NextAround(r, online))

\* get_next_drawing_fd, when it returns 0.
get_next_drawing(r, online) ==
  LET k == NextAhead(r, online)
  IN  IF k = 0 THEN PointAt(r, NextAround(r, online))
      ELSE IF Rotation(r) = <<>> THEN PointAt(r, k) ELSE Advance(r, k)
=============================================================================
